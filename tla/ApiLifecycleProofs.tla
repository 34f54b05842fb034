------------------------ MODULE ApiLifecycleProofs ------------------------
(***************************************************************************)
(* Proofs about ApiLifecycle, for any finite number of API objects, any    *)
(* parents among them, any finite number of threads of the Executor, and   *)
(* any number of handles, calls, notifications and disconnections.         *)
(***************************************************************************)
EXTENDS ApiLifecycle, FiniteSetTheorems, SequenceTheorems, TLAPS

(* How often a task is in a queue, and on how many threads it runs.        *)
Waits(q, task) == Cardinality({i \in 1 .. Len(q) : q[i] = task})
Runs(f, task) == Cardinality({w \in Workers : f[w] = task})

(* The guarded tasks of an object that are not done.                       *)
Pending(o) == Waits(queue, Guard(o)) + Runs(worker, Guard(o))

(* _dataToProcess counts them.                                             *)
Counted == \A o \in Apis : dataToProcess[o] = Pending(o)

(* Only objects that have not left the listeners are given notifications.  *)
Listeners ==
  /\ emitting \subseteq listening
  /\ ~locked => emitting = {}
  /\ \A o \in listening : stage[o] \in {"creating", "alive", "dying"}

(* A destructor sleeps only while there is something to wait for, and ends *)
(* when there is nothing more.                                             *)
Sleepers ==
  \A o \in Apis : /\ stage[o] = "asleep" => dataToProcess[o] > 0
                  /\ stage[o] = "freed" => dataToProcess[o] = 0

(* Only a living object keeps itself, or is waited for by a cleanup.       *)
KeptAlive ==
  \A o \in Apis : stage[o] # "alive" =>
    ~selfRef[o] /\ ~Queued(Cleanup(o)) /\ ~Running(Cleanup(o))

(* The inductive invariant of the tasks and of the destruction.            *)
TasksInv == TypeOK /\ Counted /\ Listeners /\ Sleepers /\ KeptAlive

(* What holds a handle of the object: the application and its children.    *)
Holders(o) == handles[o] + Cardinality(Children(o))

(* An object that does not exist yet has no handles and no children.       *)
Fresh ==
  \A o \in Apis : stage[o] \in {"none", "creating"} =>
    handles[o] = 0 /\ counter[o] = 0 /\ Children(o) = {}

(* The counter of an object that keeps itself: never less than the number  *)
(* of handles, and no more either unless one was assigned to.              *)
CounterInv ==
  \A o \in Apis : selfRef[o] =>
    /\ counter[o] >= 1 /\ counter[o] >= Holders(o)
    /\ o \notin assigned => counter[o] = Holders(o)

(* Before the connection is lost an object with a handle keeps itself, and *)
(* no cleanup has been asked for.                                          *)
Connected ==
  /\ disconnects \in Nat
  /\ disconnects = 0 =>
       /\ told = {}
       /\ \A o \in Apis : ~Queued(Cleanup(o)) /\ ~Running(Cleanup(o))
       /\ \A o \in Apis : handles[o] > 0 \/ Children(o) # {} => selfRef[o]

(* With the handles.                                                       *)
HandlesInv == TasksInv /\ Fresh /\ CounterInv /\ Connected

-----------------------------------------------------------------------------

(* A task is counted in a queue as a natural number, zero exactly when it  *)
(* is not there.                                                           *)
LEMMA WaitsCount ==
  ASSUME NEW q \in Seq(Jobs), NEW task
  PROVE  /\ Waits(q, task) \in Nat
         /\ IsFiniteSet({i \in 1 .. Len(q) : q[i] = task})
         /\ Waits(q, task) > 0 <=> \E i \in DOMAIN q : q[i] = task
<1> DEFINE W == {i \in 1 .. Len(q) : q[i] = task}
<1>1. Len(q) \in Nat /\ DOMAIN q = 1 .. Len(q)
  OBVIOUS
<1>2. IsFiniteSet(W)
  <2>1. IsFiniteSet(1 .. Len(q))
    BY <1>1, FS_Interval
  <2>2. W \in SUBSET (1 .. Len(q))
    OBVIOUS
  <2> QED
    BY <2>1, <2>2, FS_Subset
<1>3. Cardinality(W) \in Nat /\ (Cardinality(W) = 0 <=> W = {})
  BY <1>2, FS_CardinalityType, FS_EmptySet
<1> QED
  BY <1>1, <1>2, <1>3 DEF Waits

(* Pushing a task counts it once more.                                     *)
LEMMA WaitsAppend ==
  ASSUME NEW q \in Seq(Jobs), NEW e \in Jobs, NEW task
  PROVE  Waits(Append(q, e), task) = Waits(q, task) + (IF e = task THEN 1 ELSE 0)
<1> DEFINE W == {i \in 1 .. Len(q) : q[i] = task}
           V == {i \in 1 .. Len(Append(q, e)) : Append(q, e)[i] = task}
<1>1. /\ Len(q) \in Nat /\ Len(Append(q, e)) = Len(q) + 1
      /\ \A i \in 1 .. Len(q) : Append(q, e)[i] = q[i]
      /\ Append(q, e)[Len(q) + 1] = e
  OBVIOUS
<1>2. IsFiniteSet(W) /\ Cardinality(W) \in Nat
  BY WaitsCount DEF Waits
<1>3. V = IF e = task THEN W \cup {Len(q) + 1} ELSE W
  BY <1>1
<1>4. Len(q) + 1 \notin W
  BY <1>1
<1>5. Cardinality(W \cup {Len(q) + 1}) = Cardinality(W) + 1
  BY <1>2, <1>4, FS_AddElement
<1> HIDE DEF W, V
<1>6. Cardinality(V) = Cardinality(W) + (IF e = task THEN 1 ELSE 0)
  BY <1>2, <1>3, <1>5
<1> QED
  BY <1>6 DEF Waits, W, V

(* Popping the first task counts it once less; the others move by one      *)
(* place.                                                                  *)
LEMMA WaitsTail ==
  ASSUME NEW q \in Seq(Jobs), q # << >>, NEW task
  PROVE  Waits(q, task) = Waits(Tail(q), task) + (IF Head(q) = task THEN 1 ELSE 0)
<1> DEFINE W == {i \in 1 .. Len(q) : q[i] = task}
           V == {i \in 1 .. Len(Tail(q)) : Tail(q)[i] = task}
           U == W \ {1}
           f == [i \in V |-> i + 1]
<1>1. /\ Len(q) \in Nat /\ Len(q) > 0 /\ Len(Tail(q)) = Len(q) - 1
      /\ \A i \in 1 .. Len(q) - 1 : Tail(q)[i] = q[i + 1]
      /\ Head(q) = q[1] /\ Tail(q) \in Seq(Jobs)
  OBVIOUS
<1>2. IsFiniteSet(W) /\ IsFiniteSet(V) /\ Cardinality(W) \in Nat /\ Cardinality(V) \in Nat
  BY <1>1, WaitsCount DEF Waits
<1>3. f \in Bijection(V, U)
  <2>1. \A i \in V : i + 1 \in U
    BY <1>1
  <2>2. \A j \in U : j - 1 \in V /\ f[j - 1] = j
    BY <1>1
  <2>3. \A i, j \in V : f[i] = f[j] => i = j
    OBVIOUS
  <2>4. f \in [V -> U]
    BY <2>1
  <2>5. \A j \in U : \E i \in V : f[i] = j
    BY <2>2
  <2> HIDE DEF f, V, U
  <2>6. f \in Injection(V, U)
    BY <2>3, <2>4 DEF Injection, IsInjective
  <2>7. f \in Surjection(V, U)
    BY <2>4, <2>5 DEF Surjection
  <2> QED
    BY <2>6, <2>7 DEF Bijection
<1>4. Cardinality(V) = Cardinality(U)
  <2>1. ExistsBijection(V, U)
    BY <1>3 DEF ExistsBijection
  <2> QED
    BY <1>2, <2>1, FS_Bijection
<1>5. Cardinality(U) = IF Head(q) = task THEN Cardinality(W) - 1 ELSE Cardinality(W)
  <2>1. 1 \in W <=> Head(q) = task
    BY <1>1
  <2> QED
    BY <1>2, <2>1, FS_RemoveElement
<1> HIDE DEF W, V, U
<1>6. Cardinality(W) = Cardinality(V) + (IF Head(q) = task THEN 1 ELSE 0)
  BY <1>2, <1>4, <1>5
<1> QED
  BY <1>6 DEF Waits, W, V

(* The same for the threads that run a task.                               *)
LEMMA RunsCount ==
  ASSUME NEW f \in [Workers -> Jobs], NEW task
  PROVE  /\ Runs(f, task) \in Nat
         /\ IsFiniteSet({w \in Workers : f[w] = task})
         /\ Runs(f, task) > 0 <=> \E w \in Workers : f[w] = task
<1> DEFINE R == {w \in Workers : f[w] = task}
<1>1. IsFiniteSet(R)
  BY ApiAssumption, FS_Subset
<1>2. Cardinality(R) \in Nat /\ (Cardinality(R) = 0 <=> R = {})
  BY <1>1, FS_CardinalityType, FS_EmptySet
<1> QED
  BY <1>1, <1>2 DEF Runs

(* One thread that takes up or ends a task.                                *)
LEMMA RunsSet ==
  ASSUME NEW f \in [Workers -> Jobs], NEW g \in [Workers -> Jobs], NEW w \in Workers,
         NEW task, \A v \in Workers \ {w} : g[v] = f[v]
  PROVE  /\ f[w] # task /\ g[w] # task => Runs(g, task) = Runs(f, task)
         /\ f[w] # task /\ g[w] = task => Runs(g, task) = Runs(f, task) + 1
         /\ f[w] = task /\ g[w] # task => Runs(g, task) = Runs(f, task) - 1
<1> DEFINE R == {v \in Workers : f[v] = task}
           S == {v \in Workers : g[v] = task}
           T == R \ {w}
<1>1. IsFiniteSet(R) /\ IsFiniteSet(T) /\ Cardinality(R) \in Nat
      /\ Cardinality(T) = IF f[w] = task THEN Cardinality(R) - 1 ELSE Cardinality(R)
  <2>1. IsFiniteSet(R) /\ Cardinality(R) \in Nat
    BY RunsCount DEF Runs
  <2>2. w \in R <=> f[w] = task
    OBVIOUS
  <2> QED
    BY <2>1, <2>2, FS_RemoveElement
<1>2. S = IF g[w] = task THEN T \cup {w} ELSE T
  OBVIOUS
<1>3. Cardinality(T \cup {w}) = Cardinality(T) + 1
  <2>1. w \notin T
    OBVIOUS
  <2> QED
    BY <1>1, <2>1, FS_AddElement
<1> HIDE DEF R, S, T
<1>4. /\ f[w] # task /\ g[w] # task => Cardinality(S) = Cardinality(R)
      /\ f[w] # task /\ g[w] = task => Cardinality(S) = Cardinality(R) + 1
      /\ f[w] = task /\ g[w] # task => Cardinality(S) = Cardinality(R) - 1
  BY <1>1, <1>2, <1>3
<1> QED
  BY <1>4 DEF Runs, R, S

-----------------------------------------------------------------------------

(* Tasks of different kinds or objects differ, and a task is what its      *)
(* fields say.                                                             *)
LEMMA JobFacts ==
  /\ \A o \in Apis : Guard(o) \in Jobs /\ Cleanup(o) \in Jobs /\ Dtor(o) \in Jobs
  /\ Idle \in Jobs
  /\ \A o, p : Guard(o) # Cleanup(p) /\ Guard(o) # Dtor(p) /\ Cleanup(o) # Dtor(p)
  /\ \A o, p : (Guard(o) = Guard(p) => o = p) /\ (Cleanup(o) = Cleanup(p) => o = p)
  /\ \A o : Guard(o) # Idle /\ Cleanup(o) # Idle /\ Dtor(o) # Idle
  /\ \A t \in Jobs : t.job = "guard" => t.obj \in Apis /\ t = Guard(t.obj)
  /\ \A t \in Jobs : t.job = "cleanup" => t.obj \in Apis /\ t = Cleanup(t.obj)
  BY DEF Jobs, Guard, Cleanup, Dtor, Idle

(* An object has pending guarded tasks exactly when one is queued or runs. *)
LEMMA PendingFacts ==
  ASSUME TypeOK, NEW o \in Apis
  PROVE  /\ Pending(o) \in Nat
         /\ Pending(o) > 0 <=> Queued(Guard(o)) \/ Running(Guard(o))
<1>1. queue \in Seq(Jobs) /\ worker \in [Workers -> Jobs]
  BY DEF TypeOK
<1>2. /\ Waits(queue, Guard(o)) \in Nat
      /\ Waits(queue, Guard(o)) > 0 <=> Queued(Guard(o))
  BY <1>1, WaitsCount DEF Queued
<1>3. /\ Runs(worker, Guard(o)) \in Nat
      /\ Runs(worker, Guard(o)) > 0 <=> Running(Guard(o))
  BY <1>1, RunsCount DEF Running
<1> QED
  BY <1>2, <1>3 DEF Pending

(* exec counts the task it queues, a thread that takes it moves it, and    *)
(* the end of the task uncounts it: the count is never off.                *)
LEMMA CountedStep ==
  ASSUME TypeOK, Counted, [Next]_vars
  PROVE  Counted'
<1>0. queue \in Seq(Jobs) /\ worker \in [Workers -> Jobs] /\ dataToProcess \in [Apis -> Nat]
  BY DEF TypeOK
<1>a. \A x \in Apis : Waits(queue, Guard(x)) \in Nat /\ Runs(worker, Guard(x)) \in Nat
  BY <1>0, WaitsCount, RunsCount
<1>1. ASSUME NEW o \in Apis, Construct(o) PROVE Counted'
  BY <1>1 DEF Construct, executor, Counted, Pending
<1>2. ASSUME NEW o \in Apis, Create(o) PROVE Counted'
  BY <1>2 DEF Create, executor, Counted, Pending
<1>3. ASSUME NEW o \in Apis, CopyHandle(o) PROVE Counted'
  BY <1>3 DEF CopyHandle, executor, Counted, Pending
<1>4. ASSUME NEW o \in Apis, DropHandle(o) PROVE Counted'
  BY <1>4 DEF DropHandle, executor, Counted, Pending
<1>5. ASSUME NEW o \in Apis, CallBegin(o) PROVE Counted'
  BY <1>5 DEF CallBegin, executor, Counted, Pending
<1>6. ASSUME NEW o \in Apis, CallEnd(o) PROVE Counted'
  BY <1>6 DEF CallEnd, executor, Counted, Pending
<1>7. ASSUME NEW o \in Apis, Notify(o) PROVE Counted'
  <2>1. CASE stage[o] \in {"stopping", "asleep"}
    BY <1>7, <2>1 DEF Notify, executor, Counted, Pending
  <2>2. CASE stage[o] \notin {"stopping", "asleep"}
    <3>1. /\ dataToProcess' = [dataToProcess EXCEPT ![o] = dataToProcess[o] + 1]
          /\ queue' = Append(queue, Guard(o)) /\ worker' = worker
      BY <1>7, <2>2 DEF Notify
    <3>2. \A x \in Apis : Waits(queue', Guard(x))
                            = Waits(queue, Guard(x)) + (IF x = o THEN 1 ELSE 0)
      BY <1>0, <3>1, WaitsAppend, JobFacts
    <3> QED
      BY <1>0, <1>a, <3>1, <3>2 DEF Counted, Pending
  <2> QED
    BY <2>1, <2>2
<1>8. ASSUME NEW o \in Apis, Disconnected(o) PROVE Counted'
  <2>1. \A x \in Apis : Waits(queue', Guard(x)) = Waits(queue, Guard(x))
    <3>1. queue' = queue \/ queue' = Append(queue, Cleanup(o))
      BY <1>8 DEF Disconnected
    <3>2. \A x \in Apis : Waits(Append(queue, Cleanup(o)), Guard(x)) = Waits(queue, Guard(x))
      BY <1>0, <1>a, WaitsAppend, JobFacts
    <3> QED
      BY <3>1, <3>2
  <2> QED
    BY <1>8, <2>1 DEF Disconnected, Counted, Pending
<1>9. ASSUME NEW o \in Apis, DisconnectedDangling(o) PROVE Counted'
  BY <1>9 DEF DisconnectedDangling, executor, Counted, Pending
<1>10. ASSUME NEW o \in Apis, DtorRemoveListeners(o) PROVE Counted'
  BY <1>10 DEF DtorRemoveListeners, executor, Counted, Pending
<1>11. ASSUME NEW o \in Apis, DtorWait(o) PROVE Counted'
  BY <1>11 DEF DtorWait, executor, Counted, Pending
<1>12. ASSUME NEW o \in Apis, DtorDone(o) PROVE Counted'
  <2>1. \A x \in Apis : \A w \in Workers : worker'[w] = Guard(x) <=> worker[w] = Guard(x)
    BY <1>12, <1>0, JobFacts DEF DtorDone
  <2>2. \A x \in Apis : Runs(worker', Guard(x)) = Runs(worker, Guard(x))
    BY <2>1 DEF Runs
  <2> QED
    BY <1>12, <2>2 DEF DtorDone, Counted, Pending
<1>13. ASSUME NEW o \in Apis, NEW p \in Apis, AssignHandle(o, p) PROVE Counted'
  BY <1>13 DEF AssignHandle, executor, Counted, Pending
<1>14. ASSUME NEW w \in Workers, PopTask(w) PROVE Counted'
  <2>1. /\ queue # << >> /\ worker[w] = Idle /\ dataToProcess' = dataToProcess
        /\ queue' = Tail(queue) /\ worker' = [worker EXCEPT ![w] = Head(queue)]
    BY <1>14 DEF PopTask
  <2>2. Head(queue) \in Jobs /\ Tail(queue) \in Seq(Jobs)
    BY <1>0, <2>1
  <2> SUFFICES ASSUME NEW x \in Apis PROVE (dataToProcess[x] = Pending(x))'
    BY DEF Counted
  <2>3. Waits(queue, Guard(x)) = Waits(queue', Guard(x))
                                 + (IF Head(queue) = Guard(x) THEN 1 ELSE 0)
    BY <1>0, <2>1, WaitsTail
  <2>4. Runs(worker', Guard(x)) = Runs(worker, Guard(x))
                                  + (IF Head(queue) = Guard(x) THEN 1 ELSE 0)
    <3>1. worker[w] # Guard(x)
      BY <2>1, JobFacts
    <3>2. /\ Head(queue) # Guard(x) => Runs(worker', Guard(x)) = Runs(worker, Guard(x))
          /\ Head(queue) = Guard(x) => Runs(worker', Guard(x)) = Runs(worker, Guard(x)) + 1
      <4>1. /\ worker' \in [Workers -> Jobs] /\ worker'[w] = Head(queue)
            /\ \A v \in Workers \ {w} : worker'[v] = worker[v]
        BY <1>0, <2>1, <2>2
      <4> QED
        BY <1>0, <3>1, <4>1, RunsSet
    <3> QED
      BY <1>a, <3>2
  <2>5. Waits(queue', Guard(x)) \in Nat
    BY <2>1, <2>2, WaitsCount
  <2> QED
    BY <1>a, <2>1, <2>3, <2>4, <2>5 DEF Counted, Pending
<1>15. ASSUME NEW w \in Workers, GuardDone(w) PROVE Counted'
  <2> DEFINE o == worker[w].obj
  <2>1. /\ worker[w] = Guard(o) /\ o \in Apis /\ queue' = queue
        /\ worker' = [worker EXCEPT ![w] = Idle]
        /\ dataToProcess' = [dataToProcess EXCEPT ![o] = dataToProcess[o] - 1]
    BY <1>15, <1>0, JobFacts DEF GuardDone
  <2> HIDE DEF o
  <2> SUFFICES ASSUME NEW x \in Apis PROVE (dataToProcess[x] = Pending(x))'
    BY DEF Counted
  <2>2. /\ x # o => Runs(worker', Guard(x)) = Runs(worker, Guard(x))
        /\ x = o => Runs(worker', Guard(x)) = Runs(worker, Guard(x)) - 1
    <3>1. (worker[w] = Guard(x) <=> x = o) /\ Idle # Guard(x) /\ Idle \in Jobs
      BY <2>1, JobFacts
    <3> QED
      <4>1. /\ worker' \in [Workers -> Jobs] /\ worker'[w] = Idle
            /\ \A v \in Workers \ {w} : worker'[v] = worker[v]
        BY <1>0, <2>1, <3>1
      <4> QED
        BY <1>0, <3>1, <4>1, RunsSet
  <2> QED
    BY <1>0, <1>a, <2>1, <2>2 DEF Counted, Pending
<1>16. ASSUME NEW w \in Workers, RunCleanup(w) PROVE Counted'
  <2> DEFINE o == worker[w].obj
  <2>1. /\ worker[w] = Cleanup(o) /\ o \in Apis /\ queue' = queue
        /\ dataToProcess' = dataToProcess
        /\ \E e \in {Idle, Dtor(o)} : worker' = [worker EXCEPT ![w] = e]
    BY <1>16, <1>0, JobFacts DEF RunCleanup
  <2>2. \A x \in Apis : \A v \in Workers : worker'[v] = Guard(x) <=> worker[v] = Guard(x)
    BY <1>0, <2>1, JobFacts
  <2>3. \A x \in Apis : Runs(worker', Guard(x)) = Runs(worker, Guard(x))
    BY <2>2 DEF Runs
  <2> QED
    BY <2>1, <2>3 DEF Counted, Pending
<1>17. ASSUME NotificationBegin PROVE Counted'
  BY <1>17 DEF NotificationBegin, executor, Counted, Pending
<1>18. ASSUME NotificationEnd PROVE Counted'
  BY <1>18 DEF NotificationEnd, executor, Counted, Pending
<1>19. ASSUME DisconnectedBegin PROVE Counted'
  BY <1>19 DEF DisconnectedBegin, executor, Counted, Pending
<1>20. ASSUME UNCHANGED vars PROVE Counted'
  BY <1>20 DEF vars, executor, Counted, Pending
<1> QED
  BY <1>1, <1>2, <1>3, <1>4, <1>5, <1>6, <1>7, <1>8, <1>9, <1>10, <1>11, <1>12, <1>13,
     <1>14, <1>15, <1>16, <1>17, <1>18, <1>19, <1>20 DEF Next

(* Types. _dataToProcess does not become negative because it is at least   *)
(* one while a guarded task runs.                                          *)
LEMMA TypeStep ==
  ASSUME TypeOK, Counted, [Next]_vars
  PROVE  TypeOK'
<1> USE ApiAssumption
<1> DEFINE Rest == /\ stage \in [Apis -> Stages]
                   /\ handles \in [Apis -> 0 .. MaxHandles]
                   /\ counter \in [Apis -> Int]
                   /\ calls \in [Apis -> 0 .. MaxCalls]
                   /\ listening \subseteq Apis /\ emitting \subseteq Apis /\ told \subseteq Apis
                   /\ dataToProcess \in [Apis -> Nat]
                   /\ queue \in Seq(Jobs)
                   /\ worker \in [Workers -> Jobs]
<1>a. Rest /\ selfRef \in [Apis -> BOOLEAN]
  BY DEF TypeOK
<1>b. selfRef' \in [Apis -> BOOLEAN]
  <2> USE <1>a
  <2>1. ASSUME NEW o \in Apis, Detach(o) PROVE selfRef' \in [Apis -> BOOLEAN]
    BY <2>1 DEF Detach
  <2>2. ASSUME NEW o \in Apis, DtorDone(o) PROVE selfRef' \in [Apis -> BOOLEAN]
    <3>1. CASE Parent[o] \in Apis
      BY <2>1, <2>2, <3>1 DEF DtorDone
    <3>2. CASE Parent[o] \notin Apis
      BY <2>2, <3>2 DEF DtorDone, Detach, Lockable
    <3> QED
      BY <3>1, <3>2
  <2>3. ASSUME NEW o \in Apis, Create(o) PROVE selfRef' \in [Apis -> BOOLEAN]
    BY <2>3 DEF Create
  <2>4. ASSUME NEW w \in Workers, RunCleanup(w) PROVE selfRef' \in [Apis -> BOOLEAN]
    BY <2>4 DEF RunCleanup
  <2>5. \/ selfRef' = selfRef
        \/ \E o \in Apis : Create(o) \/ DtorDone(o) \/ Detach(o)
        \/ \E w \in Workers : RunCleanup(w)
    BY DEF Next, vars, counters, Construct, CopyHandle, DropHandle, CallBegin,
       CallEnd, Notify, Disconnected, DisconnectedDangling, DtorRemoveListeners,
       DtorWait, AssignHandle, PopTask, GuardDone, NotificationBegin, NotificationEnd,
       DisconnectedBegin
  <2> QED
    BY <2>1, <2>2, <2>3, <2>4, <2>5
<1>1. ASSUME NEW o \in Apis, Construct(o) PROVE Rest'
  <2>1. counter' \in [Apis -> Int]
    BY <1>a, <1>1 DEF Construct, Attached, Lockable
  <2>2. stage' \in [Apis -> Stages]
    BY <1>a, <1>1 DEF Construct, Stages
  <2> QED
    BY <1>a, <1>1, <2>1, <2>2 DEF Construct, executor, events
<1>2. ASSUME NEW o \in Apis, Create(o) PROVE Rest'
  BY <1>a, <1>2 DEF Create, counters, executor, events, Stages
<1>3. ASSUME NEW o \in Apis, CopyHandle(o) PROVE Rest'
  BY <1>a, <1>3, SMTT(60) DEF CopyHandle, counters, executor, events, Stages, Attached
<1>4. ASSUME NEW o \in Apis, DropHandle(o) PROVE Rest'
  BY <1>a, <1>4, SMTT(60) DEF DropHandle, counters, executor, events, Stages, Detach, Release
<1>5. ASSUME NEW o \in Apis, CallBegin(o) PROVE Rest'
  BY <1>a, <1>5 DEF CallBegin, counters, executor, events, Stages
<1>6. ASSUME NEW o \in Apis, CallEnd(o) PROVE Rest'
  BY <1>a, <1>6, SMTT(60) DEF CallEnd, counters, executor, events, Stages, Release
<1>7. ASSUME NEW o \in Apis, Notify(o) PROVE Rest'
  <2>1. CASE stage[o] \in {"stopping", "asleep"}
    BY <1>a, <1>7, <2>1 DEF Notify, counters, executor
  <2>2. CASE stage[o] \notin {"stopping", "asleep"}
    <3>1. queue' \in Seq(Jobs)
      <4>1. Guard(o) \in Jobs
        BY JobFacts
      <4>2. queue' = Append(queue, Guard(o))
        BY <1>a, <1>7, <2>2 DEF Notify
      <4> QED
        BY <1>a, <4>1, <4>2
    <3>2. dataToProcess' \in [Apis -> Nat]
      BY <1>a, <1>7, <2>2, SMTT(60) DEF Notify
    <3> QED
      BY <1>a, <1>7, <2>2, <3>1, <3>2 DEF Notify, counters
  <2> QED
    BY <2>1, <2>2
<1>8. ASSUME NEW o \in Apis, Disconnected(o) PROVE Rest'
  BY <1>a, <1>8, JobFacts DEF Disconnected, counters, executor, events
<1>9. ASSUME NEW o \in Apis, DisconnectedDangling(o) PROVE Rest'
  BY <1>a, <1>9 DEF DisconnectedDangling, counters, executor, events, Stages
<1>10. ASSUME NEW o \in Apis, DtorRemoveListeners(o) PROVE Rest'
  BY <1>a, <1>10 DEF DtorRemoveListeners, counters, executor, events, Stages
<1>11. ASSUME NEW o \in Apis, DtorWait(o) PROVE Rest'
  BY <1>a, <1>11 DEF DtorWait, counters, executor, events, Stages
<1>12. ASSUME NEW o \in Apis, DtorDone(o) PROVE Rest'
  <2>1. stage' \in [Apis -> Stages]
    BY <1>a, <1>12 DEF DtorDone, Stages
  <2>2. counter' \in [Apis -> Int]
    BY <1>a, <1>12, SMTT(60) DEF DtorDone, Detach, Lockable
  <2>3. worker' \in [Workers -> Jobs]
    BY <1>a, <1>12, JobFacts DEF DtorDone, Lockable
  <2> QED
    BY <1>a, <1>12, <2>1, <2>2, <2>3 DEF DtorDone, events
<1>13. ASSUME NEW o \in Apis, NEW p \in Apis, AssignHandle(o, p) PROVE Rest'
  <2>1. handles' = [x \in Apis |-> IF x = o THEN handles[o] + 1
                                  ELSE IF x = p THEN handles[p] - 1 ELSE handles[x]]
    BY <1>a, <1>13 DEF AssignHandle
  <2>2. handles[o] \in 1 .. MaxHandles - 1 /\ handles[p] > 0
    BY <1>a, <1>13 DEF AssignHandle
  <2>3. handles' \in [Apis -> 0 .. MaxHandles]
    <3>1. handles[o] + 1 \in 0 .. MaxHandles /\ handles[p] - 1 \in 0 .. MaxHandles
      BY <1>a, <2>2, SMTT(60)
    <3> QED
      BY <1>a, <2>1, <3>1
  <2>4. counter' \in [Apis -> Int]
    BY <1>a, <1>13, SMTT(60) DEF AssignHandle, Attached
  <2> QED
    BY <1>a, <1>13, <2>3, <2>4 DEF AssignHandle, executor, events
<1>14. ASSUME NEW w \in Workers, PopTask(w) PROVE Rest'
  BY <1>a, <1>14, JobFacts DEF PopTask, counters, executor, events
<1>15. ASSUME NEW w \in Workers, GuardDone(w) PROVE Rest'
  <2>1. worker[w].obj \in Apis /\ Running(Guard(worker[w].obj))
    BY <1>a, <1>15, JobFacts DEF GuardDone, Running
  <2>2. dataToProcess[worker[w].obj] > 0
    BY <2>1, PendingFacts DEF Counted
  <2>3. dataToProcess' \in [Apis -> Nat] /\ stage' \in [Apis -> Stages]
    BY <1>a, <1>15, <2>1, <2>2 DEF GuardDone, Stages
  <2>4. worker' \in [Workers -> Jobs]
    BY <1>a, <1>15, JobFacts DEF GuardDone
  <2> QED
    BY <1>a, <1>15, <2>3, <2>4 DEF GuardDone, counters, events
<1>16. ASSUME NEW w \in Workers, RunCleanup(w) PROVE Rest'
  BY <1>a, <1>16, JobFacts DEF RunCleanup, counters, executor, events, Stages, Release
<1>17. ASSUME NotificationBegin PROVE Rest'
  BY <1>a, <1>17 DEF NotificationBegin, counters, executor, events, Stages
<1>18. ASSUME NotificationEnd PROVE Rest'
  BY <1>a, <1>18 DEF NotificationEnd, counters, executor, events, Stages
<1>19. ASSUME DisconnectedBegin PROVE Rest'
  BY <1>a, <1>19 DEF DisconnectedBegin, counters, executor, events, Stages
<1>20. ASSUME UNCHANGED vars PROVE Rest'
  BY <1>a, <1>20 DEF vars, counters, executor, events, Stages
<1>c. Rest'
  <2> HIDE DEF Rest
  <2> QED
  BY <1>a, <1>b, <1>1, <1>2, <1>3, <1>4, <1>5, <1>6, <1>7, <1>8, <1>9, <1>10, <1>11,
     <1>12, <1>13, <1>14, <1>15, <1>16, <1>17, <1>18, <1>19, <1>20 DEF Next
<1> QED
  BY <1>b, <1>c DEF TypeOK

(* The destructor leaves the listeners only while no notification is given *)
(* out, and frees the object only when the count is zero; a task that ends *)
(* for an object that sleeps on its last one wakes it.                     *)
LEMMA ListenersStep ==
  ASSUME TypeOK, Counted, Listeners, Sleepers, [Next]_vars
  PROVE  Listeners' /\ Sleepers'
<1> USE ApiAssumption
<1>0. /\ stage \in [Apis -> Stages] /\ dataToProcess \in [Apis -> Nat]
      /\ listening \subseteq Apis /\ worker \in [Workers -> Jobs]
  BY DEF TypeOK
<1> USE <1>0
<1>1. ASSUME NEW o \in Apis, Construct(o) PROVE Listeners' /\ Sleepers'
  BY <1>1 DEF Construct, counters, executor, events, Listeners, Sleepers, Stages
<1>2. ASSUME NEW o \in Apis, Create(o) PROVE Listeners' /\ Sleepers'
  BY <1>2 DEF Create, counters, executor, events, Listeners, Sleepers
<1>3. ASSUME NEW o \in Apis, CopyHandle(o) PROVE Listeners' /\ Sleepers'
  BY <1>3 DEF CopyHandle, counters, executor, events, Listeners, Sleepers
<1>4. ASSUME NEW o \in Apis, DropHandle(o) PROVE Listeners' /\ Sleepers'
  BY <1>4 DEF DropHandle, counters, executor, events, Listeners, Sleepers, Release
<1>5. ASSUME NEW o \in Apis, CallBegin(o) PROVE Listeners' /\ Sleepers'
  BY <1>5 DEF CallBegin, counters, executor, events, Listeners, Sleepers
<1>6. ASSUME NEW o \in Apis, CallEnd(o) PROVE Listeners' /\ Sleepers'
  BY <1>6 DEF CallEnd, counters, executor, events, Listeners, Sleepers, Release
<1>7. ASSUME NEW o \in Apis, Notify(o) PROVE Listeners' /\ Sleepers'
  BY <1>7 DEF Notify, counters, executor, events, Listeners, Sleepers
<1>8. ASSUME NEW o \in Apis, Disconnected(o) PROVE Listeners' /\ Sleepers'
  BY <1>8 DEF Disconnected, counters, executor, events, Listeners, Sleepers
<1>9. ASSUME NEW o \in Apis, DisconnectedDangling(o) PROVE Listeners' /\ Sleepers'
  BY <1>9 DEF DisconnectedDangling, counters, executor, events, Listeners, Sleepers
<1>10. ASSUME NEW o \in Apis, DtorRemoveListeners(o) PROVE Listeners' /\ Sleepers'
  BY <1>10 DEF DtorRemoveListeners, counters, executor, events, Listeners, Sleepers
<1>11. ASSUME NEW o \in Apis, DtorWait(o) PROVE Listeners' /\ Sleepers'
  BY <1>11 DEF DtorWait, counters, executor, events, Listeners, Sleepers
<1>12. ASSUME NEW o \in Apis, DtorDone(o) PROVE Listeners' /\ Sleepers'
  <2>1. \A x \in Apis : stage'[x] = stage[x] \/ (stage[x] = "stopping" /\ stage'[x] = "freed")
                        \/ (stage[x] = "alive" /\ stage'[x] = "dying")
    BY <1>12 DEF DtorDone, Lockable
  <2> QED
    BY <1>12, <2>1 DEF DtorDone, events, Listeners, Sleepers
<1>13. ASSUME NEW o \in Apis, NEW p \in Apis, AssignHandle(o, p)
      PROVE  Listeners' /\ Sleepers'
  BY <1>13 DEF AssignHandle, counters, executor, events, Listeners, Sleepers
<1>14. ASSUME NEW w \in Workers, PopTask(w) PROVE Listeners' /\ Sleepers'
  BY <1>14 DEF PopTask, counters, executor, events, Listeners, Sleepers
<1>15. ASSUME NEW w \in Workers, GuardDone(w) PROVE Listeners' /\ Sleepers'
  <2>1. worker[w].obj \in Apis /\ Running(Guard(worker[w].obj))
    BY <1>15, JobFacts DEF GuardDone, Running
  <2>2. dataToProcess[worker[w].obj] > 0
    BY <2>1, PendingFacts DEF Counted
  <2> QED
    BY <1>15, <2>1, <2>2 DEF GuardDone, counters, executor, events, Listeners, Sleepers
<1>16. ASSUME NEW w \in Workers, RunCleanup(w) PROVE Listeners' /\ Sleepers'
  BY <1>16 DEF RunCleanup, counters, executor, events, Listeners, Sleepers, Release
<1>17. ASSUME NotificationBegin PROVE Listeners' /\ Sleepers'
  BY <1>17 DEF NotificationBegin, counters, executor, events, Listeners, Sleepers
<1>18. ASSUME NotificationEnd PROVE Listeners' /\ Sleepers'
  BY <1>18 DEF NotificationEnd, counters, executor, events, Listeners, Sleepers
<1>19. ASSUME DisconnectedBegin PROVE Listeners' /\ Sleepers'
  BY <1>19 DEF DisconnectedBegin, counters, executor, events, Listeners, Sleepers
<1>20. ASSUME UNCHANGED vars PROVE Listeners' /\ Sleepers'
  BY <1>20 DEF vars, counters, executor, events, Listeners, Sleepers
<1> HIDE DEF Listeners, Sleepers
<1> QED
  BY <1>1, <1>2, <1>3, <1>4, <1>5, <1>6, <1>7, <1>8, <1>9, <1>10, <1>11, <1>12, <1>13,
     <1>14, <1>15, <1>16, <1>17, <1>18, <1>19, <1>20 DEF Next

(* What is queued after a push.                                            *)
LEMMA QueuedAppend ==
  ASSUME queue \in Seq(Jobs), NEW e \in Jobs, NEW task, queue' = Append(queue, e)
  PROVE  Queued(task)' <=> Queued(task) \/ e = task
<1>1. /\ Len(queue) \in Nat /\ DOMAIN queue = 1 .. Len(queue)
      /\ DOMAIN queue' = 1 .. Len(queue) + 1 /\ queue'[Len(queue) + 1] = e
      /\ \A i \in 1 .. Len(queue) : queue'[i] = queue[i]
  OBVIOUS
<1> QED
  BY <1>1 DEF Queued

(* Whoever lets go of an object destroys it only if nothing else holds it, *)
(* so a cleanup never waits for an object that is not alive.               *)
LEMMA KeptStep ==
  ASSUME TypeOK, KeptAlive, [Next]_vars
  PROVE  KeptAlive'
<1> USE ApiAssumption
<1>0. /\ stage \in [Apis -> Stages] /\ selfRef \in [Apis -> BOOLEAN]
      /\ queue \in Seq(Jobs) /\ worker \in [Workers -> Jobs]
  BY DEF TypeOK
<1> USE <1>0
<1>1. ASSUME NEW o \in Apis, Construct(o) PROVE KeptAlive'
  BY <1>1 DEF Construct, counters, executor, events, KeptAlive, Queued, Running
<1>2. ASSUME NEW o \in Apis, Create(o) PROVE KeptAlive'
  BY <1>2 DEF Create, counters, executor, events, KeptAlive, Queued, Running
<1>3. ASSUME NEW o \in Apis, CopyHandle(o) PROVE KeptAlive'
  BY <1>3 DEF CopyHandle, counters, executor, events, KeptAlive, Queued, Running
<1>4. ASSUME NEW o \in Apis, DropHandle(o) PROVE KeptAlive'
  BY <1>4 DEF DropHandle, counters, executor, events, KeptAlive, Queued, Running,
     Release, Detach, Kept
<1>5. ASSUME NEW o \in Apis, CallBegin(o) PROVE KeptAlive'
  BY <1>5 DEF CallBegin, counters, executor, events, KeptAlive, Queued, Running
<1>6. ASSUME NEW o \in Apis, CallEnd(o) PROVE KeptAlive'
  BY <1>6 DEF CallEnd, counters, executor, events, KeptAlive, Queued, Running,
     Release, Kept
<1>7. ASSUME NEW o \in Apis, Notify(o) PROVE KeptAlive'
  <2>1. \A x \in Apis : Queued(Cleanup(x))' => Queued(Cleanup(x))
    <3>1. queue' = queue \/ queue' = Append(queue, Guard(o))
      BY <1>7 DEF Notify, executor
    <3>2. CASE queue' = queue
      BY <3>2 DEF Queued
    <3>3. CASE queue' = Append(queue, Guard(o))
      BY <3>3, JobFacts, QueuedAppend
    <3> QED
      BY <1>7, <3>1, <3>2, <3>3
  <2> QED
    BY <1>7, <2>1 DEF Notify, counters, executor, KeptAlive, Running
<1>8. ASSUME NEW o \in Apis, Disconnected(o) PROVE KeptAlive'
  <2>1. \A x \in Apis : Queued(Cleanup(x))' => Queued(Cleanup(x)) \/ (x = o /\ selfRef[o])
    <3>1. queue' = queue \/ (queue' = Append(queue, Cleanup(o)) /\ selfRef[o])
      BY <1>8 DEF Disconnected
    <3>2. CASE queue' = queue
      BY <3>2 DEF Queued
    <3>3. CASE queue' = Append(queue, Cleanup(o)) /\ selfRef[o]
      BY <3>3, JobFacts, QueuedAppend
    <3> QED
      BY <1>8, <3>1, <3>2, <3>3
  <2> QED
    BY <1>8, <2>1 DEF Disconnected, counters, KeptAlive, Running
<1>9. ASSUME NEW o \in Apis, DisconnectedDangling(o) PROVE KeptAlive'
  BY <1>9 DEF DisconnectedDangling, counters, executor, events, KeptAlive, Queued,
     Running
<1>10. ASSUME NEW o \in Apis, DtorRemoveListeners(o) PROVE KeptAlive'
  BY <1>10 DEF DtorRemoveListeners, counters, executor, events, KeptAlive, Queued,
     Running
<1>11. ASSUME NEW o \in Apis, DtorWait(o) PROVE KeptAlive'
  BY <1>11 DEF DtorWait, counters, executor, events, KeptAlive, Queued, Running
<1>12. ASSUME NEW o \in Apis, DtorDone(o) PROVE KeptAlive'
  <2>1. \A x \in Apis : Running(Cleanup(x))' <=> Running(Cleanup(x))
    BY <1>12, JobFacts DEF DtorDone, Running
  <2>2. \A x \in Apis : Queued(Cleanup(x))' <=> Queued(Cleanup(x))
    BY <1>12 DEF DtorDone, Queued
  <2>3. \A x \in Apis : selfRef'[x] => selfRef[x]
    BY <1>12 DEF DtorDone, Detach, Lockable
  <2>4. ASSUME NEW x \in Apis, stage'[x] # "alive", stage[x] = "alive"
        PROVE  ~selfRef'[x] /\ ~Queued(Cleanup(x)) /\ ~Running(Cleanup(x))
    BY <1>12, <2>4 DEF DtorDone, Detach, Lockable
  <2> QED
    BY <2>1, <2>2, <2>3, <2>4 DEF KeptAlive
<1>13. ASSUME NEW o \in Apis, NEW p \in Apis, AssignHandle(o, p) PROVE KeptAlive'
  BY <1>13 DEF AssignHandle, counters, executor, events, KeptAlive, Queued, Running
<1>14. ASSUME NEW w \in Workers, PopTask(w) PROVE KeptAlive'
  BY <1>14 DEF PopTask, counters, executor, events, KeptAlive, Queued, Running
<1>15. ASSUME NEW w \in Workers, GuardDone(w) PROVE KeptAlive'
  <2>1. \A x \in Apis : Running(Cleanup(x))' => Running(Cleanup(x))
    BY <1>15, JobFacts DEF GuardDone, Running
  <2>2. worker[w].obj \in Apis
    BY <1>15, JobFacts DEF GuardDone
  <2>3. \A x \in Apis : stage'[x] # "alive" => stage[x] # "alive"
    BY <1>15, <2>2 DEF GuardDone
  <2> QED
    BY <1>15, <2>1, <2>3 DEF GuardDone, counters, KeptAlive, Queued
<1>16. ASSUME NEW w \in Workers, RunCleanup(w) PROVE KeptAlive'
  <2>1. worker[w].obj \in Apis
    BY <1>16, JobFacts DEF RunCleanup
  <2>2. \A x \in Apis : Running(Cleanup(x))' => Running(Cleanup(x))
    BY <1>16, JobFacts DEF RunCleanup, Running
  <2>3. \A x \in Apis : Queued(Cleanup(x))' <=> Queued(Cleanup(x))
    BY <1>16 DEF RunCleanup, Queued
  <2>4. \A x \in Apis : selfRef'[x] => selfRef[x]
    BY <1>16, <2>1 DEF RunCleanup
  <2>5. ASSUME NEW x \in Apis, stage'[x] # "alive", stage[x] = "alive"
        PROVE  ~selfRef'[x] /\ ~Queued(Cleanup(x))' /\ ~Running(Cleanup(x))'
    BY <1>16, <2>5 DEF RunCleanup, Release, Kept
  <2> QED
    BY <2>2, <2>3, <2>4, <2>5 DEF KeptAlive
<1>17. ASSUME NotificationBegin PROVE KeptAlive'
  BY <1>17 DEF NotificationBegin, counters, executor, events, KeptAlive, Queued, Running
<1>18. ASSUME NotificationEnd PROVE KeptAlive'
  BY <1>18 DEF NotificationEnd, counters, executor, events, KeptAlive, Queued, Running
<1>19. ASSUME DisconnectedBegin PROVE KeptAlive'
  BY <1>19 DEF DisconnectedBegin, counters, executor, events, KeptAlive, Queued, Running
<1>20. ASSUME UNCHANGED vars PROVE KeptAlive'
  BY <1>20 DEF vars, counters, executor, events, KeptAlive, Queued, Running
<1> HIDE DEF KeptAlive
<1> QED
  BY <1>1, <1>2, <1>3, <1>4, <1>5, <1>6, <1>7, <1>8, <1>9, <1>10, <1>11, <1>12, <1>13,
     <1>14, <1>15, <1>16, <1>17, <1>18, <1>19, <1>20 DEF Next

(* Nothing is queued, runs or listens.                                     *)
LEMMA TasksInit ==
  ASSUME Init
  PROVE  TasksInv
<1> USE DEF Init
<1>1. TypeOK
  <2>1. selfRef \in [Apis -> BOOLEAN]
    OBVIOUS
  <2>2. worker \in [Workers -> Jobs]
    BY JobFacts
  <2> QED
    BY <2>1, <2>2, ApiAssumption DEF TypeOK, Stages
<1>2. \A o \in Apis : ~Queued(Guard(o)) /\ ~Running(Guard(o))
                      /\ ~Queued(Cleanup(o)) /\ ~Running(Cleanup(o))
  BY JobFacts DEF Queued, Running
<1>3. Counted
  <2> SUFFICES ASSUME NEW o \in Apis PROVE dataToProcess[o] = Pending(o)
    BY DEF Counted
  <2>1. Pending(o) \in Nat /\ ~(Pending(o) > 0)
    BY <1>1, <1>2, PendingFacts
  <2> QED
    BY <2>1
<1> QED
  BY <1>1, <1>2, <1>3 DEF TasksInv, Listeners, Sleepers, KeptAlive

(* Every step keeps TasksInv.                                              *)
LEMMA TasksStep ==
  ASSUME TasksInv, [Next]_vars
  PROVE  TasksInv'
  BY TypeStep, CountedStep, ListenersStep, KeptStep DEF TasksInv

(* TasksInv is an invariant of the life of API objects.                    *)
THEOREM TasksAlways == Spec => []TasksInv
<1>1. Init => TasksInv
  BY TasksInit
<1>2. TasksInv /\ [Next]_vars => TasksInv'
  BY TasksStep
<1> QED
  BY <1>1, <1>2, PTL DEF Spec

(* No notification is queued for, processed for or about to be given to an *)
(* object whose memory is gone, whatever the interleaving of the event     *)
(* thread, the Executor's threads and the destructors.                     *)
THEOREM NotifiedAliveAlways == Spec => []NotifiedAlive
<1>1. TasksInv => NotifiedAlive
  <2> SUFFICES ASSUME TasksInv, NEW o \in Apis, stage[o] = "freed"
               PROVE  ~Queued(Guard(o)) /\ ~Running(Guard(o)) /\ o \notin emitting
    BY DEF NotifiedAlive
  <2> QED
    BY PendingFacts DEF TasksInv, Listeners, Sleepers, Counted
<1> QED
  BY <1>1, TasksAlways, PTL

(* Types, and: of several cleanups of an object only the last destroys it, *)
(* for any number of disconnections.                                       *)
THEOREM LastCleanupAlways == Spec => []LastCleanupInv
<1>1. TasksInv => LastCleanupInv
  BY DEF TasksInv, KeptAlive, LastCleanupInv, OnlyLastCleanupDestroys
<1> QED
  BY <1>1, TasksAlways, PTL

(* A destructor that waits in ~GuardedExecutor has a task of its object    *)
(* still queued or running, whose end wakes it: the wake-up cannot be      *)
(* missed.                                                                 *)
THEOREM DestructorWokenAlways == Spec => []DestructorWoken
<1>1. TasksInv => DestructorWoken
  BY PendingFacts DEF TasksInv, Sleepers, Counted, DestructorWoken
<1> QED
  BY <1>1, TasksAlways, PTL

-----------------------------------------------------------------------------

(* How many objects hold a handle of an object is a natural number.        *)
LEMMA ChildrenFinite ==
  ASSUME NEW o \in Apis
  PROVE  /\ IsFiniteSet(Children(o))
         /\ Cardinality(Children(o)) \in Nat
         /\ Cardinality(Children(o)) = 0 <=> Children(o) = {}
<1>1. IsFiniteSet(Children(o))
  <2>1. Children(o) \in SUBSET Apis
    BY DEF Children
  <2> QED
    BY <2>1, ApiAssumption, FS_Subset
<1> QED
  BY <1>1, FS_CardinalityType, FS_EmptySet

(* An object that neither begins nor ends keeps the handles it holds.      *)
LEMMA ChildrenSame ==
  ASSUME TypeOK,
         \A p \in Apis : stage'[p] \in {"none", "freed"} <=> stage[p] \in {"none", "freed"}
  PROVE  \A o \in Apis : Children(o)' = Children(o)
  BY DEF Children

(* A constructor takes one handle of the parent.                           *)
LEMMA ChildrenConstruct ==
  ASSUME TypeOK, NEW o \in Apis, Construct(o), NEW x \in Apis
  PROVE  /\ x # Parent[o] => Children(x)' = Children(x)
         /\ x = Parent[o] => /\ Cardinality(Children(x)') = Cardinality(Children(x)) + 1
                             /\ Children(x)' # {}
<1>1. stage \in [Apis -> Stages] /\ stage[o] = "none" /\ stage' = [stage EXCEPT ![o] = "creating"]
  BY DEF TypeOK, Construct
<1>2. x # Parent[o] => Children(x)' = Children(x)
  BY <1>1 DEF Children
<1>3. x = Parent[o] => Children(x)' = Children(x) \cup {o} /\ o \notin Children(x)
  BY <1>1 DEF Children
<1> QED
  BY <1>2, <1>3, ChildrenFinite, FS_AddElement

(* The end of a destructor gives it back.                                  *)
LEMMA ChildrenDtorDone ==
  ASSUME TypeOK, NEW o \in Apis, DtorDone(o), NEW x \in Apis
  PROVE  /\ x # Parent[o] => Children(x)' = Children(x)
         /\ x = Parent[o] => /\ Cardinality(Children(x)') = Cardinality(Children(x)) - 1
                             /\ Children(x) # {}
<1>1. /\ stage \in [Apis -> Stages] /\ stage[o] = "stopping" /\ stage'[o] = "freed"
      /\ \A q \in Apis \ {o} : stage'[q] = stage[q] \/ (stage[q] = "alive" /\ stage'[q] = "dying")
  BY DEF TypeOK, DtorDone, Lockable
<1>2. x # Parent[o] => Children(x)' = Children(x)
  BY <1>1 DEF Children
<1>3. x = Parent[o] => Children(x)' = Children(x) \ {o} /\ o \in Children(x)
  BY <1>1 DEF Children
<1> QED
  BY <1>2, <1>3, ChildrenFinite, FS_RemoveElement

(* No other step changes who holds what.                                   *)
LEMMA ChildrenStep ==
  ASSUME TypeOK, [Next]_vars
  PROVE  \/ \A x \in Apis : Children(x)' = Children(x)
         \/ \E o \in Apis : Construct(o) \/ DtorDone(o)
<1> DEFINE Same == \A p \in Apis : stage'[p] \in {"none", "freed"} <=> stage[p] \in {"none", "freed"}
<1>0. stage \in [Apis -> Stages] /\ worker \in [Workers -> Jobs]
  BY DEF TypeOK
<1> USE <1>0
<1>1. ASSUME NEW o \in Apis, Create(o) PROVE Same
  BY <1>1 DEF Create
<1>2. ASSUME NEW o \in Apis, CopyHandle(o) PROVE Same
  BY <1>2 DEF CopyHandle
<1>3. ASSUME NEW o \in Apis, DropHandle(o) PROVE Same
  BY <1>3 DEF DropHandle, Release
<1>4. ASSUME NEW o \in Apis, CallBegin(o) PROVE Same
  BY <1>4 DEF CallBegin
<1>5. ASSUME NEW o \in Apis, CallEnd(o) PROVE Same
  BY <1>5 DEF CallEnd, Release
<1>6. ASSUME NEW o \in Apis, Notify(o) PROVE Same
  BY <1>6 DEF Notify
<1>7. ASSUME NEW o \in Apis, Disconnected(o) PROVE Same
  BY <1>7 DEF Disconnected
<1>8. ASSUME NEW o \in Apis, DisconnectedDangling(o) PROVE Same
  BY <1>8 DEF DisconnectedDangling
<1>9. ASSUME NEW o \in Apis, DtorRemoveListeners(o) PROVE Same
  BY <1>9 DEF DtorRemoveListeners
<1>10. ASSUME NEW o \in Apis, DtorWait(o) PROVE Same
  BY <1>10 DEF DtorWait
<1>11. ASSUME NEW o \in Apis, NEW p \in Apis, AssignHandle(o, p) PROVE Same
  BY <1>11 DEF AssignHandle
<1>12. ASSUME NEW w \in Workers, PopTask(w) PROVE Same
  BY <1>12 DEF PopTask
<1>13. ASSUME NEW w \in Workers, GuardDone(w) PROVE Same
  <2>1. worker[w].obj \in Apis
    BY <1>13, JobFacts DEF GuardDone
  <2> QED
    BY <1>13, <2>1 DEF GuardDone
<1>14. ASSUME NEW w \in Workers, RunCleanup(w) PROVE Same
  BY <1>14 DEF RunCleanup, Release
<1>15. ASSUME NotificationBegin PROVE Same
  BY <1>15 DEF NotificationBegin
<1>16. ASSUME NotificationEnd PROVE Same
  BY <1>16 DEF NotificationEnd
<1>17. ASSUME DisconnectedBegin PROVE Same
  BY <1>17 DEF DisconnectedBegin
<1>18. ASSUME UNCHANGED vars PROVE Same
  BY <1>18 DEF vars
<1>a. Same \/ \E o \in Apis : Construct(o) \/ DtorDone(o)
  <2> HIDE DEF Same
  <2> QED
    BY <1>1, <1>2, <1>3, <1>4, <1>5, <1>6, <1>7, <1>8, <1>9, <1>10, <1>11, <1>12,
       <1>13, <1>14, <1>15, <1>16, <1>17, <1>18 DEF Next
<1> QED
  BY <1>a, ChildrenSame

(* Only a living object is given handles: to take one is to have locked    *)
(* the weak pointer of another.                                            *)
LEMMA FreshStep ==
  ASSUME TasksInv, Fresh, [Next]_vars
  PROVE  Fresh'
<1> USE ApiAssumption
<1>0. /\ stage \in [Apis -> Stages] /\ handles \in [Apis -> 0 .. MaxHandles]
      /\ counter \in [Apis -> Int] /\ worker \in [Workers -> Jobs] /\ TypeOK
  BY DEF TasksInv, TypeOK
<1> USE <1>0
<1>a. CASE \E o \in Apis : Construct(o)
  <2> PICK o \in Apis : Construct(o)
    BY <1>a
  <2>1. \A x \in Apis : x # Parent[o] => Children(x)' = Children(x)
    BY ChildrenConstruct
  <2>2. Parent[o] \in Apis => stage[Parent[o]] = "alive"
    BY DEF Construct, Lockable
  <2>3. \A x \in Apis : x # Parent[o] => counter'[x] = counter[x]
    BY DEF Construct, Attached
  <2> QED
    BY <2>1, <2>2, <2>3 DEF Construct, counters, Fresh
<1>b. CASE \E o \in Apis : DtorDone(o)
  <2> PICK o \in Apis : DtorDone(o)
    BY <1>b
  <2>1. \A x \in Apis : x # Parent[o] => Children(x)' = Children(x)
    BY ChildrenDtorDone
  <2>2. Parent[o] \in Apis => Children(Parent[o]) # {}
    BY ChildrenDtorDone
  <2>3. \A x \in Apis : x # Parent[o] => counter'[x] = counter[x]
    BY DEF DtorDone, Detach
  <2>4. \A x \in Apis : stage'[x] \in {"none", "creating"} => stage[x] \in {"none", "creating"}
    BY DEF DtorDone
  <2>5. handles' = handles
    BY DEF DtorDone
  <2> QED
    BY <2>1, <2>2, <2>3, <2>4, <2>5 DEF Fresh
<1>c. CASE \A x \in Apis : Children(x)' = Children(x)
  <2> USE <1>c
  <2>1. ASSUME NEW o \in Apis, Create(o) PROVE Fresh'
    BY <2>1 DEF Create, counters, executor, events, Fresh
  <2>2. ASSUME NEW o \in Apis, CopyHandle(o) PROVE Fresh'
    BY <2>2 DEF CopyHandle, counters, executor, events, Fresh, Attached
  <2>3. ASSUME NEW o \in Apis, DropHandle(o) PROVE Fresh'
    BY <2>3 DEF DropHandle, counters, executor, events, Fresh, Release, Detach, Lockable
  <2>4. ASSUME NEW o \in Apis, CallBegin(o) PROVE Fresh'
    BY <2>4 DEF CallBegin, counters, executor, events, Fresh
  <2>5. ASSUME NEW o \in Apis, CallEnd(o) PROVE Fresh'
    BY <2>5 DEF CallEnd, counters, executor, events, Fresh, Release
  <2>6. ASSUME NEW o \in Apis, Notify(o) PROVE Fresh'
    BY <2>6 DEF Notify, counters, executor, events, Fresh
  <2>7. ASSUME NEW o \in Apis, Disconnected(o) PROVE Fresh'
    BY <2>7 DEF Disconnected, counters, executor, events, Fresh
  <2>8. ASSUME NEW o \in Apis, DisconnectedDangling(o) PROVE Fresh'
    BY <2>8 DEF DisconnectedDangling, counters, executor, events, Fresh
  <2>9. ASSUME NEW o \in Apis, DtorRemoveListeners(o) PROVE Fresh'
    BY <2>9 DEF DtorRemoveListeners, counters, executor, events, Fresh
  <2>10. ASSUME NEW o \in Apis, DtorWait(o) PROVE Fresh'
    BY <2>10 DEF DtorWait, counters, executor, events, Fresh
  <2>11. ASSUME NEW o \in Apis, NEW p \in Apis, AssignHandle(o, p) PROVE Fresh'
    BY <2>11 DEF AssignHandle, counters, executor, events, Fresh, Attached
  <2>12. ASSUME NEW w \in Workers, PopTask(w) PROVE Fresh'
    BY <2>12 DEF PopTask, counters, executor, events, Fresh
  <2>13. ASSUME NEW w \in Workers, GuardDone(w) PROVE Fresh'
    <3>1. worker[w].obj \in Apis
      BY <2>13, JobFacts DEF GuardDone
    <3> QED
      BY <2>13, <3>1 DEF GuardDone, counters, events, Fresh
  <2>14. ASSUME NEW w \in Workers, RunCleanup(w) PROVE Fresh'
    <3>1. worker[w].obj \in Apis
      BY <2>14, JobFacts DEF RunCleanup
    <3> QED
      BY <2>14, <3>1 DEF RunCleanup, Release, events, Fresh
  <2>15. ASSUME NotificationBegin PROVE Fresh'
    BY <2>15 DEF NotificationBegin, counters, executor, events, Fresh
  <2>16. ASSUME NotificationEnd PROVE Fresh'
    BY <2>16 DEF NotificationEnd, counters, executor, events, Fresh
  <2>17. ASSUME DisconnectedBegin PROVE Fresh'
    BY <2>17 DEF DisconnectedBegin, counters, executor, events, Fresh
  <2>18. ASSUME UNCHANGED vars PROVE Fresh'
    BY <2>18 DEF vars, counters, executor, events, Fresh
  <2> HIDE DEF Fresh
  <2> QED
    BY <1>a, <1>b, <2>1, <2>2, <2>3, <2>4, <2>5, <2>6, <2>7, <2>8, <2>9, <2>10, <2>11,
       <2>12, <2>13, <2>14, <2>15, <2>16, <2>17, <2>18 DEF Next
<1> QED
  BY <1>a, <1>b, <1>c, ChildrenStep

(* _attachObjectCounter follows the handles: a handle that appears         *)
(* attaches itself, one that goes detaches itself, and the one that        *)
(* operator= overwrites makes the counter too high, never too low.         *)
LEMMA CounterStep ==
  ASSUME TasksInv, Fresh, CounterInv, [Next]_vars
  PROVE  CounterInv'
<1> USE ApiAssumption
<1>0. /\ handles \in [Apis -> 0 .. MaxHandles] /\ counter \in [Apis -> Int]
      /\ selfRef \in [Apis -> BOOLEAN] /\ worker \in [Workers -> Jobs] /\ TypeOK
  BY DEF TasksInv, TypeOK
<1>1. \A x \in Apis : Cardinality(Children(x)) \in Nat
  BY ChildrenFinite
<1>2. \A x \in Apis : selfRef[x] => stage[x] = "alive"
  BY DEF TasksInv, KeptAlive
<1> USE <1>0, <1>1, <1>2
<1>a. CASE \E o \in Apis : Construct(o)
  <2> PICK o \in Apis : Construct(o)
    BY <1>a
  <2>1. \A x \in Apis : x # Parent[o] =>
          counter'[x] = counter[x] /\ Cardinality(Children(x)') = Cardinality(Children(x))
    BY ChildrenConstruct DEF Construct, Attached
  <2>2. Parent[o] \in Apis => counter' = [counter EXCEPT ![Parent[o]] = counter[Parent[o]] + 1]
    BY DEF Construct, Attached
  <2>3. \A x \in Apis : x = Parent[o] =>
          Cardinality(Children(x)') = Cardinality(Children(x)) + 1
    BY ChildrenConstruct
  <2>4. handles' = handles /\ selfRef' = selfRef /\ assigned' = assigned
    BY DEF Construct
  <2> QED
    BY <2>1, <2>2, <2>3, <2>4 DEF CounterInv, Holders
<1>b. CASE \E o \in Apis : DtorDone(o)
  <2> PICK o \in Apis : DtorDone(o)
    BY <1>b
  <2>1. \A x \in Apis : x # Parent[o] =>
          /\ counter'[x] = counter[x] /\ selfRef'[x] = selfRef[x]
          /\ Cardinality(Children(x)') = Cardinality(Children(x))
    BY ChildrenDtorDone DEF DtorDone, Detach
  <2>2. \A x \in Apis : x = Parent[o] =>
          Cardinality(Children(x)') = Cardinality(Children(x)) - 1
    BY ChildrenDtorDone
  <2>3. \A x \in Apis : x = Parent[o] /\ selfRef'[x] =>
          selfRef[x] /\ counter[x] # 1 /\ counter'[x] = counter[x] - 1
    BY DEF DtorDone, Detach, Lockable
  <2>4. handles' = handles /\ assigned' = assigned
    BY DEF DtorDone
  <2> QED
    BY <2>1, <2>2, <2>3, <2>4 DEF CounterInv, Holders
<1>c. CASE \A x \in Apis : Children(x)' = Children(x)
  <2>0. \A x \in Apis : Cardinality(Children(x)') = Cardinality(Children(x))
    BY <1>c
  <2> USE <2>0
  <2>1. ASSUME NEW o \in Apis, Create(o) PROVE CounterInv'
    <3>1. Cardinality(Children(o)) = 0 /\ counter[o] = 0
      BY <2>1, ChildrenFinite DEF Create, Fresh
    <3> QED
      BY <2>1, <3>1 DEF Create, CounterInv, Holders
  <2>2. ASSUME NEW o \in Apis, CopyHandle(o) PROVE CounterInv'
    BY <2>2 DEF CopyHandle, counters, executor, events, CounterInv, Holders, Attached,
       Lockable
  <2>3. ASSUME NEW o \in Apis, DropHandle(o) PROVE CounterInv'
    <3>1. \A x \in Apis : x # o => counter'[x] = counter[x] /\ selfRef'[x] = selfRef[x]
      BY <2>3 DEF DropHandle, Detach
    <3>2. selfRef'[o] => selfRef[o] /\ counter[o] # 1 /\ counter'[o] = counter[o] - 1
      BY <2>3 DEF DropHandle, Detach, Lockable
    <3>3. handles' = [handles EXCEPT ![o] = handles[o] - 1] /\ handles[o] > 0 /\ assigned' = assigned
      BY <2>3 DEF DropHandle
    <3> QED
      BY <3>1, <3>2, <3>3 DEF CounterInv, Holders
  <2>4. ASSUME NEW o \in Apis, CallBegin(o) PROVE CounterInv'
    BY <2>4 DEF CallBegin, counters, executor, events, CounterInv, Holders
  <2>5. ASSUME NEW o \in Apis, CallEnd(o) PROVE CounterInv'
    BY <2>5 DEF CallEnd, counters, executor, events, CounterInv, Holders
  <2>6. ASSUME NEW o \in Apis, Notify(o) PROVE CounterInv'
    BY <2>6 DEF Notify, counters, executor, events, CounterInv, Holders
  <2>7. ASSUME NEW o \in Apis, Disconnected(o) PROVE CounterInv'
    BY <2>7 DEF Disconnected, counters, executor, events, CounterInv, Holders
  <2>8. ASSUME NEW o \in Apis, DisconnectedDangling(o) PROVE CounterInv'
    BY <2>8 DEF DisconnectedDangling, counters, executor, events, CounterInv, Holders
  <2>9. ASSUME NEW o \in Apis, DtorRemoveListeners(o) PROVE CounterInv'
    BY <2>9 DEF DtorRemoveListeners, counters, executor, events, CounterInv, Holders
  <2>10. ASSUME NEW o \in Apis, DtorWait(o) PROVE CounterInv'
    BY <2>10 DEF DtorWait, counters, executor, events, CounterInv, Holders
  <2>11. ASSUME NEW o \in Apis, NEW p \in Apis, AssignHandle(o, p) PROVE CounterInv'
    <3>1. /\ handles'[o] = handles[o] + 1 /\ handles'[p] = handles[p] - 1 /\ o # p
          /\ \A x \in Apis \ {o, p} : handles'[x] = handles[x]
      BY <2>11 DEF AssignHandle
    <3>2. /\ \A x \in Apis \ {o} : counter'[x] = counter[x]
          /\ selfRef[o] => counter'[o] = counter[o] + 1
      BY <2>11 DEF AssignHandle, Attached, Lockable
    <3>3. selfRef' = selfRef /\ assigned' = assigned \cup {p}
      BY <2>11 DEF AssignHandle
    <3> QED
      BY <3>1, <3>2, <3>3 DEF CounterInv, Holders
  <2>12. ASSUME NEW w \in Workers, PopTask(w) PROVE CounterInv'
    BY <2>12 DEF PopTask, counters, executor, events, CounterInv, Holders
  <2>13. ASSUME NEW w \in Workers, GuardDone(w) PROVE CounterInv'
    BY <2>13 DEF GuardDone, counters, executor, events, CounterInv, Holders
  <2>14. ASSUME NEW w \in Workers, RunCleanup(w) PROVE CounterInv'
    <3>1. worker[w].obj \in Apis
      BY <2>14, JobFacts DEF RunCleanup
    <3> QED
      BY <2>14, <3>1 DEF RunCleanup, CounterInv, Holders
  <2>15. ASSUME NotificationBegin PROVE CounterInv'
    BY <2>15 DEF NotificationBegin, counters, executor, events, CounterInv, Holders
  <2>16. ASSUME NotificationEnd PROVE CounterInv'
    BY <2>16 DEF NotificationEnd, counters, executor, events, CounterInv, Holders
  <2>17. ASSUME DisconnectedBegin PROVE CounterInv'
    BY <2>17 DEF DisconnectedBegin, counters, executor, events, CounterInv, Holders
  <2>18. ASSUME UNCHANGED vars PROVE CounterInv'
    BY <2>18 DEF vars, counters, executor, events, CounterInv, Holders
  <2> HIDE DEF CounterInv
  <2> QED
    BY <1>a, <1>b, <2>1, <2>2, <2>3, <2>4, <2>5, <2>6, <2>7, <2>8, <2>9, <2>10, <2>11,
       <2>12, <2>13, <2>14, <2>15, <2>16, <2>17, <2>18 DEF Next
<1> QED
  BY <1>a, <1>b, <1>c, ChildrenStep

(* Until the connection is lost only detach() resets _selfRef, and it does *)
(* so when the counter was one, hence with the last handle.                *)
LEMMA ConnectedStep ==
  ASSUME TasksInv, Fresh, CounterInv, Connected, [Next]_vars
  PROVE  Connected'
<1> USE ApiAssumption
<1>0. /\ handles \in [Apis -> 0 .. MaxHandles] /\ counter \in [Apis -> Int]
      /\ selfRef \in [Apis -> BOOLEAN] /\ worker \in [Workers -> Jobs]
      /\ queue \in Seq(Jobs) /\ TypeOK /\ disconnects \in Nat
  BY DEF TasksInv, TypeOK, Connected
<1>d. \/ disconnects' = disconnects /\ told' \subseteq told
      \/ disconnects' = disconnects + 1
  BY DEF Next, vars, events, Construct, Create, CopyHandle, DropHandle, CallBegin,
     CallEnd, Notify, Disconnected, DisconnectedDangling, DtorRemoveListeners,
     DtorWait, DtorDone, AssignHandle, PopTask, GuardDone, RunCleanup,
     NotificationBegin, NotificationEnd, DisconnectedBegin
<1>1. SUFFICES ASSUME disconnects = 0, disconnects' = 0
               PROVE  /\ \A o \in Apis : ~Queued(Cleanup(o))' /\ ~Running(Cleanup(o))'
                      /\ \A o \in Apis : (handles[o] > 0 \/ Children(o) # {} => selfRef[o])'
  BY <1>0, <1>d DEF Connected
<1>2. /\ told = {} /\ \A o \in Apis : ~Queued(Cleanup(o)) /\ ~Running(Cleanup(o))
      /\ \A o \in Apis : handles[o] > 0 \/ Children(o) # {} => selfRef[o]
  BY <1>1 DEF Connected
<1>3. \A o \in Apis : ~Queued(Cleanup(o))' /\ ~Running(Cleanup(o))'
  <2> USE <1>0, <1>2
  <2>1. ASSUME NEW o \in Apis, Construct(o)
        PROVE  \A x \in Apis : ~Queued(Cleanup(x))' /\ ~Running(Cleanup(x))'
    BY <2>1 DEF Construct, executor, Queued, Running
  <2>2. ASSUME NEW o \in Apis, Create(o)
        PROVE  \A x \in Apis : ~Queued(Cleanup(x))' /\ ~Running(Cleanup(x))'
    BY <2>2 DEF Create, executor, Queued, Running
  <2>3. ASSUME NEW o \in Apis, CopyHandle(o)
        PROVE  \A x \in Apis : ~Queued(Cleanup(x))' /\ ~Running(Cleanup(x))'
    BY <2>3 DEF CopyHandle, executor, Queued, Running
  <2>4. ASSUME NEW o \in Apis, DropHandle(o)
        PROVE  \A x \in Apis : ~Queued(Cleanup(x))' /\ ~Running(Cleanup(x))'
    BY <2>4 DEF DropHandle, executor, Queued, Running
  <2>5. ASSUME NEW o \in Apis, CallBegin(o)
        PROVE  \A x \in Apis : ~Queued(Cleanup(x))' /\ ~Running(Cleanup(x))'
    BY <2>5 DEF CallBegin, executor, Queued, Running
  <2>6. ASSUME NEW o \in Apis, CallEnd(o)
        PROVE  \A x \in Apis : ~Queued(Cleanup(x))' /\ ~Running(Cleanup(x))'
    BY <2>6 DEF CallEnd, executor, Queued, Running
  <2>7. ASSUME NEW o \in Apis, Notify(o)
        PROVE  \A x \in Apis : ~Queued(Cleanup(x))' /\ ~Running(Cleanup(x))'
    <3>1. queue' = queue \/ queue' = Append(queue, Guard(o))
      BY <2>7 DEF Notify, executor
    <3>2. worker' = worker
      BY <2>7 DEF Notify, executor
    <3>3. \A x \in Apis : Queued(Cleanup(x))' => Queued(Cleanup(x))
      <4>1. CASE queue' = queue
        BY <4>1 DEF Queued
      <4>2. CASE queue' = Append(queue, Guard(o))
        BY <4>2, JobFacts, QueuedAppend
      <4> QED
        BY <3>1, <4>1, <4>2
    <3> QED
      BY <3>2, <3>3 DEF Running
  <2>8. ASSUME NEW o \in Apis, Disconnected(o)
        PROVE  \A x \in Apis : ~Queued(Cleanup(x))' /\ ~Running(Cleanup(x))'
    BY <2>8 DEF Disconnected
  <2>9. ASSUME NEW o \in Apis, DisconnectedDangling(o)
        PROVE  \A x \in Apis : ~Queued(Cleanup(x))' /\ ~Running(Cleanup(x))'
    BY <2>9 DEF DisconnectedDangling, executor, Queued, Running
  <2>10. ASSUME NEW o \in Apis, DtorRemoveListeners(o)
        PROVE  \A x \in Apis : ~Queued(Cleanup(x))' /\ ~Running(Cleanup(x))'
    BY <2>10 DEF DtorRemoveListeners, executor, Queued, Running
  <2>11. ASSUME NEW o \in Apis, DtorWait(o)
        PROVE  \A x \in Apis : ~Queued(Cleanup(x))' /\ ~Running(Cleanup(x))'
    BY <2>11 DEF DtorWait, executor, Queued, Running
  <2>12. ASSUME NEW o \in Apis, DtorDone(o)
        PROVE  \A x \in Apis : ~Queued(Cleanup(x))' /\ ~Running(Cleanup(x))'
    BY <2>12, JobFacts DEF DtorDone, Queued, Running
  <2>13. ASSUME NEW o \in Apis, NEW p \in Apis, AssignHandle(o, p)
        PROVE  \A x \in Apis : ~Queued(Cleanup(x))' /\ ~Running(Cleanup(x))'
    BY <2>13 DEF AssignHandle, executor, Queued, Running
  <2>14. ASSUME NEW w \in Workers, PopTask(w)
        PROVE  \A x \in Apis : ~Queued(Cleanup(x))' /\ ~Running(Cleanup(x))'
    <3>1. \A i \in DOMAIN Tail(queue) : \E j \in DOMAIN queue : Tail(queue)[i] = queue[j]
      BY <2>14 DEF PopTask
    <3>2. 1 \in DOMAIN queue /\ Head(queue) = queue[1]
      BY <2>14 DEF PopTask
    <3>3. /\ queue' = Tail(queue)
          /\ \A v \in Workers : worker'[v] \in {worker[v], Head(queue)}
      BY <2>14 DEF PopTask
    <3> QED
      BY <3>1, <3>2, <3>3 DEF Queued, Running
  <2>15. ASSUME NEW w \in Workers, GuardDone(w)
        PROVE  \A x \in Apis : ~Queued(Cleanup(x))' /\ ~Running(Cleanup(x))'
    BY <2>15, JobFacts DEF GuardDone, Queued, Running
  <2>16. ASSUME NEW w \in Workers, RunCleanup(w)
        PROVE  \A x \in Apis : ~Queued(Cleanup(x))' /\ ~Running(Cleanup(x))'
    BY <2>16, JobFacts DEF RunCleanup, Running
  <2>17. ASSUME NotificationBegin
        PROVE  \A x \in Apis : ~Queued(Cleanup(x))' /\ ~Running(Cleanup(x))'
    BY <2>17 DEF NotificationBegin, executor, Queued, Running
  <2>18. ASSUME NotificationEnd
        PROVE  \A x \in Apis : ~Queued(Cleanup(x))' /\ ~Running(Cleanup(x))'
    BY <2>18 DEF NotificationEnd, executor, Queued, Running
  <2>19. ASSUME DisconnectedBegin
        PROVE  \A x \in Apis : ~Queued(Cleanup(x))' /\ ~Running(Cleanup(x))'
    BY <2>19 DEF DisconnectedBegin, executor, Queued, Running
  <2>20. ASSUME UNCHANGED vars
        PROVE  \A x \in Apis : ~Queued(Cleanup(x))' /\ ~Running(Cleanup(x))'
    BY <2>20 DEF vars, executor, Queued, Running
  <2> HIDE DEF Queued, Running
  <2> QED
    BY <2>1, <2>2, <2>3, <2>4, <2>5, <2>6, <2>7, <2>8, <2>9, <2>10, <2>11, <2>12,
       <2>13, <2>14, <2>15, <2>16, <2>17, <2>18, <2>19, <2>20 DEF Next
<1>a. CASE \E o \in Apis : Construct(o)
  <2> PICK o \in Apis : Construct(o)
    BY <1>a
  <2>1. \A x \in Apis : x # Parent[o] => Children(x)' = Children(x)
    BY <1>0, ChildrenConstruct
  <2>2. Parent[o] \in Apis => handles[Parent[o]] > 0
    BY DEF Construct
  <2> QED
    BY <1>2, <1>3, <2>1, <2>2 DEF Construct
<1>b. CASE \E o \in Apis : DtorDone(o)
  <2> PICK o \in Apis : DtorDone(o)
    BY <1>b
  <2>1. ASSUME NEW x \in Apis, x # Parent[o], handles[x]' > 0 \/ Children(x)' # {}
        PROVE  selfRef[x]'
    <3>1. Children(x)' = Children(x)
      BY <1>0, <2>1, ChildrenDtorDone
    <3>2. handles' = handles /\ selfRef'[x] = selfRef[x]
      BY <1>0, <2>1 DEF DtorDone, Detach
    <3> QED
      BY <1>2, <2>1, <3>1, <3>2
  <2>2. ASSUME NEW x \in Apis, x = Parent[o], handles[x]' > 0 \/ Children(x)' # {}
        PROVE  selfRef[x]'
    <3>1. /\ Cardinality(Children(x)') = Cardinality(Children(x)) - 1
          /\ Children(x) # {}
      BY <1>0, <2>2, ChildrenDtorDone
    <3>2. selfRef[x] /\ counter[x] >= handles[x] + Cardinality(Children(x))
      BY <1>2, <3>1 DEF CounterInv, Holders
    <3>3. handles' = handles /\ (selfRef'[x] <=> counter[x] # 1)
      BY <1>0, <2>2, <3>2 DEF DtorDone, Detach, Lockable, TasksInv, KeptAlive
    <3>4. Children(x)' # {} => Cardinality(Children(x)') > 0
      <4>1. Children(x)' \in SUBSET Apis
        BY DEF Children
      <4>2. IsFiniteSet(Children(x)')
        BY <4>1, FS_Subset
      <4> QED
        BY <4>2, FS_CardinalityType, FS_EmptySet
    <3>5. Cardinality(Children(x)) \in Nat
      BY ChildrenFinite
    <3>6. handles[x] \in Nat
      BY <1>0
    <3>7. Cardinality(Children(x)) > 0
      BY <3>1, ChildrenFinite
    <3>8. CASE handles[x] > 0
      BY <1>0, <3>2, <3>3, <3>5, <3>6, <3>8, <3>7
    <3>9. CASE Children(x)' # {}
      BY <1>0, <3>1, <3>2, <3>3, <3>4, <3>5, <3>6, <3>9
    <3> QED
      BY <2>2, <3>3, <3>8, <3>9
  <2> QED
    BY <1>3, <2>1, <2>2
<1>c. CASE ~\E o \in Apis : Construct(o) \/ DtorDone(o)
  <2>b. \A x \in Apis : Children(x)' = Children(x)
    BY <1>0, <1>c, ChildrenStep
  <2> DEFINE Keeps == \A x \in Apis : handles'[x] > 0 \/ Children(x) # {} => selfRef'[x]
  <2>0. \A x \in Apis : Cardinality(Children(x)) \in Nat
                        /\ (Cardinality(Children(x)) = 0 <=> Children(x) = {})
    BY ChildrenFinite
  <2> USE <1>0, <1>2
  <2>1. ASSUME NEW o \in Apis, Create(o) PROVE Keeps
    BY <2>1 DEF Create, counters
  <2>2. ASSUME NEW o \in Apis, CopyHandle(o) PROVE Keeps
    BY <2>2 DEF CopyHandle, counters
  <2>3. ASSUME NEW o \in Apis, DropHandle(o) PROVE Keeps
    <3>1. \A x \in Apis : x # o => handles'[x] = handles[x] /\ selfRef'[x] = selfRef[x]
      BY <2>3 DEF DropHandle, Detach
    <3>2. ASSUME handles'[o] > 0 \/ Children(o) # {} PROVE selfRef'[o]
      <4>1. handles'[o] = handles[o] - 1 /\ handles[o] > 0
        BY <2>3 DEF DropHandle
      <4>2. selfRef[o] /\ counter[o] >= handles[o] + Cardinality(Children(o))
        BY <4>1 DEF CounterInv, Holders
      <4>3. counter[o] # 1
        BY <2>0, <3>2, <4>1, <4>2
      <4> QED
        BY <2>3, <4>2, <4>3 DEF DropHandle, Detach
    <3> QED
      BY <3>1, <3>2
  <2>4. ASSUME NEW o \in Apis, CallBegin(o) PROVE Keeps
    BY <2>4 DEF CallBegin, counters
  <2>5. ASSUME NEW o \in Apis, CallEnd(o) PROVE Keeps
    BY <2>5 DEF CallEnd, counters
  <2>6. ASSUME NEW o \in Apis, Notify(o) PROVE Keeps
    BY <2>6 DEF Notify, counters
  <2>7. ASSUME NEW o \in Apis, Disconnected(o) PROVE Keeps
    BY <2>7 DEF Disconnected, counters
  <2>8. ASSUME NEW o \in Apis, DisconnectedDangling(o) PROVE Keeps
    BY <2>8 DEF DisconnectedDangling, counters
  <2>9. ASSUME NEW o \in Apis, DtorRemoveListeners(o) PROVE Keeps
    BY <2>9 DEF DtorRemoveListeners, counters
  <2>10. ASSUME NEW o \in Apis, DtorWait(o) PROVE Keeps
    BY <2>10 DEF DtorWait, counters
  <2>11. ASSUME NEW o \in Apis, NEW p \in Apis, AssignHandle(o, p) PROVE Keeps
    <3>1. \A x \in Apis : handles'[x] > 0 => handles[x] > 0
      BY <2>11, SMTT(60) DEF AssignHandle
    <3> QED
      BY <2>11, <3>1 DEF AssignHandle
  <2>12. ASSUME NEW w \in Workers, PopTask(w) PROVE Keeps
    BY <2>12 DEF PopTask, counters
  <2>13. ASSUME NEW w \in Workers, GuardDone(w) PROVE Keeps
    BY <2>13 DEF GuardDone, counters
  <2>14. ASSUME NEW w \in Workers, RunCleanup(w) PROVE Keeps
    <3>1. \E x \in Apis : Running(Cleanup(x))
      BY <2>14, JobFacts DEF RunCleanup, Running
    <3> QED
      BY <3>1
  <2>15. ASSUME NotificationBegin PROVE Keeps
    BY <2>15 DEF NotificationBegin, counters
  <2>16. ASSUME NotificationEnd PROVE Keeps
    BY <2>16 DEF NotificationEnd, counters
  <2>17. ASSUME DisconnectedBegin PROVE Keeps
    BY <2>17 DEF DisconnectedBegin, counters
  <2>18. ASSUME UNCHANGED vars PROVE Keeps
    BY <2>18 DEF vars, counters
  <2>a. Keeps
    <3> HIDE DEF Keeps
    <3> QED
      BY <1>c, <2>1, <2>2, <2>3, <2>4, <2>5, <2>6, <2>7, <2>8, <2>9, <2>10, <2>11,
         <2>12, <2>13, <2>14, <2>15, <2>16, <2>17, <2>18 DEF Next
  <2> QED
    BY <1>3, <2>a, <2>b
<1> QED
  BY <1>a, <1>b, <1>c

(* HandlesInv is an invariant of the life of API objects.                  *)
THEOREM HandlesAlways == Spec => []HandlesInv
<1>1. Init => HandlesInv
  <2> SUFFICES ASSUME Init PROVE HandlesInv
    OBVIOUS
  <2>1. \A o \in Apis : Children(o) = {}
    BY DEF Init, Children
  <2>2. \A o \in Apis : ~Queued(Cleanup(o)) /\ ~Running(Cleanup(o))
    BY JobFacts DEF Init, Queued, Running
  <2>3. Fresh /\ CounterInv /\ Connected
    BY <2>1, <2>2 DEF Init, Fresh, CounterInv, Connected
  <2> QED
    BY <2>3, TasksInit DEF HandlesInv
<1>2. HandlesInv /\ [Next]_vars => HandlesInv'
  BY TasksStep, FreshStep, CounterStep, ConnectedStep DEF HandlesInv
<1> QED
  BY <1>1, <1>2, PTL DEF Spec

(* Until the connection is lost an object is not destroyed while the       *)
(* application or another object has a handle of it, for any number of     *)
(* handles, copies, assignments and children.                              *)
THEOREM HeldIsAliveAlways == Spec => []HeldIsAlive
<1>1. HandlesInv => HeldIsAlive
  BY DEF HandlesInv, TasksInv, KeptAlive, Connected, HeldIsAlive
<1> QED
  BY <1>1, HandlesAlways, PTL

(* An object whose last handle is gone does not keep itself alive, unless  *)
(* a handle of it was assigned to: operator= is the only leak.             *)
THEOREM ReleasedAlways == Spec => []Released
<1>1. HandlesInv => Released
  <2> SUFFICES ASSUME HandlesInv, NEW o \in Apis \ assigned, handles[o] = 0,
                      Children(o) = {}, selfRef[o]
               PROVE  FALSE
    BY DEF Released
  <2>1. Cardinality(Children(o)) = 0
    BY FS_EmptySet
  <2> QED
    BY <2>1 DEF HandlesInv, CounterInv, Holders
<1> QED
  BY <1>1, HandlesAlways, PTL
=============================================================================
