---------------------------- MODULE ApiLifecycle ----------------------------
(***************************************************************************)
(* The life of API objects (ThreadApiImpl, StoreApiImpl, InboxApiImpl...). *)
(* An application holds handles (ExtendedPointer), weak pointers that      *)
(* count themselves in the object (ManualManagedClass), which keeps itself *)
(* alive by _selfRef.  It is destroyed when the last handle goes, or, when *)
(* the connection is lost, by a cleanup task of the Executor, whose        *)
(* threads also run the notifications of all objects (GuardedExecutor).    *)
(* The destructor waits for the notifications of its object.               *)
(***************************************************************************)
EXTENDS Integers, Sequences, FiniteSets

CONSTANTS
  Apis,              (* The objects.                                       *)
  None,
  Parent,            (* The object of which an object holds a handle, or   *)
                     (* None: InboxApiImpl holds one of ThreadApiImpl.     *)
  Workers,           (* The threads of the Executor.                       *)
  MaxHandles, MaxCalls, MaxNotifications, MaxDisconnects,  (* Bounds.      *)
  MaxAssigned        (* How many objects handles are assigned away from.   *)

ASSUME ApiAssumption ==
  /\ None \notin Apis
  /\ Parent \in [Apis -> Apis \cup {None}]
  /\ \A o \in Apis : Parent[o] # o
  /\ IsFiniteSet(Apis) /\ IsFiniteSet(Workers)
  /\ MaxHandles \in Nat \ {0}
  /\ {MaxCalls, MaxNotifications, MaxDisconnects, MaxAssigned} \subseteq Nat

VARIABLES
  stage,         (* Where an object is in its life.                        *)
  handles,       (* How many handles of it the application holds.          *)
  counter,       (* _attachObjectCounter                                   *)
  selfRef,       (* Whether _selfRef is set.                               *)
  calls,         (* Calls under way, each with the pointer of getImpl().   *)
  listening,     (* The objects registered in the EventMiddleware.         *)
  dataToProcess, (* _dataToProcess of the object's GuardedExecutor         *)
  queue,         (* _tasksToDo of the Executor                             *)
  worker,        (* What the Executor's threads do.                        *)
  emitting,      (* The objects a notification has still to be given to,   *)
                 (* while emitNotificationEvent holds the shared lock.     *)
  locked,        (* Whether it holds that lock.                            *)
  told,          (* The copy of the listeners emitDisconnectedEvent still  *)
                 (* has to call.                                           *)
  dangling,      (* It has called an object that is gone.                  *)
  notifications, disconnects,                 (* How many there have been. *)
  assigned       (* The objects a handle of which was assigned to.         *)

counters == <<handles, counter, selfRef>>
executor == <<dataToProcess, queue, worker>>
events == <<emitting, locked, told, dangling, notifications, disconnects>>
vars == <<stage, counters, calls, listening, executor, events, assigned>>

Guard(o) == [job |-> "guard", obj |-> o]
Cleanup(o) == [job |-> "cleanup", obj |-> o]
Dtor(o) == [job |-> "dtor", obj |-> o]
Idle == [job |-> "idle", obj |-> None]
Jobs == [job : {"guard", "cleanup", "dtor"}, obj : Apis] \cup {Idle}
Stages == {"none", "creating", "alive", "dying", "stopping", "asleep", "freed"}

Queued(task) == \E i \in DOMAIN queue : queue[i] = task
Running(task) == \E w \in Workers : worker[w] = task

(* Mutant of Kept: the cleanup task does not hold the object.              *)
KeptNotByTask(o) == selfRef[o] \/ calls[o] > 0 \/ Running(Cleanup(o))

(* What holds a shared_ptr of the object: itself, a call that has taken    *)
(* one with getImpl(), a cleanup task that waits or runs.                  *)
Kept(o) == selfRef[o] \/ calls[o] > 0 \/ Queued(Cleanup(o)) \/ Running(Cleanup(o))

(* Whoever lets go of the last one runs the destructor, at once.           *)
Release == stage' = [o \in Apis |-> IF stage[o] = "alive" /\ ~Kept(o)'
                                    THEN "dying" ELSE stage[o]]

(* The weak pointer of a handle can be locked.                             *)
Lockable(o) == o \in Apis /\ stage[o] = "alive"

-----------------------------------------------------------------------------

Init ==
  /\ stage = [o \in Apis |-> "none"]
  /\ handles = [o \in Apis |-> 0]
  /\ counter = [o \in Apis |-> 0]
  /\ selfRef = [o \in Apis |-> FALSE]
  /\ calls = [o \in Apis |-> 0]
  /\ listening = {}
  /\ dataToProcess = [o \in Apis |-> 0]
  /\ queue = << >>
  /\ worker = [w \in Workers |-> Idle]
  /\ emitting = {} /\ locked = FALSE /\ told = {} /\ dangling = FALSE
  /\ notifications = 0 /\ disconnects = 0
  /\ assigned = {}

(* attach() and detach(), through a handle.                                *)
Attached(o) == IF Lockable(o) THEN [counter EXCEPT ![o] = @ + 1] ELSE counter

Detach(o) ==
  IF Lockable(o)
  THEN /\ counter' = [counter EXCEPT ![o] = @ - 1]
       /\ selfRef' = [selfRef EXCEPT ![o] = @ /\ counter[o] # 1]
  ELSE UNCHANGED <<counter, selfRef>>

-----------------------------------------------------------------------------
(* The application.                                                        *)

(* The constructor: it copies the handles it needs, then registers.        *)
Construct(o) ==
  /\ stage[o] = "none"
  /\ Parent[o] = None \/ (Lockable(Parent[o]) /\ handles[Parent[o]] > 0)
  /\ ~locked
  /\ stage' = [stage EXCEPT ![o] = "creating"]
  /\ counter' = Attached(Parent[o])
  /\ listening' = listening \cup {o}
  /\ UNCHANGED <<handles, selfRef, calls, executor, events, assigned>>

(* create() attaches the object to itself and returns the first handle.    *)
Create(o) ==
  /\ stage[o] = "creating"
  /\ stage' = [stage EXCEPT ![o] = "alive"]
  /\ counter' = [counter EXCEPT ![o] = @ + 1]
  /\ selfRef' = [selfRef EXCEPT ![o] = TRUE]
  /\ handles' = [handles EXCEPT ![o] = 1]
  /\ UNCHANGED <<calls, listening, executor, events, assigned>>

(* The counter of an object whose handles were assigned to stays too high; *)
(* MaxCounter bounds how often that happens.                               *)
MaxCounter == MaxHandles + 1

(* Mutant of CopyHandle: a copy does not attach itself.                    *)
CopyHandleNoAttach(o) ==
  /\ handles[o] \in 1 .. MaxHandles - 1
  /\ handles' = [handles EXCEPT ![o] = @ + 1]
  /\ UNCHANGED <<stage, counter, selfRef, calls, listening, executor, events, assigned>>

(* A copy, or a move: it leaves the moved-from handle attached.            *)
CopyHandle(o) ==
  /\ handles[o] \in 1 .. MaxHandles - 1 /\ counter[o] < MaxCounter
  /\ handles' = [handles EXCEPT ![o] = @ + 1]
  /\ counter' = Attached(o)
  /\ UNCHANGED <<stage, selfRef, calls, listening, executor, events, assigned>>

(* operator= attaches to the new object and does not detach from the old.  *)
AssignHandle(o, p) ==
  /\ Cardinality(assigned) < MaxAssigned /\ counter[o] < MaxCounter
  /\ o # p /\ handles[o] \in 1 .. MaxHandles - 1 /\ handles[p] > 0
  /\ assigned' = assigned \cup {p}
  /\ handles' = [handles EXCEPT ![o] = @ + 1, ![p] = @ - 1]
  /\ counter' = Attached(o)
  /\ UNCHANGED <<stage, selfRef, calls, listening, executor, events>>

(* Mutant of DropHandle: the destructor of a handle does not detach.       *)
DropHandleNoDetach(o) ==
  /\ handles[o] > 0
  /\ handles' = [handles EXCEPT ![o] = @ - 1]
  /\ UNCHANGED <<stage, counter, selfRef, calls, listening, executor, events, assigned>>

DropHandle(o) ==
  /\ handles[o] > 0
  /\ handles' = [handles EXCEPT ![o] = @ - 1]
  /\ Detach(o)
  /\ UNCHANGED <<calls, listening, executor, events, assigned>>
  /\ Release

(* A call takes a pointer with getImpl(), or ends with NotConnected.       *)
CallBegin(o) ==
  /\ handles[o] > 0 /\ Lockable(o) /\ calls[o] < MaxCalls
  /\ calls' = [calls EXCEPT ![o] = @ + 1]
  /\ UNCHANGED <<stage, counters, listening, executor, events, assigned>>

CallEnd(o) ==
  /\ calls[o] > 0
  /\ calls' = [calls EXCEPT ![o] = @ - 1]
  /\ UNCHANGED <<counters, listening, executor, events, assigned>>
  /\ Release

-----------------------------------------------------------------------------
(* Events.                                                                 *)

NotificationBegin ==
  /\ ~locked /\ notifications < MaxNotifications
  /\ locked' = TRUE
  /\ emitting' = listening
  /\ notifications' = notifications + 1
  /\ UNCHANGED <<stage, counters, calls, listening, executor, told, dangling, disconnects, assigned>>

(* GuardedExecutor::exec, unless it is stopping.                           *)
Notify(o) ==
  /\ locked /\ o \in emitting
  /\ emitting' = emitting \ {o}
  /\ IF stage[o] \in {"stopping", "asleep"}
     THEN UNCHANGED executor
     ELSE /\ dataToProcess' = [dataToProcess EXCEPT ![o] = @ + 1]
          /\ queue' = Append(queue, Guard(o))
          /\ UNCHANGED worker
  /\ UNCHANGED <<stage, counters, calls, listening, locked, told, dangling, notifications,
                 disconnects, assigned>>

NotificationEnd ==
  /\ locked /\ emitting = {}
  /\ locked' = FALSE
  /\ UNCHANGED <<stage, counters, calls, listening, executor, emitting, told,
                 dangling, notifications, disconnects, assigned>>

(* emitDisconnectedEvent copies the listeners, then calls them without a   *)
(* lock.  A callback queues a cleanup if the object still holds itself.    *)
DisconnectedBegin ==
  /\ told = {} /\ disconnects < MaxDisconnects
  /\ told' = listening
  /\ disconnects' = disconnects + 1
  /\ UNCHANGED <<stage, counters, calls, listening, executor, emitting, locked, dangling,
                 notifications, assigned>>

Disconnected(o) ==
  /\ o \in told /\ stage[o] # "freed" /\ ~dangling
  /\ told' = told \ {o}
  /\ queue' = IF selfRef[o] THEN Append(queue, Cleanup(o)) ELSE queue
  /\ UNCHANGED <<stage, counters, calls, listening, dataToProcess, worker, emitting, locked,
                 dangling, notifications, disconnects, assigned>>

(* The callback of an object that is gone is undefined behaviour; the      *)
(* thread stops there.                                                     *)
DisconnectedDangling(o) ==
  /\ o \in told /\ stage[o] = "freed"
  /\ dangling' = TRUE
  /\ UNCHANGED <<stage, counters, calls, listening, executor, emitting, locked, told,
                 notifications, disconnects, assigned>>

-----------------------------------------------------------------------------
(* The threads of the Executor.                                            *)

PopTask(w) ==
  /\ worker[w] = Idle /\ queue # << >>
  /\ worker' = [worker EXCEPT ![w] = Head(queue)]
  /\ queue' = Tail(queue)
  /\ UNCHANGED <<stage, counters, calls, listening, dataToProcess, events, assigned>>

(* Mutant of GuardDone: the waiting destructor is not woken.               *)
GuardDoneSilent(w) ==
  /\ worker[w].job = "guard"
  /\ worker' = [worker EXCEPT ![w] = Idle]
  /\ dataToProcess' = [dataToProcess EXCEPT ![worker[w].obj] = @ - 1]
  /\ UNCHANGED <<stage, counters, calls, listening, queue, events, assigned>>

(* The task has run, or was skipped because its guard is stopping.         *)
GuardDone(w) ==
  LET o == worker[w].obj IN
  /\ worker[w].job = "guard"
  /\ worker' = [worker EXCEPT ![w] = Idle]
  /\ dataToProcess' = [dataToProcess EXCEPT ![o] = @ - 1]
  /\ stage' = [stage EXCEPT ![o] = IF @ = "asleep" /\ dataToProcess[o] = 1 THEN "stopping" ELSE @]
  /\ UNCHANGED <<counters, calls, listening, queue, events, assigned>>

(* The task lets go of the object, then of its own pointer.                *)
RunCleanup(w) ==
  LET o == worker[w].obj IN
  /\ worker[w].job = "cleanup"
  /\ counter' = [counter EXCEPT ![o] = 0]
  /\ selfRef' = [selfRef EXCEPT ![o] = FALSE]
  /\ worker' = [worker EXCEPT ![w] =
                  IF calls[o] > 0 \/ Queued(Cleanup(o))
                     \/ \E v \in Workers \ {w} : worker[v] = Cleanup(o)
                  THEN Idle ELSE Dtor(o)]
  /\ UNCHANGED <<handles, calls, listening, dataToProcess, queue, events, assigned>>
  /\ Release

-----------------------------------------------------------------------------
(* The destructor, on an Executor thread after a cleanup, otherwise on the *)
(* thread of the application that let go of the object.                    *)

DtorRemoveListeners(o) ==
  /\ stage[o] = "dying"
  /\ ~locked
  /\ listening' = listening \ {o}
  /\ stage' = [stage EXCEPT ![o] = "stopping"]
  /\ UNCHANGED <<counters, calls, executor, events, assigned>>

DtorWait(o) ==
  /\ stage[o] = "stopping" /\ dataToProcess[o] > 0
  /\ stage' = [stage EXCEPT ![o] = "asleep"]
  /\ UNCHANGED <<counters, calls, listening, executor, events, assigned>>

(* Mutant of DtorDone: the notifications are not waited for.               *)
DtorDoneAtOnce(o) ==
  /\ stage[o] = "stopping"
  /\ stage' = [stage EXCEPT ![o] = "freed"]
  /\ worker' = [w \in Workers |-> IF worker[w] = Dtor(o) THEN Idle ELSE worker[w]]
  /\ UNCHANGED <<counters, calls, listening, dataToProcess, queue, events, assigned>>

(* The members go: with the handle of the parent, maybe the parent, whose  *)
(* destructor runs on the same thread.                                     *)
DtorDone(o) ==
  LET p == Parent[o]
      last == Lockable(p) /\ selfRef[p] /\ counter[p] = 1
              /\ calls[p] = 0 /\ ~Queued(Cleanup(p)) /\ ~Running(Cleanup(p))
  IN
  /\ stage[o] = "stopping" /\ dataToProcess[o] = 0
  /\ Detach(p)
  /\ stage' = [q \in Apis |-> IF q = o THEN "freed"
                              ELSE IF q = p /\ last THEN "dying" ELSE stage[q]]
  /\ worker' = [w \in Workers |-> IF worker[w] # Dtor(o) THEN worker[w]
                                  ELSE IF last THEN Dtor(p) ELSE Idle]
  /\ UNCHANGED <<handles, calls, listening, dataToProcess, queue, events, assigned>>

-----------------------------------------------------------------------------

Next ==
  \/ \E o \in Apis :
       \/ Construct(o) \/ Create(o) \/ CopyHandle(o) \/ DropHandle(o)
       \/ CallBegin(o) \/ CallEnd(o)
       \/ Notify(o) \/ Disconnected(o) \/ DisconnectedDangling(o)
       \/ DtorRemoveListeners(o) \/ DtorWait(o) \/ DtorDone(o)
  \/ \E o, p \in Apis : AssignHandle(o, p)
  \/ \E w \in Workers : PopTask(w) \/ GuardDone(w) \/ RunCleanup(w)
  \/ NotificationBegin
  \/ NotificationEnd
  \/ DisconnectedBegin

Spec == Init /\ [][Next]_vars

-----------------------------------------------------------------------------

TypeOK ==
  /\ stage \in [Apis -> Stages]
  /\ handles \in [Apis -> 0 .. MaxHandles]
  /\ counter \in [Apis -> Int]
  /\ selfRef \in [Apis -> BOOLEAN]
  /\ calls \in [Apis -> 0 .. MaxCalls]
  /\ listening \subseteq Apis /\ emitting \subseteq Apis /\ told \subseteq Apis
  /\ dataToProcess \in [Apis -> Nat]
  /\ queue \in Seq(Jobs)
  /\ worker \in [Workers -> Jobs]

(* A notification is never processed for, nor given to, an object whose    *)
(* memory is gone: its destructor has left the listeners first and then    *)
(* waited for every task it had accepted.                                  *)
NotifiedAlive ==
  \A o \in Apis : stage[o] = "freed" =>
    ~Queued(Guard(o)) /\ ~Running(Guard(o)) /\ o \notin emitting

(* "If multiple cleanups are stored in queue only last will destroy        *)
(* object": no cleanup of an object is left when its destructor runs.      *)
OnlyLastCleanupDestroys ==
  \A o \in Apis : stage[o] \in {"dying", "stopping", "asleep", "freed"} =>
    ~Queued(Cleanup(o)) /\ ~Running(Cleanup(o))

(* Types, and cleanups in order.                                           *)
LastCleanupInv == TypeOK /\ OnlyLastCleanupDestroys

(* Who holds a handle of the object as a member.                           *)
Children(o) == {p \in Apis : Parent[p] = o /\ stage[p] \notin {"none", "freed"}}

(* Before the connection is lost an object lives as long as a handle of it *)
(* does, the application's or another object's.                            *)
HeldIsAlive ==
  disconnects = 0 =>
    \A o \in Apis : handles[o] > 0 \/ Children(o) # {} =>
      stage[o] \notin {"dying", "stopping", "asleep", "freed"}

(* An object without handles no longer keeps itself: nothing is leaked,    *)
(* unless a handle of it was assigned to.                                  *)
Released ==
  \A o \in Apis \ assigned :
    stage[o] = "alive" /\ handles[o] = 0 /\ Children(o) = {} => ~selfRef[o]

(* A destructor that waits for the notifications of its object is woken:   *)
(* one of them is still queued or running.                                 *)
DestructorWoken ==
  \A o \in Apis : stage[o] = "asleep" => Queued(Guard(o)) \/ Running(Guard(o))
=============================================================================
