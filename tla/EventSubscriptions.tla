------------------------- MODULE EventSubscriptions -------------------------
(***************************************************************************)
(* From a notification of the server to an event of the application.  API  *)
(* objects of one connection subscribe to channels: the server hands out   *)
(* subscription ids, which the object's Subscriber keeps in a map and the  *)
(* EventMiddleware in the list of the object's listener, each under its    *)
(* own mutex.  A notification names the subscriptions it is sent for; a    *)
(* listener that has one of them in its list and its map makes a task of   *)
(* the Executor, which puts an event into the application's queue.         *)
(*                                                                         *)
(* WebSocketNotify brings the notifications in order and loses none.  A    *)
(* lost connection destroys the objects: see ApiLifecycle.  A query that   *)
(* is malformed throws before anything happens, and a channel the server   *)
(* refuses gives the application an empty id, which matches nothing; both  *)
(* are left out.                                                           *)
(***************************************************************************)
EXTENDS Integers, Sequences, FiniteSets, Functions

CONSTANTS
  Apis,              (* API objects: each has a type, as containers do.    *)
  Threads,           (* Threads of the application.                        *)
  Queries,           (* Channels, before the type of the API is added.     *)
  Workers,           (* The threads of the Executor.                       *)
  MaxIds, MaxEvents  (* Bounds: subscriptions and notifications.           *)

ASSUME EventsAssumption ==
  MaxIds \in Nat /\ MaxEvents \in Nat /\ IsFiniteSet(Apis)

Ids == 1 .. MaxIds
Events == 1 .. MaxEvents

VARIABLES
  server,      (* The server's subscriptions.                              *)
  sub,         (* What each id was given for: [api, query].                *)
  life,        (* What the application knows of each id (see Lives).       *)
  query,       (* _subscriptionIdToSubscriptionQuery of each object        *)
  list,        (* The ids in _notificationsListeners for each object.      *)
  call,        (* The call each thread is in.                              *)
  wire,        (* Notifications on their way.                              *)
  tasks,       (* _tasksToDo of the Executor                               *)
  worker,      (* The task each thread of it runs.                         *)
  sent,        (* How many notifications there have been.                  *)
  due,         (* The subscriptions each was sent for that the application *)
               (* held at that moment.                                     *)
  emitted,     (* How often the application was given each event.          *)
  failed       (* Events whose task ended with an exception.               *)

subscriptions == <<server, sub, life, query, list, call>>
delivery == <<wire, tasks, worker, sent, due, emitted, failed>>
vars == <<subscriptions, delivery>>

Nothing == [op |-> "none"]
Nobody == [api |-> 0, query |-> 0]

(* unused: not handed out; pending: the answer is on its way or being      *)
(* registered; stray: the answer was lost; active: subscribeFor returned   *)
(* it; leaving: unsubscribeFrom was called; ended: it returned.            *)
Lives == {"unused", "pending", "stray", "active", "leaving", "ended"}

Calls == {Nothing} \cup
  [op : {"subscribe", "unsubscribe"}, step : {"answered", "mapped"}, api : Apis, ids : SUBSET Ids]

Notification == [n : Events, api : Apis, ids : SUBSET Ids]
Task == [n : Events, api : Apis, ids : SUBSET Ids, object : Apis]

Init ==
  /\ server = {}
  /\ sub = [i \in Ids |-> Nobody]
  /\ life = [i \in Ids |-> "unused"]
  /\ query = [o \in Apis |-> {}]
  /\ list = [o \in Apis |-> {}]
  /\ call = [t \in Threads |-> Nothing]
  /\ wire = << >> /\ tasks = << >>
  /\ worker = [w \in Workers |-> Nothing]
  /\ sent = 0
  /\ due = [n \in Events |-> {}]
  /\ emitted = [n \in Events |-> 0]
  /\ failed = {}

-----------------------------------------------------------------------------
(* subscribeFor and unsubscribeFrom of an API object.                      *)

(* A call matters from the moment the server handles its request: an id it *)
(* has never used is handed out for each channel.                          *)
SubscribeFor(t, o, qs) ==
  LET ids == {i \in Ids : life[i] = "unused" /\ Cardinality({j \in 1 .. i : life[j] = "unused"})
                                                 <= Cardinality(qs)}
  IN
  /\ call[t] = Nothing
  /\ qs # {} /\ Cardinality(ids) = Cardinality(qs)
  /\ \E of \in Bijection(ids, qs) :
       sub' = [i \in Ids |-> IF i \in ids THEN [api |-> o, query |-> of[i]] ELSE sub[i]]
  /\ server' = server \cup ids
  /\ life' = [i \in Ids |-> IF i \in ids THEN "pending" ELSE life[i]]
  /\ call' = [call EXCEPT ![t] = [op |-> "subscribe", step |-> "answered", api |-> o, ids |-> ids]]
  /\ UNCHANGED <<query, list, delivery>>

UnsubscribeFrom(t, o, ids) ==
  /\ call[t] = Nothing
  /\ ids # {}
  /\ \A i \in ids : life[i] \in {"active", "leaving"} /\ sub[i].api = o
  /\ server' = server \ ids
  /\ life' = [i \in Ids |-> IF i \in ids THEN "leaving" ELSE life[i]]
  /\ call' = [call EXCEPT ![t] = [op |-> "unsubscribe", step |-> "answered", api |-> o, ids |-> ids]]
  /\ UNCHANGED <<sub, query, list, delivery>>

(* A request the server never sees.                                        *)
UnsubscribeLost(t, o, ids) ==
  /\ call[t] = Nothing
  /\ \A i \in ids : life[i] = "active" /\ sub[i].api = o
  /\ life' = [i \in Ids |-> IF i \in ids THEN "leaving" ELSE life[i]]
  /\ UNCHANGED <<server, sub, query, list, call, delivery>>

(* The answer is lost: the call throws.                                    *)
AnswerLost(t) ==
  /\ call[t] # Nothing /\ call[t].step = "answered"
  /\ life' = [i \in Ids |-> IF i \in call[t].ids /\ life[i] = "pending" THEN "stray" ELSE life[i]]
  /\ call' = [call EXCEPT ![t] = Nothing]
  /\ UNCHANGED <<server, sub, query, list, delivery>>

(* Subscriber, under _map_mutex.                                           *)
UpdateQueries(t) ==
  LET c == call[t] IN
  /\ c # Nothing /\ c.step = "answered"
  /\ query' = [query EXCEPT ![c.api] = IF c.op = "subscribe" THEN @ \cup c.ids ELSE @ \ c.ids]
  /\ call' = [call EXCEPT ![t].step = "mapped"]
  /\ UNCHANGED <<server, sub, life, list, delivery>>

(* Wrong: the new ids replace the others.                                  *)
AddSubscriptionIdsReplace(old, ids) == ids

(* The lists are updated under the mutex of ThreadSaveMap.                 *)
AddSubscriptionIds(old, ids) == old \cup ids

(* Wrong: all ids of the listener are removed.                             *)
RemoveSubscriptionIdsAll(old, ids) == {}

RemoveSubscriptionIds(old, ids) == old \ ids

UpdateList(t) ==
  LET c == call[t] IN
  /\ c # Nothing /\ c.step = "mapped"
  /\ list' = [list EXCEPT ![c.api] = IF c.op = "subscribe" THEN AddSubscriptionIds(@, c.ids)
                                     ELSE RemoveSubscriptionIds(@, c.ids)]
  /\ life' = [i \in Ids |-> IF i \notin c.ids THEN life[i]
                            ELSE IF c.op = "subscribe" THEN "active" ELSE "ended"]
  /\ call' = [call EXCEPT ![t] = Nothing]
  /\ UNCHANGED <<server, sub, query, delivery>>

-----------------------------------------------------------------------------

(* Something happens in a container of type o that some of the queries     *)
(* ask for.  The server names every subscription to these, whatever the    *)
(* type of the API that asked: the client does not rely on its filter.     *)
ServerNotify(o, qs) ==
  LET ids == {i \in server : sub[i].query \in qs} IN
  /\ sent < MaxEvents
  /\ ids # {}
  /\ sent' = sent + 1
  /\ wire' = Append(wire, [n |-> sent', api |-> o, ids |-> ids])
  /\ due' = [due EXCEPT ![sent'] = {i \in ids : life[i] = "active" /\ sub[i].api = o}]
  /\ UNCHANGED <<subscriptions, tasks, worker, emitted, failed>>

(* Wrong: a listener takes every notification.                             *)
AcceptsAll(o, e) == e.ids # {}

(* emitNotificationEvent finds an id in the list, processNotificationEvent *)
(* one in the map.                                                         *)
Accepts(o, e) == e.ids \cap list[o] # {} /\ e.ids \cap query[o] # {}

(* The tasks that come of a notification, one per object that accepts it,  *)
(* in the order of the listeners' map.                                     *)
Accepted(e) ==
  LET objects == {o \in Apis : Accepts(o, e)}
  IN  {s \in [1 .. Cardinality(objects) ->
                [n : {e.n}, api : {e.api}, ids : {e.ids}, object : objects]] :
         \A i, j \in DOMAIN s : s[i].object = s[j].object => i = j}

(* One thread calls all listeners with the mutex of the lists held.  The   *)
(* map is read in between, but only an id that is in a list already can    *)
(* leave it meanwhile: as if all were called at once.                      *)
EmitNotificationEvent ==
  /\ wire # << >>
  /\ \E s \in Accepted(Head(wire)) : tasks' = tasks \o s
  /\ wire' = Tail(wire)
  /\ UNCHANGED <<subscriptions, worker, sent, due, emitted, failed>>

PopTask(w) ==
  /\ worker[w] = Nothing /\ tasks # << >>
  /\ worker' = [worker EXCEPT ![w] = Head(tasks)]
  /\ tasks' = Tail(tasks)
  /\ UNCHANGED <<subscriptions, wire, sent, due, emitted, failed>>

(* Wrong: the type is not looked at.                                       *)
EmitsAnyType(task) == TRUE

(* An API makes events of containers of its own type only.                 *)
Emits(task) == task.object = task.api

(* processNotificationEvent, and emitApiEvent.                             *)
Process(w) ==
  /\ worker[w] # Nothing
  /\ emitted' = IF Emits(worker[w]) THEN [emitted EXCEPT ![worker[w].n] = @ + 1] ELSE emitted
  /\ worker' = [worker EXCEPT ![w] = Nothing]
  /\ UNCHANGED <<subscriptions, wire, tasks, sent, due, failed>>

(* The keys of the container cannot be fetched: GuardedExecutor logs it.   *)
ProcessThrows(w) ==
  /\ worker[w] # Nothing /\ Emits(worker[w])
  /\ failed' = failed \cup {worker[w].n}
  /\ worker' = [worker EXCEPT ![w] = Nothing]
  /\ UNCHANGED <<subscriptions, wire, tasks, sent, due, emitted>>

-----------------------------------------------------------------------------

Next ==
  \/ \E t \in Threads :
       \/ \E o \in Apis, qs \in SUBSET Queries : SubscribeFor(t, o, qs)
       \/ \E o \in Apis, ids \in SUBSET Ids :
            UnsubscribeFrom(t, o, ids) \/ UnsubscribeLost(t, o, ids)
       \/ AnswerLost(t) \/ UpdateQueries(t) \/ UpdateList(t)
  \/ \E o \in Apis, qs \in SUBSET Queries : ServerNotify(o, qs)
  \/ EmitNotificationEvent
  \/ \E w \in Workers : PopTask(w) \/ Process(w) \/ ProcessThrows(w)

Spec == Init /\ [][Next]_vars

(* The thread of the notifications and the Executor's threads go on.       *)
FairSpec ==
  /\ Spec
  /\ WF_vars(EmitNotificationEvent)
  /\ \A w \in Workers : WF_vars(PopTask(w)) /\ WF_vars(Process(w) \/ ProcessThrows(w))

-----------------------------------------------------------------------------

TypeOK ==
  /\ server \subseteq Ids
  /\ sub \in [Ids -> [api : Apis, query : Queries] \cup {Nobody}]
  /\ life \in [Ids -> Lives]
  /\ query \in [Apis -> SUBSET Ids] /\ list \in [Apis -> SUBSET Ids]
  /\ call \in [Threads -> Calls]
  /\ wire \in Seq(Notification) /\ tasks \in Seq(Task)
  /\ worker \in [Workers -> Task \cup {Nothing}]
  /\ sent \in 0 .. MaxEvents
  /\ due \in [Events -> SUBSET Ids]
  /\ emitted \in [Events -> Nat] /\ failed \subseteq Events

(* A subscription the application holds is registered in all three places, *)
(* whatever other calls, failed ones too, did to the other ids of the same *)
(* object meanwhile.                                                       *)
ActiveIsRegistered ==
  \A i \in Ids : life[i] = "active" =>
    i \in server /\ i \in query[sub[i].api] /\ i \in list[sub[i].api]

(* Types, and registered subscriptions.                                    *)
RegisteredInv == TypeOK /\ ActiveIsRegistered

(* The application gets an event once, however many of its subscriptions   *)
(* and of its API objects the notification was sent for.                   *)
AtMostOnce == \A n \in Events : emitted[n] <= 1

(* An API object makes no task of a notification for subscriptions it was  *)
(* never told of (the answer was lost), or after unsubscribeFrom returned; *)
(* only tasks made before still run.                                       *)
NoStrayEvent ==
  [][\A k \in Len(tasks) + 1 .. Len(tasks') :
       \E i \in tasks'[k].ids : /\ sub[i].api = tasks'[k].object
                                /\ life[i] \notin {"stray", "ended"}]_vars

(* An event that a subscription was to bring the application is delivered, *)
(* unless the application unsubscribes meanwhile or the event cannot be    *)
(* decrypted for want of a key.                                            *)
EventDelivered ==
  \A n \in Events :
    due[n] # {} ~> \/ emitted[n] > 0 \/ n \in failed
                   \/ \A i \in due[n] : life[i] # "active"
=============================================================================
