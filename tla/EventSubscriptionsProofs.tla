---------------------- MODULE EventSubscriptionsProofs ----------------------
(***************************************************************************)
(* Proofs about EventSubscriptions, for any finite number of API objects   *)
(* and any number of threads, channels, subscriptions and notifications.   *)
(***************************************************************************)
EXTENDS EventSubscriptions, SequenceTheorems, FiniteSetTheorems, TLAPS

(* An id a call has yet to register was given for the object that called,  *)
(* nobody else knows of it, and the first of the two places may have it.   *)
Subscribing ==
  \A t \in Threads : call[t] # Nothing /\ call[t].op = "subscribe" =>
    \A i \in call[t].ids :
      /\ life[i] = "pending" /\ i \in server /\ sub[i].api = call[t].api
      /\ call[t].step = "mapped" => i \in query[call[t].api]

(* Several calls may end the same subscription, but none that is held.     *)
Unsubscribing ==
  \A t \in Threads : call[t] # Nothing /\ call[t].op = "unsubscribe" =>
    \A i \in call[t].ids : life[i] \in {"leaving", "ended"} /\ sub[i].api = call[t].api

(* No id is in the hands of two subscribing calls.                         *)
Apart ==
  \A t, u \in Threads :
    t # u /\ call[t] # Nothing /\ call[u] # Nothing
    /\ call[t].op = "subscribe" /\ call[u].op = "subscribe" => call[t].ids \cap call[u].ids = {}

(* A list holds ids of its object that are active or on their way out.     *)
Listed ==
  \A o \in Apis : \A i \in list[o] : life[i] \in {"active", "leaving"} /\ sub[i].api = o

(* The inductive invariant behind RegisteredInv and NoStrayEvent.          *)
SubscriptionInv ==
  /\ TypeOK /\ ActiveIsRegistered
  /\ Subscribing /\ Unsubscribing /\ Apart /\ Listed

(* The tasks of which an event can come.                                   *)
Own(task) == task # Nothing /\ task.object = task.api

(* An event has one place: the wire, ...                                   *)
OnWire ==
  \A i \in DOMAIN wire :
    /\ wire[i].n <= sent /\ emitted[wire[i].n] = 0
    /\ \A j \in DOMAIN wire : wire[j].n = wire[i].n => i = j
    /\ \A j \in DOMAIN tasks : tasks[j].n # wire[i].n
    /\ \A w \in Workers : worker[w] # Nothing => worker[w].n # wire[i].n

(* ... a task that waits, ...                                              *)
Waiting ==
  \A i \in DOMAIN tasks :
    /\ tasks[i].n <= sent
    /\ Own(tasks[i]) =>
         /\ emitted[tasks[i].n] = 0
         /\ \A j \in DOMAIN tasks : Own(tasks[j]) /\ tasks[j].n = tasks[i].n => i = j
         /\ \A w \in Workers : Own(worker[w]) => worker[w].n # tasks[i].n

(* ... a task that runs, ...                                               *)
AtWork ==
  \A w \in Workers : worker[w] # Nothing =>
    /\ worker[w].n <= sent
    /\ Own(worker[w]) =>
         /\ emitted[worker[w].n] = 0
         /\ \A v \in Workers : Own(worker[v]) /\ worker[v].n = worker[w].n => v = w

(* ... or the queue of the application.                                    *)
OnceInv ==
  /\ TypeOK /\ OnWire /\ Waiting /\ AtWork /\ AtMostOnce
  /\ \A n \in Events : n > sent => emitted[n] = 0

-----------------------------------------------------------------------------

(* The tasks that come of a notification carry its event, and no object    *)
(* has two of them.                                                        *)
LEMMA AcceptedTasks ==
  ASSUME NEW e \in Notification, NEW s \in Accepted(e)
  PROVE  /\ s \in Seq(Task) /\ DOMAIN s = 1 .. Len(s)
         /\ \A i \in 1 .. Len(s) : s[i] # Nothing /\ s[i].n = e.n /\ s[i].ids = e.ids
                                   /\ s[i].api = e.api /\ Accepts(s[i].object, e)
         /\ \A i, j \in 1 .. Len(s) : s[i].object = s[j].object => i = j
<1> DEFINE objects == {o \in Apis : Accepts(o, e)}
           m == Cardinality(objects)
           Tasks == [n : {e.n}, api : {e.api}, ids : {e.ids}, object : objects]
<1>1. m \in Nat
  <2>1. objects \in SUBSET Apis
    OBVIOUS
  <2>2. IsFiniteSet(objects)
    BY <2>1, EventsAssumption, FS_Subset
  <2> QED
    BY <2>2, FS_CardinalityType
<1>2. s \in [1 .. m -> Tasks] /\ \A i, j \in DOMAIN s : s[i].object = s[j].object => i = j
  BY DEF Accepted
<1>3. \A x \in Tasks : /\ x \in Task /\ x # Nothing /\ x.n = e.n /\ x.ids = e.ids
                       /\ x.api = e.api /\ Accepts(x.object, e)
  BY DEF Task, Notification, Nothing
<1> HIDE DEF m, Tasks
<1>4. s \in Seq(Task) /\ Len(s) = m /\ DOMAIN s = 1 .. m
  BY <1>1, <1>2, <1>3
<1> QED
  BY <1>2, <1>3, <1>4

(* The fields of a call.                                                   *)
LEMMA CallFields ==
  ASSUME NEW c \in Calls, c # Nothing
  PROVE  /\ c.op \in {"subscribe", "unsubscribe"} /\ c.step \in {"answered", "mapped"}
         /\ c.api \in Apis /\ c.ids \in SUBSET Ids
  BY DEF Calls

(* Types of what subscribing and unsubscribing keep.                       *)
LEMMA SubTypeStep ==
  ASSUME TypeOK, [Next]_vars
  PROVE  /\ server' \subseteq Ids
         /\ sub' \in [Ids -> [api : Apis, query : Queries] \cup {Nobody}]
         /\ life' \in [Ids -> Lives]
         /\ query' \in [Apis -> SUBSET Ids] /\ list' \in [Apis -> SUBSET Ids]
         /\ call' \in [Threads -> Calls]
<1> DEFINE S == /\ server \subseteq Ids
                /\ sub \in [Ids -> [api : Apis, query : Queries] \cup {Nobody}]
                /\ life \in [Ids -> Lives]
                /\ query \in [Apis -> SUBSET Ids] /\ list \in [Apis -> SUBSET Ids]
                /\ call \in [Threads -> Calls]
<1> USE EventsAssumption
<1>0. S /\ Nothing \in Calls
  BY DEF TypeOK, Calls
<1> USE <1>0
<1>1. ASSUME NEW t \in Threads, NEW o \in Apis, NEW qs \in SUBSET Queries, SubscribeFor(t, o, qs)
      PROVE  S'
  <2> DEFINE ids == {i \in Ids : life[i] = "unused"
                       /\ Cardinality({j \in 1 .. i : life[j] = "unused"}) <= Cardinality(qs)}
             c == [op |-> "subscribe", step |-> "answered", api |-> o, ids |-> ids]
  <2>1. ids \in SUBSET Ids /\ c \in Calls
    BY DEF Calls
  <2> HIDE DEF ids, c
  <2>2. PICK of \in Bijection(ids, qs) :
          sub' = [i \in Ids |-> IF i \in ids THEN [api |-> o, query |-> of[i]] ELSE sub[i]]
    BY <1>1 DEF SubscribeFor, ids
  <2>3. \A i \in ids : of[i] \in Queries
    BY <2>2 DEF Bijection, Injection
  <2>4. sub' \in [Ids -> [api : Apis, query : Queries] \cup {Nobody}]
    BY <2>2, <2>3
  <2>5. life' = [i \in Ids |-> IF i \in ids THEN "pending" ELSE life[i]]
    BY <1>1 DEF SubscribeFor, ids
  <2>6. /\ server' = server \cup ids /\ call' = [call EXCEPT ![t] = c]
        /\ query' = query /\ list' = list
    BY <1>1 DEF SubscribeFor, ids, c
  <2>7. life' \in [Ids -> Lives]
    BY <2>5 DEF Lives
  <2> QED
    BY <2>1, <2>4, <2>6, <2>7
<1>2. ASSUME NEW t \in Threads, NEW o \in Apis, NEW ids \in SUBSET Ids, UnsubscribeFrom(t, o, ids)
      PROVE  S'
  <2>1. [op |-> "unsubscribe", step |-> "answered", api |-> o, ids |-> ids] \in Calls
    BY DEF Calls
  <2>2. life' \in [Ids -> Lives]
    BY <1>2 DEF UnsubscribeFrom, Lives
  <2>3. call' \in [Threads -> Calls]
    BY <1>2, <2>1 DEF UnsubscribeFrom
  <2> QED
    BY <1>2, <2>2, <2>3 DEF UnsubscribeFrom
<1>3. ASSUME NEW t \in Threads, NEW o \in Apis, NEW ids \in SUBSET Ids, UnsubscribeLost(t, o, ids)
      PROVE  S'
  <2>1. life' \in [Ids -> Lives]
    BY <1>3 DEF UnsubscribeLost, Lives
  <2> QED
    BY <1>3, <2>1 DEF UnsubscribeLost
<1>4. ASSUME NEW t \in Threads, AnswerLost(t) PROVE S'
  <2>1. life' \in [Ids -> Lives]
    BY <1>4 DEF AnswerLost, Lives
  <2> QED
    BY <1>4, <2>1 DEF AnswerLost
<1>5. ASSUME NEW t \in Threads, UpdateQueries(t) PROVE S'
  <2>1. call[t] \in Calls /\ call[t] # Nothing
    BY <1>5 DEF UpdateQueries
  <2>2. [call[t] EXCEPT !.step = "mapped"] \in Calls
    BY <2>1 DEF Calls
  <2>3. call' = [call EXCEPT ![t] = [call[t] EXCEPT !.step = "mapped"]]
    BY <1>5 DEF UpdateQueries
  <2>4. call' \in [Threads -> Calls]
    BY <2>2, <2>3
  <2>5. query' \in [Apis -> SUBSET Ids]
    BY <1>5, <2>1, CallFields DEF UpdateQueries
  <2> QED
    BY <1>5, <2>4, <2>5 DEF UpdateQueries
<1>6. ASSUME NEW t \in Threads, UpdateList(t) PROVE S'
  <2>1. call[t].api \in Apis /\ call[t].ids \in SUBSET Ids
    BY <1>6, CallFields DEF UpdateList
  <2>2. life' \in [Ids -> Lives]
    BY <1>6 DEF UpdateList, Lives
  <2>3. list' \in [Apis -> SUBSET Ids]
    BY <1>6, <2>1 DEF UpdateList, AddSubscriptionIds, RemoveSubscriptionIds
  <2> QED
    BY <1>6, <2>2, <2>3 DEF UpdateList
<1>7. ASSUME NEW o \in Apis, NEW qs \in SUBSET Queries, ServerNotify(o, qs) PROVE S'
  BY <1>7 DEF ServerNotify, subscriptions
<1>8. ASSUME EmitNotificationEvent PROVE S'
  BY <1>8 DEF EmitNotificationEvent, subscriptions
<1>9. ASSUME NEW w \in Workers, PopTask(w) PROVE S'
  BY <1>9 DEF PopTask, subscriptions
<1>10. ASSUME NEW w \in Workers, Process(w) PROVE S'
  BY <1>10 DEF Process, subscriptions
<1>11. ASSUME NEW w \in Workers, ProcessThrows(w) PROVE S'
  BY <1>11 DEF ProcessThrows, subscriptions
<1>12. ASSUME UNCHANGED vars PROVE S'
  BY <1>12 DEF vars, subscriptions
<1>a. S'
  <2> HIDE DEF S
  <2> QED
    BY <1>1, <1>2, <1>3, <1>4, <1>5, <1>6, <1>7, <1>8, <1>9, <1>10, <1>11, <1>12 DEF
       Next
<1> QED
  BY <1>a

(* The fields of notifications and tasks.                                  *)
LEMMA TaskFields ==
  /\ \A e \in Notification : e.n \in Events /\ e.api \in Apis /\ e.ids \in SUBSET Ids
  /\ \A x \in Task : x.n \in Events /\ x # Nothing
  BY DEF Notification, Task, Nothing

(* Types of what the delivery keeps.                                       *)
LEMMA DeliveryTypeStep ==
  ASSUME TypeOK, [Next]_vars
  PROVE  /\ wire' \in Seq(Notification) /\ tasks' \in Seq(Task)
         /\ worker' \in [Workers -> Task \cup {Nothing}]
         /\ sent' \in 0 .. MaxEvents
         /\ due' \in [Events -> SUBSET Ids]
         /\ emitted' \in [Events -> Nat] /\ failed' \subseteq Events
<1> DEFINE D == /\ wire \in Seq(Notification) /\ tasks \in Seq(Task)
                /\ worker \in [Workers -> Task \cup {Nothing}]
                /\ sent \in 0 .. MaxEvents
                /\ due \in [Events -> SUBSET Ids]
                /\ emitted \in [Events -> Nat] /\ failed \subseteq Events
<1> USE EventsAssumption
<1>0. D /\ server \subseteq Ids
  BY DEF TypeOK
<1> USE <1>0
<1>1. ASSUME NEW t \in Threads, NEW o \in Apis, NEW qs \in SUBSET Queries, SubscribeFor(t, o, qs)
      PROVE  D'
  BY <1>1 DEF SubscribeFor, delivery
<1>2. ASSUME NEW t \in Threads, NEW o \in Apis, NEW ids \in SUBSET Ids, UnsubscribeFrom(t, o, ids)
      PROVE  D'
  BY <1>2 DEF UnsubscribeFrom, delivery
<1>3. ASSUME NEW t \in Threads, NEW o \in Apis, NEW ids \in SUBSET Ids, UnsubscribeLost(t, o, ids)
      PROVE  D'
  BY <1>3 DEF UnsubscribeLost, delivery
<1>4. ASSUME NEW t \in Threads, AnswerLost(t) PROVE D'
  BY <1>4 DEF AnswerLost, delivery
<1>5. ASSUME NEW t \in Threads, UpdateQueries(t) PROVE D'
  BY <1>5 DEF UpdateQueries, delivery
<1>6. ASSUME NEW t \in Threads, UpdateList(t) PROVE D'
  BY <1>6 DEF UpdateList, delivery
<1>7. ASSUME NEW o \in Apis, NEW qs \in SUBSET Queries, ServerNotify(o, qs) PROVE D'
  <2> DEFINE ids == {i \in server : sub[i].query \in qs}
             e == [n |-> sent', api |-> o, ids |-> ids]
  <2>1. sent' = sent + 1 /\ sent' \in Events
    BY <1>7 DEF ServerNotify, Events
  <2>2. ids \in SUBSET Ids /\ e \in Notification
    BY <2>1 DEF Notification
  <2> HIDE DEF ids, e
  <2>3. wire' = Append(wire, e)
    BY <1>7 DEF ServerNotify, e, ids
  <2>4. due' = [due EXCEPT ![sent'] = {i \in ids : life[i] = "active" /\ sub[i].api = o}]
    BY <1>7 DEF ServerNotify, ids
  <2>5. due' \in [Events -> SUBSET Ids]
    BY <2>1, <2>2, <2>4
  <2>6. wire' \in Seq(Notification)
    BY <2>2, <2>3
  <2>7. sent' \in 0 .. MaxEvents
    BY <2>1 DEF Events
  <2> QED
    BY <1>7, <2>5, <2>6, <2>7 DEF ServerNotify
<1>8. ASSUME EmitNotificationEvent PROVE D'
  <2>1. Head(wire) \in Notification /\ Tail(wire) \in Seq(Notification)
    BY <1>8 DEF EmitNotificationEvent
  <2>2. PICK s \in Accepted(Head(wire)) : tasks' = tasks \o s
    BY <1>8 DEF EmitNotificationEvent
  <2>3. s \in Seq(Task)
    BY <2>1, AcceptedTasks
  <2>4. tasks' \in Seq(Task)
    BY <2>2, <2>3
  <2> QED
    BY <1>8, <2>1, <2>4 DEF EmitNotificationEvent
<1>9. ASSUME NEW w \in Workers, PopTask(w) PROVE D'
  <2>1. Head(tasks) \in Task /\ Tail(tasks) \in Seq(Task)
    BY <1>9 DEF PopTask
  <2> QED
    BY <1>9, <2>1 DEF PopTask
<1>10. ASSUME NEW w \in Workers, Process(w) PROVE D'
  <2>1. worker[w] \in Task /\ worker[w].n \in Events
    BY <1>10, TaskFields DEF Process
  <2>2. emitted' \in [Events -> Nat]
    BY <1>10, <2>1 DEF Process
  <2>3. worker' \in [Workers -> Task \cup {Nothing}]
    BY <1>10 DEF Process
  <2> QED
    BY <1>10, <2>2, <2>3 DEF Process
<1>11. ASSUME NEW w \in Workers, ProcessThrows(w) PROVE D'
  <2>1. worker[w] \in Task /\ worker[w].n \in Events
    BY <1>11, TaskFields DEF ProcessThrows
  <2>2. worker' \in [Workers -> Task \cup {Nothing}]
    BY <1>11 DEF ProcessThrows
  <2> QED
    BY <1>11, <2>1, <2>2 DEF ProcessThrows
<1>12. ASSUME UNCHANGED vars PROVE D'
  BY <1>12 DEF vars, delivery
<1>a. D'
  <2> HIDE DEF D
  <2> QED
    BY <1>1, <1>2, <1>3, <1>4, <1>5, <1>6, <1>7, <1>8, <1>9, <1>10, <1>11, <1>12 DEF
       Next
<1> QED
  BY <1>a

(* All of them.                                                            *)
LEMMA TypeStep ==
  ASSUME TypeOK, [Next]_vars
  PROVE  TypeOK'
  BY SubTypeStep, DeliveryTypeStep DEF TypeOK

(* The two places are updated one after the other and the calls of several *)
(* threads interleave in between; each call only adds ids that the server  *)
(* has just handed out, or takes away ids that no longer are the           *)
(* application's.                                                          *)
LEMMA SubscriptionStep ==
  ASSUME SubscriptionInv, [Next]_vars
  PROVE  SubscriptionInv'
<1> DEFINE R == ActiveIsRegistered /\ Subscribing /\ Unsubscribing /\ Apart /\ Listed
<1> USE EventsAssumption
<1>a. R /\ TypeOK
  BY DEF SubscriptionInv
<1>b. /\ server \subseteq Ids /\ life \in [Ids -> Lives]
      /\ sub \in [Ids -> [api : Apis, query : Queries] \cup {Nobody}]
      /\ query \in [Apis -> SUBSET Ids] /\ list \in [Apis -> SUBSET Ids]
      /\ call \in [Threads -> Calls]
  BY <1>a DEF TypeOK
<1>c. \A t \in Threads : call[t] # Nothing =>
        /\ call[t].op \in {"subscribe", "unsubscribe"} /\ call[t].step \in {"answered", "mapped"}
        /\ call[t].api \in Apis /\ call[t].ids \in SUBSET Ids
  BY <1>b, CallFields
<1> USE <1>a, <1>b, <1>c
<1> USE DEF ActiveIsRegistered, Subscribing, Unsubscribing, Apart, Listed
<1>1. ASSUME NEW t \in Threads, NEW o \in Apis, NEW qs \in SUBSET Queries, SubscribeFor(t, o, qs)
      PROVE  R'
  <2> DEFINE ids == {i \in Ids : life[i] = "unused"
                       /\ Cardinality({j \in 1 .. i : life[j] = "unused"}) <= Cardinality(qs)}
             c == [op |-> "subscribe", step |-> "answered", api |-> o, ids |-> ids]
  <2>1. \A i \in ids : i \in Ids /\ life[i] = "unused"
    OBVIOUS
  <2>2. c # Nothing /\ c.op = "subscribe" /\ c.step = "answered" /\ c.api = o /\ c.ids = ids
    BY DEF Nothing
  <2> HIDE DEF ids, c
  <2>3. /\ \A i \in Ids \ ids : sub'[i] = sub[i]
        /\ \A i \in ids : sub'[i].api = o
    <3>1. PICK of \in Bijection(ids, qs) :
            sub' = [i \in Ids |-> IF i \in ids THEN [api |-> o, query |-> of[i]] ELSE sub[i]]
      BY <1>1 DEF SubscribeFor, ids
    <3> QED
      BY <2>1, <3>1
  <2>4. life' = [i \in Ids |-> IF i \in ids THEN "pending" ELSE life[i]]
    BY <1>1 DEF SubscribeFor, ids
  <2>5. /\ server' = server \cup ids /\ query' = query /\ list' = list
        /\ call'[t] = c /\ \A u \in Threads \ {t} : call'[u] = call[u]
    BY <1>1 DEF SubscribeFor, ids, c
  <2>6. ActiveIsRegistered'
    BY <2>1, <2>3, <2>4, <2>5
  <2>7. Subscribing'
    BY <2>1, <2>2, <2>3, <2>4, <2>5
  <2>8. Unsubscribing'
    BY <2>1, <2>2, <2>3, <2>4, <2>5
  <2>9. Apart'
    BY <2>1, <2>2, <2>5
  <2>10. Listed'
    BY <2>1, <2>3, <2>4, <2>5
  <2> QED
    BY <2>6, <2>7, <2>8, <2>9, <2>10
<1>2. ASSUME NEW t \in Threads, NEW o \in Apis, NEW ids \in SUBSET Ids, UnsubscribeFrom(t, o, ids)
      PROVE  R'
  <2> DEFINE c == [op |-> "unsubscribe", step |-> "answered", api |-> o, ids |-> ids]
  <2>1. c # Nothing /\ c.op = "unsubscribe" /\ c.api = o /\ c.ids = ids
    BY DEF Nothing
  <2> HIDE DEF c
  <2>2. /\ \A i \in ids : life[i] \in {"active", "leaving"} /\ sub[i].api = o
        /\ life' = [i \in Ids |-> IF i \in ids THEN "leaving" ELSE life[i]]
        /\ server' = server \ ids /\ sub' = sub /\ query' = query /\ list' = list
        /\ call'[t] = c /\ \A u \in Threads \ {t} : call'[u] = call[u]
    BY <1>2 DEF UnsubscribeFrom, c
  <2>3. ActiveIsRegistered' /\ Listed'
    BY <2>2
  <2>4. Subscribing' /\ Unsubscribing'
    BY <2>1, <2>2
  <2>5. Apart'
    BY <2>1, <2>2
  <2> QED
    BY <2>3, <2>4, <2>5
<1>3. ASSUME NEW t \in Threads, NEW o \in Apis, NEW ids \in SUBSET Ids, UnsubscribeLost(t, o, ids)
      PROVE  R'
  BY <1>3 DEF UnsubscribeLost, subscriptions
<1>4. ASSUME NEW t \in Threads, AnswerLost(t) PROVE R'
  <2>1. /\ life' = [i \in Ids |-> IF i \in call[t].ids /\ life[i] = "pending"
                                  THEN "stray" ELSE life[i]]
        /\ call'[t] = Nothing /\ \A u \in Threads \ {t} : call'[u] = call[u]
        /\ server' = server /\ sub' = sub /\ query' = query /\ list' = list
        /\ call[t] # Nothing
    BY <1>4 DEF AnswerLost
  <2>2. ActiveIsRegistered' /\ Listed' /\ Unsubscribing'
    BY <2>1
  <2>3. \A i \in call[t].ids : life[i] = "pending" => call[t].op = "subscribe"
    BY <2>1
  <2>4. Subscribing'
    BY <2>1, <2>3
  <2>5. Apart'
    BY <2>1
  <2> QED
    BY <2>2, <2>4, <2>5
<1>5. ASSUME NEW t \in Threads, UpdateQueries(t) PROVE R'
  <2>1. /\ call[t] # Nothing /\ call[t].step = "answered"
        /\ query' = [query EXCEPT ![call[t].api] =
                       IF call[t].op = "subscribe" THEN query[call[t].api] \cup call[t].ids
                       ELSE query[call[t].api] \ call[t].ids]
        /\ \A u \in Threads \ {t} : call'[u] = call[u]
        /\ server' = server /\ sub' = sub /\ life' = life /\ list' = list
    BY <1>5 DEF UpdateQueries
  <2>2. /\ call'[t].op = call[t].op /\ call'[t].api = call[t].api /\ call'[t].ids = call[t].ids
        /\ call'[t].step = "mapped"
    BY <1>5 DEF UpdateQueries, Calls
  <2>3. \A i \in call[t].ids : call[t].op = "unsubscribe" => life[i] \in {"leaving", "ended"}
    BY <2>1
  <2>4. ActiveIsRegistered' /\ Listed'
    BY <2>1, <2>3
  <2>5. Subscribing'
    BY <2>1, <2>2, <2>3
  <2>6. Unsubscribing' /\ Apart'
    BY <2>1, <2>2
  <2> QED
    BY <2>4, <2>5, <2>6
<1>6. ASSUME NEW t \in Threads, UpdateList(t) PROVE R'
  <2>1. /\ call[t] # Nothing /\ call[t].step = "mapped"
        /\ list' = [list EXCEPT ![call[t].api] =
                      IF call[t].op = "subscribe" THEN list[call[t].api] \cup call[t].ids
                      ELSE list[call[t].api] \ call[t].ids]
        /\ life' = [i \in Ids |-> IF i \notin call[t].ids THEN life[i]
                                  ELSE IF call[t].op = "subscribe" THEN "active" ELSE "ended"]
        /\ call'[t] = Nothing /\ \A u \in Threads \ {t} : call'[u] = call[u]
        /\ server' = server /\ sub' = sub /\ query' = query
    BY <1>6 DEF UpdateList, AddSubscriptionIds, RemoveSubscriptionIds
  <2>2. CASE call[t].op = "subscribe"
    <3>1. ActiveIsRegistered' /\ Listed'
      BY <2>1, <2>2
    <3>2. Subscribing'
      BY <2>1, <2>2
    <3>3. Unsubscribing' /\ Apart'
      BY <2>1, <2>2
    <3> QED
      BY <3>1, <3>2, <3>3
  <2>3. CASE call[t].op = "unsubscribe"
    <3>1. ActiveIsRegistered'
      BY <2>1, <2>3
    <3>2. Listed'
      BY <2>1, <2>3
    <3>3. Subscribing' /\ Unsubscribing' /\ Apart'
      BY <2>1, <2>3
    <3> QED
      BY <3>1, <3>2, <3>3
  <2> QED
    BY <2>1, <2>2, <2>3
<1>7. ASSUME NEW o \in Apis, NEW qs \in SUBSET Queries, ServerNotify(o, qs) PROVE R'
  BY <1>7 DEF ServerNotify, subscriptions
<1>8. ASSUME EmitNotificationEvent PROVE R'
  BY <1>8 DEF EmitNotificationEvent, subscriptions
<1>9. ASSUME NEW w \in Workers, PopTask(w) PROVE R'
  BY <1>9 DEF PopTask, subscriptions
<1>10. ASSUME NEW w \in Workers, Process(w) PROVE R'
  BY <1>10 DEF Process, subscriptions
<1>11. ASSUME NEW w \in Workers, ProcessThrows(w) PROVE R'
  BY <1>11 DEF ProcessThrows, subscriptions
<1>12. ASSUME UNCHANGED vars PROVE R'
  BY <1>12 DEF vars, subscriptions
<1> HIDE DEF ActiveIsRegistered, Subscribing, Unsubscribing, Apart, Listed
<1>d. R'
  BY <1>1, <1>2, <1>3, <1>4, <1>5, <1>6, <1>7, <1>8, <1>9, <1>10, <1>11, <1>12 DEF Next
<1> QED
  BY <1>a, <1>d, TypeStep DEF SubscriptionInv

(* The event moves from the wire to the one task of the object of its      *)
(* type, to the thread that runs it and to the application, or is dropped. *)
LEMMA OnceStep ==
  ASSUME OnceInv, [Next]_vars
  PROVE  OnceInv'
<1> DEFINE Unsent == \A n \in Events : n > sent => emitted[n] = 0
           R == OnWire /\ Waiting /\ AtWork /\ AtMostOnce /\ Unsent
<1> USE EventsAssumption
<1>a. OnWire /\ Waiting /\ AtWork /\ AtMostOnce /\ Unsent /\ TypeOK
  BY DEF OnceInv
<1>b. /\ wire \in Seq(Notification) /\ tasks \in Seq(Task)
      /\ worker \in [Workers -> Task \cup {Nothing}]
      /\ sent \in Nat /\ emitted \in [Events -> Nat]
  BY <1>a DEF TypeOK
<1>c. /\ DOMAIN wire = 1 .. Len(wire) /\ Len(wire) \in Nat
      /\ \A i \in DOMAIN wire : wire[i] \in Notification /\ wire[i].n \in Events
  BY <1>b, TaskFields
<1>d. /\ DOMAIN tasks = 1 .. Len(tasks) /\ Len(tasks) \in Nat
      /\ \A i \in DOMAIN tasks : tasks[i] \in Task /\ tasks[i] # Nothing /\ tasks[i].n \in Events
  BY <1>b, TaskFields
<1>e. \A v \in Workers : worker[v] # Nothing => worker[v] \in Task /\ worker[v].n \in Events
  BY <1>b, TaskFields
<1>f. \A n \in Events : n \in Int
  BY DEF Events
<1>g. TypeOK'
  BY <1>a, TypeStep
<1>h. ASSUME NEW w \in Workers, worker'[w] = Nothing,
             \A v \in Workers \ {w} : worker'[v] = worker[v],
             tasks' = tasks, wire' = wire, sent' = sent, emitted' = emitted
      PROVE  R'
  <2>1. ~Own(worker'[w])
    BY <1>h DEF Own
  <2>2. OnWire'
    BY <1>a, <1>h DEF OnWire
  <2>3. Waiting'
    BY <1>a, <1>h, <2>1 DEF Waiting
  <2>4. AtWork'
    BY <1>a, <1>h, <2>1 DEF AtWork
  <2> QED
    BY <1>a, <1>h, <2>2, <2>3, <2>4 DEF AtMostOnce
<1>j. ASSUME UNCHANGED delivery PROVE R'
  BY <1>a, <1>j DEF delivery, OnWire, Waiting, AtWork, AtMostOnce, Own
<1>1. ASSUME NEW t \in Threads, NEW o \in Apis, NEW qs \in SUBSET Queries, SubscribeFor(t, o, qs)
      PROVE  R'
  BY <1>1, <1>j DEF SubscribeFor
<1>2. ASSUME NEW t \in Threads, NEW o \in Apis, NEW ids \in SUBSET Ids, UnsubscribeFrom(t, o, ids)
      PROVE  R'
  BY <1>2, <1>j DEF UnsubscribeFrom
<1>3. ASSUME NEW t \in Threads, NEW o \in Apis, NEW ids \in SUBSET Ids, UnsubscribeLost(t, o, ids)
      PROVE  R'
  BY <1>3, <1>j DEF UnsubscribeLost
<1>4. ASSUME NEW t \in Threads, AnswerLost(t) PROVE R'
  BY <1>4, <1>j DEF AnswerLost
<1>5. ASSUME NEW t \in Threads, UpdateQueries(t) PROVE R'
  BY <1>5, <1>j DEF UpdateQueries
<1>6. ASSUME NEW t \in Threads, UpdateList(t) PROVE R'
  BY <1>6, <1>j DEF UpdateList
<1>7. ASSUME NEW o \in Apis, NEW qs \in SUBSET Queries, ServerNotify(o, qs) PROVE R'
  <2> DEFINE e == [n |-> sent', api |-> o, ids |-> {i \in server : sub[i].query \in qs}]
  <2>1. e.n = sent'
    OBVIOUS
  <2> HIDE DEF e
  <2>2. /\ sent' = sent + 1 /\ sent' \in Events /\ wire' = Append(wire, e)
        /\ tasks' = tasks /\ worker' = worker /\ emitted' = emitted
    BY <1>7, <1>b DEF ServerNotify, Events, e
  <2>3. /\ DOMAIN wire' = 1 .. Len(wire) + 1 /\ wire'[Len(wire) + 1] = e
        /\ \A i \in DOMAIN wire : wire'[i] = wire[i]
    BY <1>b, <1>c, <2>2
  <2>4. \A i \in DOMAIN wire' : i \in DOMAIN wire \/ i = Len(wire) + 1
    BY <1>c, <2>3
  <2>5. /\ \A i \in DOMAIN wire : wire[i].n <= sent' /\ wire[i].n # sent'
        /\ \A i \in DOMAIN tasks : tasks[i].n <= sent' /\ tasks[i].n # sent'
        /\ \A v \in Workers : worker[v] # Nothing => worker[v].n <= sent' /\ worker[v].n # sent'
    BY <1>a, <1>b, <1>c, <1>d, <1>e, <1>f, <2>2 DEF OnWire, Waiting, AtWork
  <2>6. emitted[sent'] = 0 /\ sent' <= sent'
    BY <1>a, <1>b, <2>2
  <2>7. \A i \in DOMAIN wire' :
          /\ wire'[i].n <= sent' /\ emitted[wire'[i].n] = 0
          /\ \A j \in DOMAIN tasks : tasks[j].n # wire'[i].n
          /\ \A v \in Workers : worker[v] # Nothing => worker[v].n # wire'[i].n
    BY <1>a, <2>1, <2>3, <2>4, <2>5, <2>6 DEF OnWire
  <2>8. \A i, j \in DOMAIN wire' : wire'[j].n = wire'[i].n => i = j
    BY <1>a, <2>1, <2>3, <2>4, <2>5 DEF OnWire
  <2>9. OnWire'
    BY <2>2, <2>7, <2>8 DEF OnWire
  <2>10. Waiting' /\ AtWork' /\ AtMostOnce'
    BY <1>a, <2>2, <2>5 DEF Waiting, AtWork, AtMostOnce, Own
  <2>11. Unsent'
    BY <1>a, <1>b, <1>f, <2>2
  <2> QED
    BY <2>9, <2>10, <2>11
<1>8. ASSUME EmitNotificationEvent PROVE R'
  <2> DEFINE e == Head(wire)
  <2>1. wire # << >> /\ wire' = Tail(wire) /\ worker' = worker /\ sent' = sent /\ emitted' = emitted
    BY <1>8 DEF EmitNotificationEvent
  <2>2. PICK s \in Accepted(e) : tasks' = tasks \o s
    BY <1>8 DEF EmitNotificationEvent
  <2>3. /\ e = wire[1] /\ 1 \in DOMAIN wire
        /\ \A i \in DOMAIN wire' :
             i \in Int /\ wire'[i] = wire[i + 1] /\ i + 1 \in DOMAIN wire /\ i + 1 # 1
    BY <1>b, <2>1
  <2>4. e \in Notification /\ e.n \in Events
    BY <1>c, <2>3
  <2> HIDE DEF e
  <2>5. /\ s \in Seq(Task) /\ Len(s) \in Nat
        /\ \A i \in 1 .. Len(s) : s[i] # Nothing /\ s[i].n = e.n /\ s[i].api = e.api
        /\ \A i, j \in 1 .. Len(s) : s[i].object = s[j].object => i = j
    BY <2>4, AcceptedTasks
  <2>6. /\ \A i \in DOMAIN tasks : tasks'[i] = tasks[i]
        /\ \A i \in DOMAIN tasks' \ DOMAIN tasks : i \in Int /\ i - Len(tasks) \in 1 .. Len(s)
                                                   /\ tasks'[i] = s[i - Len(tasks)]
    BY <1>b, <2>2, <2>5
  <2>7. \A i \in DOMAIN tasks' \ DOMAIN tasks : tasks'[i].n = e.n
    BY <2>5, <2>6
  <2>8. \A i, j \in DOMAIN tasks' \ DOMAIN tasks : Own(tasks'[i]) /\ Own(tasks'[j]) => i = j
    <3> SUFFICES ASSUME NEW i \in DOMAIN tasks' \ DOMAIN tasks,
                        NEW j \in DOMAIN tasks' \ DOMAIN tasks, Own(tasks'[i]), Own(tasks'[j])
                 PROVE  i = j
      OBVIOUS
    <3>1. s[i - Len(tasks)].object = s[j - Len(tasks)].object
      BY <2>5, <2>6 DEF Own
    <3>2. i - Len(tasks) = j - Len(tasks)
      BY <2>5, <2>6, <3>1
    <3> QED
      BY <1>d, <2>6, <3>2
  <2>9. /\ e.n <= sent /\ emitted[e.n] = 0
        /\ \A j \in DOMAIN tasks : tasks[j].n # e.n
        /\ \A v \in Workers : worker[v] # Nothing => worker[v].n # e.n
        /\ \A i \in DOMAIN wire' : wire'[i].n # e.n
    BY <1>a, <2>3 DEF OnWire
  <2>10. OnWire'
    <3>1. \A i, j \in DOMAIN wire' : wire'[j].n = wire'[i].n => i = j
      <4> SUFFICES ASSUME NEW i \in DOMAIN wire', NEW j \in DOMAIN wire',
                          wire'[j].n = wire'[i].n
                   PROVE  i = j
        OBVIOUS
      <4>1. i + 1 = j + 1
        BY <1>a, <2>3 DEF OnWire
      <4> QED
        BY <2>3, <4>1
    <3>2. \A i \in DOMAIN wire' :
            /\ wire'[i].n <= sent /\ emitted[wire'[i].n] = 0
            /\ \A j \in DOMAIN tasks : tasks[j].n # wire'[i].n
            /\ \A v \in Workers : worker[v] # Nothing => worker[v].n # wire'[i].n
      BY <1>a, <2>3 DEF OnWire
    <3>3. \A i \in DOMAIN wire' : \A j \in DOMAIN tasks' : tasks'[j].n # wire'[i].n
      BY <2>6, <2>7, <2>9, <3>2
    <3> QED
      BY <2>1, <3>1, <3>2, <3>3 DEF OnWire
  <2>11. Waiting'
    <3>1. ASSUME NEW i \in DOMAIN tasks' PROVE tasks'[i].n <= sent
      BY <1>a, <2>6, <2>7, <2>9, <3>1 DEF Waiting
    <3>2. ASSUME NEW i \in DOMAIN tasks', Own(tasks'[i])
          PROVE  /\ emitted[tasks'[i].n] = 0
                 /\ \A v \in Workers : Own(worker[v]) => worker[v].n # tasks'[i].n
      BY <1>a, <2>6, <2>7, <2>9, <3>2 DEF Waiting, Own
    <3>3. ASSUME NEW i \in DOMAIN tasks', Own(tasks'[i]),
                 NEW j \in DOMAIN tasks', Own(tasks'[j]), tasks'[j].n = tasks'[i].n
          PROVE  i = j
      BY <1>a, <2>6, <2>7, <2>8, <2>9, <3>3 DEF Waiting
    <3> QED
      BY <2>1, <3>1, <3>2, <3>3 DEF Waiting
  <2>12. AtWork' /\ AtMostOnce' /\ Unsent'
    BY <1>a, <2>1 DEF AtWork, AtMostOnce, Own
  <2> QED
    BY <2>10, <2>11, <2>12
<1>9. ASSUME NEW w \in Workers, PopTask(w) PROVE R'
  <2>1. /\ worker[w] = Nothing /\ tasks # << >> /\ tasks' = Tail(tasks) /\ wire' = wire
        /\ worker'[w] = Head(tasks) /\ \A v \in Workers \ {w} : worker'[v] = worker[v]
        /\ sent' = sent /\ emitted' = emitted
    BY <1>9, <1>b DEF PopTask
  <2>2. /\ Head(tasks) = tasks[1] /\ 1 \in DOMAIN tasks
        /\ \A i \in DOMAIN tasks' :
             i \in Int /\ tasks'[i] = tasks[i + 1] /\ i + 1 \in DOMAIN tasks /\ i + 1 # 1
    BY <1>b, <2>1
  <2>3. OnWire'
    BY <1>a, <2>1, <2>2 DEF OnWire
  <2>4. Waiting'
    <3>1. \A i \in DOMAIN tasks' :
            /\ tasks'[i].n <= sent
            /\ Own(tasks'[i]) =>
                 /\ emitted[tasks'[i].n] = 0
                 /\ \A v \in Workers : Own(worker[v]) => worker[v].n # tasks'[i].n
                 /\ Own(tasks[1]) => tasks[1].n # tasks'[i].n
      BY <1>a, <2>2 DEF Waiting
    <3>2. \A i, j \in DOMAIN tasks' :
            Own(tasks'[i]) /\ Own(tasks'[j]) /\ tasks'[j].n = tasks'[i].n => i = j
      <4> SUFFICES ASSUME NEW i \in DOMAIN tasks', NEW j \in DOMAIN tasks',
                          Own(tasks'[i]), Own(tasks'[j]), tasks'[j].n = tasks'[i].n
                   PROVE  i = j
        OBVIOUS
      <4>1. i + 1 = j + 1
        BY <1>a, <2>2 DEF Waiting
      <4> QED
        BY <2>2, <4>1
    <3> QED
      BY <2>1, <2>2, <3>1, <3>2 DEF Waiting
  <2>5. AtWork'
    <3>1. /\ tasks[1].n <= sent
          /\ Own(tasks[1]) => /\ emitted[tasks[1].n] = 0
                              /\ \A v \in Workers : Own(worker[v]) => worker[v].n # tasks[1].n
      BY <1>a, <2>2 DEF Waiting
    <3> QED
      BY <1>a, <2>1, <2>2, <3>1 DEF AtWork
  <2>6. AtMostOnce' /\ Unsent'
    BY <1>a, <2>1 DEF AtMostOnce
  <2> QED
    BY <2>3, <2>4, <2>5, <2>6
<1>10. ASSUME NEW w \in Workers, Process(w) PROVE R'
  <2>1. /\ worker[w] # Nothing /\ tasks' = tasks /\ wire' = wire /\ sent' = sent
        /\ worker'[w] = Nothing /\ \A v \in Workers \ {w} : worker'[v] = worker[v]
    BY <1>10, <1>b DEF Process
  <2>2. ~Own(worker'[w])
    BY <2>1 DEF Own
  <2>3. CASE Own(worker[w])
    <3> DEFINE n == worker[w].n
    <3>1. n \in Events /\ emitted[n] = 0 /\ n <= sent
      BY <1>a, <1>e, <2>1, <2>3 DEF AtWork
    <3>2. emitted'[n] = 1 /\ \A m \in Events \ {n} : emitted'[m] = emitted[m]
      BY <1>10, <1>b, <2>3, <3>1 DEF Process, Emits, Own
    <3> HIDE DEF n
    <3>3. OnWire'
      <4>1. \A i \in DOMAIN wire : wire[i].n # n
        BY <1>a, <2>1 DEF OnWire, n
      <4>2. \A v \in Workers : worker'[v] # Nothing => worker'[v] = worker[v]
        BY <2>1
      <4> QED
        BY <1>a, <1>c, <2>1, <3>2, <4>1, <4>2 DEF OnWire
    <3>4. Waiting'
      <4>1. \A i \in DOMAIN tasks : Own(tasks[i]) => tasks[i].n # n
        BY <1>a, <2>3 DEF Waiting, n
      <4>2. \A v \in Workers : Own(worker'[v]) => worker'[v] = worker[v]
        BY <2>1, <2>2
      <4> QED
        BY <1>a, <1>d, <2>1, <3>2, <4>1, <4>2 DEF Waiting
    <3>5. AtWork'
      <4>1. \A v \in Workers \ {w} : Own(worker[v]) => worker[v].n # n
        BY <1>a, <2>1, <2>3 DEF AtWork, n, Own
      <4> QED
        BY <1>a, <1>e, <2>1, <2>2, <3>2, <4>1 DEF AtWork
    <3>6. AtMostOnce' /\ Unsent'
      BY <1>a, <1>b, <1>f, <2>1, <3>1, <3>2, SMTT(60) DEF AtMostOnce
    <3> QED
      BY <3>3, <3>4, <3>5, <3>6
  <2>4. CASE ~Own(worker[w])
    <3>1. emitted' = emitted
      BY <1>10, <2>1, <2>4 DEF Process, Emits, Own
    <3> QED
      BY <2>1, <2>2, <3>1, <1>h
  <2> QED
    BY <2>3, <2>4
<1>11. ASSUME NEW w \in Workers, ProcessThrows(w) PROVE R'
  <2>1. /\ tasks' = tasks /\ wire' = wire /\ sent' = sent
        /\ worker'[w] = Nothing /\ \A v \in Workers \ {w} : worker'[v] = worker[v]
        /\ emitted' = emitted
    BY <1>11, <1>b DEF ProcessThrows
  <2> QED
    BY <2>1, <1>h
<1>12. ASSUME UNCHANGED vars PROVE R'
  BY <1>12, <1>j DEF vars
<1>i. R'
  <2> HIDE DEF R
  <2> QED
    BY <1>1, <1>2, <1>3, <1>4, <1>5, <1>6, <1>7, <1>8, <1>9, <1>10, <1>11, <1>12 DEF
       Next
<1> QED
  BY <1>g, <1>i DEF OnceInv

-----------------------------------------------------------------------------

(* Types, at the start.                                                    *)
LEMMA TypeInit ==
  ASSUME Init
  PROVE  TypeOK
<1>1. /\ server \subseteq Ids /\ life \in [Ids -> Lives]
      /\ sub \in [Ids -> [api : Apis, query : Queries] \cup {Nobody}]
      /\ query \in [Apis -> SUBSET Ids] /\ list \in [Apis -> SUBSET Ids]
  BY DEF Init, Lives
<1>2. call \in [Threads -> Calls]
  BY DEF Init, Calls
<1>3. /\ wire \in Seq(Notification) /\ tasks \in Seq(Task)
      /\ worker \in [Workers -> Task \cup {Nothing}]
  BY DEF Init
<1>4. /\ sent \in 0 .. MaxEvents /\ due \in [Events -> SUBSET Ids]
      /\ emitted \in [Events -> Nat] /\ failed \subseteq Events
  BY EventsAssumption DEF Init
<1> QED
  BY <1>1, <1>2, <1>3, <1>4 DEF TypeOK

(* SubscriptionInv is an invariant.                                        *)
LEMMA SubscriptionInvAlways == Spec => []SubscriptionInv
<1>1. Init => SubscriptionInv
  <2> SUFFICES ASSUME Init PROVE SubscriptionInv
    OBVIOUS
  <2>1. ActiveIsRegistered /\ Listed
    BY DEF Init, ActiveIsRegistered, Listed
  <2>2. Subscribing /\ Unsubscribing /\ Apart
    BY DEF Init, Subscribing, Unsubscribing, Apart
  <2> QED
    BY <2>1, <2>2, TypeInit DEF SubscriptionInv
<1>2. SubscriptionInv /\ [Next]_vars => SubscriptionInv'
  BY SubscriptionStep
<1> QED
  BY <1>1, <1>2, PTL DEF Spec

(* Types, and: while the application holds a subscription it is registered *)
(* at the server, in the Subscriber's map and in the listener's list, for  *)
(* any number of threads that subscribe and unsubscribe at once and of     *)
(* calls that fail.                                                        *)
THEOREM RegisteredAlways == Spec => []RegisteredInv
<1>1. SubscriptionInv => RegisteredInv
  BY DEF SubscriptionInv, RegisteredInv
<1> QED
  BY <1>1, SubscriptionInvAlways, PTL

(* A new task is made by emitNotificationEvent only, for an id in the list *)
(* of the object, which is active or leaving.                              *)
LEMMA OnlyTold ==
  ASSUME SubscriptionInv, [Next]_vars, NEW k \in Len(tasks) + 1 .. Len(tasks')
  PROVE  \E i \in tasks'[k].ids : /\ sub[i].api = tasks'[k].object
                                  /\ life[i] \notin {"stray", "ended"}
<1>1. wire \in Seq(Notification) /\ tasks \in Seq(Task) /\ Listed
  BY DEF SubscriptionInv, TypeOK
<1>2. CASE EmitNotificationEvent
  <2>1. Head(wire) \in Notification
    BY <1>1, <1>2 DEF EmitNotificationEvent
  <2>2. PICK s \in Accepted(Head(wire)) : tasks' = tasks \o s
    BY <1>2 DEF EmitNotificationEvent
  <2>3. s \in Seq(Task)
    BY <2>1, AcceptedTasks
  <2>4. k - Len(tasks) \in 1 .. Len(s) /\ tasks'[k] = s[k - Len(tasks)]
    BY <1>1, <2>2, <2>3
  <2>5. tasks'[k].ids = Head(wire).ids /\ Accepts(tasks'[k].object, Head(wire))
    BY <2>1, <2>4, AcceptedTasks
  <2>6. tasks'[k].object \in Apis
    <3>1. tasks'[k] \in Task
      BY <2>3, <2>4
    <3> QED
      BY <3>1 DEF Task
  <2> QED
    BY <1>1, <2>5, <2>6 DEF Accepts, Listed
<1>3. CASE tasks' = tasks \/ (tasks # << >> /\ tasks' = Tail(tasks))
  BY <1>1, <1>3
<1>4. EmitNotificationEvent \/ tasks' = tasks \/ (tasks # << >> /\ tasks' = Tail(tasks))
  BY DEF Next, vars, delivery, SubscribeFor, UnsubscribeFrom, UnsubscribeLost,
     AnswerLost, UpdateQueries, UpdateList, ServerNotify, PopTask, Process,
     ProcessThrows
<1> QED
  BY <1>2, <1>3, <1>4

(* No task is made of a notification for subscriptions the object was      *)
(* never told of or after unsubscribeFrom returned.                        *)
THEOREM NoStrayEventAlways == Spec => NoStrayEvent
<1>1. SubscriptionInv /\ [Next]_vars =>
        [\A k \in Len(tasks) + 1 .. Len(tasks') :
           \E i \in tasks'[k].ids : /\ sub[i].api = tasks'[k].object
                                    /\ life[i] \notin {"stray", "ended"}]_vars
  BY OnlyTold
<1> QED
  BY <1>1, SubscriptionInvAlways, PTL DEF Spec, NoStrayEvent

(* The application is given an event at most once, however many            *)
(* subscriptions, of however many objects, it was sent for.                *)
THEOREM AtMostOnceAlways == Spec => []AtMostOnce
<1>1. Init => OnceInv
  BY TypeInit DEF Init, OnceInv, OnWire, Waiting, AtWork, AtMostOnce
<1>2. OnceInv /\ [Next]_vars => OnceInv'
  BY OnceStep
<1>3. OnceInv => AtMostOnce
  BY DEF OnceInv
<1> QED
  BY <1>1, <1>2, <1>3, PTL DEF Spec
=============================================================================
