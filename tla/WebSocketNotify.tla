-------------------------- MODULE WebSocketNotify --------------------------
(***************************************************************************)
(* Delivery of server notifications (WebSocketNotify): the network thread  *)
(* queues every notification that comes over the WebSocket, a consumer     *)
(* thread takes them from the queue and runs the callback of the channel   *)
(* they are for.  The consumer is started by the first notification and is *)
(* cancelled and joined when the socket closes or the last channel is      *)
(* removed; a later notification starts a new one.                         *)
(*                                                                         *)
(* The threads that call into WebSocketNotify are the network thread and,  *)
(* for each channel, the owner of the channel (an AuthorizedConnection),   *)
(* which adds it once and may remove it once.  What a thread does between  *)
(* two accesses to state another thread can see is one step.               *)
(***************************************************************************)
EXTENDS Naturals, Sequences, FiniteSets

CONSTANTS
  Channels,     (* The ids of WebSocket channels the server assigns.      *)
  Removable,    (* The channels whose owner removes them.                 *)
  MaxMessages,  (* Bound on the notifications the server sends.           *)
  MaxCloses,    (* Bound on how often the WebSocket closes.               *)
  Net, Consumer, None

ASSUME NotifyAssumption ==
  /\ Removable \subseteq Channels
  /\ MaxMessages \in Nat /\ MaxCloses \in Nat
  /\ Net \notin Channels /\ Consumer \notin Channels \cup {Net}
  /\ None \notin Channels \cup {Net, Consumer}

VARIABLES
  pc,            (* Where each calling thread is.                         *)
  registered,    (* The keys of _ws_channel_funcs.                        *)
  message,       (* The notification queueForNotify is handling.          *)
  queue,         (* _notificationsQueue                                   *)
  dataToNotify,  (* _data_to_notify                                       *)
  active,        (* _notifier_active                                      *)
  cancelled,     (* _notifier_cancellation_token->isCancelled()           *)
  notifierMutex, (* The holder of _notifierMutex, or None.                *)
  notifyMutex,   (* The holder of _notifyMutex, or None.                  *)
  consumer,      (* Where the consumer thread is.                         *)
  current,       (* The notification whose callback runs.                 *)
  received, closes,      (* How many messages and closes there were.      *)
  accepted, delivered    (* What was queued, what callbacks were run on.  *)

inputs == <<received, closes>>
consumerVars == <<consumer, current, delivered>>
vars == <<pc, registered, message, queue, dataToNotify, active, cancelled,
          notifierMutex, notifyMutex, consumerVars, inputs, accepted>>

Callers == Channels \cup {Net}
Messages == [channel : Channels, number : 1 .. MaxMessages]

CallerPc == {"idle", "lookup", "push", "flag", "sizeTest", "lock", "cancel",
             "notify", "join", "callbacks", "added", "gone"}
ConsumerPc == {"none", "test", "lock", "eval", "block", "waiting", "woken",
               "drain", "callback", "reset", "exited"}

Goto(t, to) == pc' = [pc EXCEPT ![t] = to]

Init ==
  /\ pc = [t \in Callers |-> "idle"]
  /\ registered = {}
  /\ message = None
  /\ queue = <<>>
  /\ dataToNotify = FALSE
  /\ active = FALSE
  /\ cancelled = FALSE
  /\ notifierMutex = None
  /\ notifyMutex = None
  /\ consumer = "none"
  /\ current = None
  /\ received = 0 /\ closes = 0
  /\ accepted = <<>> /\ delivered = <<>>

-----------------------------------------------------------------------------
(* The owners of channels.                                                 *)

Add(c) ==
  /\ pc[c] = "idle"
  /\ registered' = registered \cup {c}
  /\ Goto(c, "added")
  /\ UNCHANGED <<message, queue, dataToNotify, active, cancelled, notifierMutex,
                 notifyMutex, consumerVars, inputs, accepted>>

(* remove() erases the entry under _mutex and then reads the size of the   *)
(* map without it.  An owner removes only a channel it added.              *)
RemoveErase(c) ==
  /\ c \in Removable
  /\ pc[c] = "added"
  /\ registered' = registered \ {c}
  /\ Goto(c, "sizeTest")
  /\ UNCHANGED <<message, queue, dataToNotify, active, cancelled, notifierMutex,
                 notifyMutex, consumerVars, inputs, accepted>>

(* on_close_all_channels, which the WebSocketChannel sets to its           *)
(* disconnect, makes the driver close the socket at some later time:       *)
(* SocketClose.                                                            *)
RemoveSizeTest(c) ==
  /\ pc[c] = "sizeTest"
  /\ Goto(c, IF registered = {} THEN "lock" ELSE "gone")
  /\ UNCHANGED <<registered, message, queue, dataToNotify, active, cancelled,
                 notifierMutex, notifyMutex, consumerVars, inputs, accepted>>

-----------------------------------------------------------------------------
(* The network thread.                                                     *)

(* queueForNotify, first block: start the consumer if there is none.       *)
QueueStart(c) ==
  /\ pc[Net] = "idle"
  /\ received < MaxMessages
  /\ notifierMutex = None
  /\ received' = received + 1
  /\ message' = [channel |-> c, number |-> received + 1]
  /\ active' = TRUE
  /\ cancelled' = IF active THEN cancelled ELSE FALSE
  /\ consumer' = IF active THEN consumer ELSE "test"
  /\ Goto(Net, "lookup")
  /\ UNCHANGED <<registered, queue, dataToNotify, notifierMutex, notifyMutex,
                 current, delivered, closes, accepted>>

(* The channel is looked up; an unknown id makes queueForNotify throw.     *)
QueueLookup ==
  /\ pc[Net] = "lookup"
  /\ Goto(Net, IF message.channel \in registered THEN "push" ELSE "idle")
  /\ UNCHANGED <<registered, message, queue, dataToNotify, active, cancelled,
                 notifierMutex, notifyMutex, consumerVars, inputs, accepted>>

QueuePush ==
  /\ pc[Net] = "push"
  /\ queue' = Append(queue, message)
  /\ accepted' = Append(accepted, message)
  /\ Goto(Net, "flag")
  /\ UNCHANGED <<registered, message, dataToNotify, active, cancelled,
                 notifierMutex, notifyMutex, consumerVars, inputs>>

(* Mutant of QueueFlag: the flag is set without taking _notifyMutex.       *)
QueueFlagUnlocked ==
  /\ pc[Net] = "flag"
  /\ dataToNotify' = TRUE
  /\ consumer' = IF consumer = "waiting" THEN "woken" ELSE consumer
  /\ Goto(Net, "idle")
  /\ UNCHANGED <<registered, message, queue, active, cancelled, notifierMutex,
                 notifyMutex, current, delivered, inputs, accepted>>

(* The flag is set and the consumer notified under _notifyMutex.           *)
QueueFlag ==
  /\ pc[Net] = "flag"
  /\ notifyMutex = None
  /\ dataToNotify' = TRUE
  /\ consumer' = IF consumer = "waiting" THEN "woken" ELSE consumer
  /\ Goto(Net, "idle")
  /\ UNCHANGED <<registered, message, queue, active, cancelled, notifierMutex,
                 notifyMutex, current, delivered, inputs, accepted>>

(* onWebSocketClose: the notifier is cancelled, then the on-close function *)
(* of every channel registered at that moment is called.                   *)
SocketClose ==
  /\ pc[Net] = "idle"
  /\ closes < MaxCloses
  /\ closes' = closes + 1
  /\ Goto(Net, "lock")
  /\ UNCHANGED <<registered, message, queue, dataToNotify, active, cancelled,
                 notifierMutex, notifyMutex, consumerVars, received, accepted>>

CloseCallbacks ==
  /\ pc[Net] = "callbacks"
  /\ Goto(Net, "idle")
  /\ UNCHANGED <<registered, message, queue, dataToNotify, active, cancelled,
                 notifierMutex, notifyMutex, consumerVars, inputs, accepted>>

-----------------------------------------------------------------------------
(* cancelNotifier, called by the network thread and by owners.             *)

AfterCancel(t) == IF t = Net THEN "callbacks" ELSE "gone"

CancelLock(t) ==
  /\ pc[t] = "lock"
  /\ notifierMutex = None
  /\ IF active
     THEN Goto(t, "cancel") /\ notifierMutex' = t
     ELSE Goto(t, AfterCancel(t)) /\ UNCHANGED notifierMutex
  /\ UNCHANGED <<registered, message, queue, dataToNotify, active, cancelled,
                 notifyMutex, consumerVars, inputs, accepted>>

CancelToken(t) ==
  /\ pc[t] = "cancel"
  /\ cancelled' = TRUE
  /\ Goto(t, "notify")
  /\ UNCHANGED <<registered, message, queue, dataToNotify, active,
                 notifierMutex, notifyMutex, consumerVars, inputs, accepted>>

(* The flag is stored and notify_all called without _notifyMutex.          *)
CancelNotify(t) ==
  /\ pc[t] = "notify"
  /\ dataToNotify' = TRUE
  /\ consumer' = IF consumer = "waiting" THEN "woken" ELSE consumer
  /\ Goto(t, "join")
  /\ UNCHANGED <<registered, message, queue, active, cancelled, notifierMutex,
                 notifyMutex, current, delivered, inputs, accepted>>

(* Mutant of CancelJoin: the consumer is not joined.                       *)
CancelJoinMissing(t) ==
  /\ pc[t] = "join"
  /\ active' = FALSE
  /\ notifierMutex' = None
  /\ Goto(t, AfterCancel(t))
  /\ UNCHANGED <<registered, message, queue, dataToNotify, cancelled,
                 notifyMutex, consumerVars, inputs, accepted>>

CancelJoin(t) ==
  /\ pc[t] = "join"
  /\ consumer = "exited"
  /\ consumer' = "none"
  /\ active' = FALSE
  /\ notifierMutex' = None
  /\ Goto(t, AfterCancel(t))
  /\ UNCHANGED <<registered, message, queue, dataToNotify, cancelled,
                 notifyMutex, current, delivered, inputs, accepted>>

-----------------------------------------------------------------------------
(* The consumer thread: notifier() in a loop until the token is cancelled. *)

callerVars == <<pc, registered, message, active, cancelled, notifierMutex,
                inputs, accepted>>

ConsumerTest ==
  /\ consumer = "test"
  /\ consumer' = IF cancelled THEN "exited" ELSE "lock"
  /\ UNCHANGED <<callerVars, queue, dataToNotify, notifyMutex, current, delivered>>

ConsumerLock ==
  /\ consumer \in {"lock", "woken"}
  /\ notifyMutex = None
  /\ notifyMutex' = Consumer
  /\ consumer' = "eval"
  /\ UNCHANGED <<callerVars, queue, dataToNotify, current, delivered>>

(* The predicate of the wait, and the test of the token after it.          *)
ConsumerEval ==
  /\ consumer = "eval"
  /\ consumer' = IF cancelled THEN "test"
                 ELSE IF dataToNotify THEN "drain" ELSE "block"
  /\ notifyMutex' = IF cancelled THEN None ELSE notifyMutex
  /\ UNCHANGED <<callerVars, queue, dataToNotify, current, delivered>>

(* The predicate was false: the wait releases the mutex and blocks.        *)
ConsumerBlock ==
  /\ consumer = "block"
  /\ consumer' = "waiting"
  /\ notifyMutex' = None
  /\ UNCHANGED <<callerVars, queue, dataToNotify, current, delivered>>

(* Mutant of ConsumerPop: the newest notification is taken first.          *)
ConsumerPopNewest ==
  /\ consumer = "drain"
  /\ queue # <<>>
  /\ current' = queue[Len(queue)]
  /\ queue' = SubSeq(queue, 1, Len(queue) - 1)
  /\ consumer' = "callback"
  /\ UNCHANGED <<callerVars, dataToNotify, notifyMutex, delivered>>

ConsumerPop ==
  /\ consumer = "drain"
  /\ queue # <<>>
  /\ current' = Head(queue)
  /\ queue' = Tail(queue)
  /\ consumer' = "callback"
  /\ UNCHANGED <<callerVars, dataToNotify, notifyMutex, delivered>>

ConsumerCallback ==
  /\ consumer = "callback"
  /\ delivered' = Append(delivered, current)
  /\ current' = None
  /\ consumer' = "drain"
  /\ UNCHANGED <<callerVars, queue, dataToNotify, notifyMutex>>

ConsumerEmpty ==
  /\ consumer = "drain"
  /\ queue = <<>>
  /\ consumer' = "reset"
  /\ UNCHANGED <<callerVars, queue, dataToNotify, notifyMutex, current, delivered>>

ConsumerReset ==
  /\ consumer = "reset"
  /\ dataToNotify' = FALSE
  /\ notifyMutex' = None
  /\ consumer' = "test"
  /\ UNCHANGED <<callerVars, queue, current, delivered>>

ConsumerStep ==
  \/ ConsumerTest
  \/ ConsumerLock
  \/ ConsumerEval
  \/ ConsumerBlock
  \/ ConsumerPop
  \/ ConsumerCallback
  \/ ConsumerEmpty
  \/ ConsumerReset

Cancel(t) == CancelLock(t) \/ CancelToken(t) \/ CancelNotify(t) \/ CancelJoin(t)

NetStep == QueueLookup \/ QueuePush \/ QueueFlag \/ CloseCallbacks \/ Cancel(Net)

OwnerStep(c) == RemoveSizeTest(c) \/ Cancel(c)

Next ==
  \/ \E c \in Channels : Add(c) \/ RemoveErase(c) \/ OwnerStep(c) \/ QueueStart(c)
  \/ SocketClose
  \/ NetStep
  \/ ConsumerStep

Spec == Init /\ [][Next]_vars

(* Every thread that has begun an operation is scheduled until it is done. *)
FairSpec ==
  /\ Spec
  /\ WF_vars(ConsumerStep)
  /\ WF_vars(NetStep)
  /\ \A c \in Channels : WF_vars(OwnerStep(c))

-----------------------------------------------------------------------------

TypeOK ==
  /\ pc \in [Callers -> CallerPc]
  /\ registered \in SUBSET Channels
  /\ message \in Messages \cup {None}
  /\ queue \in Seq(Messages)
  /\ dataToNotify \in BOOLEAN /\ active \in BOOLEAN /\ cancelled \in BOOLEAN
  /\ notifierMutex \in Callers \cup {None}
  /\ notifyMutex \in {Consumer, None}
  /\ consumer \in ConsumerPc
  /\ current \in Messages \cup {None}
  /\ received \in 0 .. MaxMessages /\ closes \in 0 .. MaxCloses
  /\ accepted \in Seq(Messages) /\ delivered \in Seq(Messages)

(* Callbacks run in the order in which the server's notifications came,    *)
(* each once, through every cancellation and restart of the consumer.      *)
DeliveredInOrder ==
  delivered \o (IF consumer = "callback" THEN <<current>> ELSE <<>>) \o queue
    = accepted

(* The consumer never sleeps on a queue that is not empty: the thread that *)
(* pushed the notification is still to set the flag and to notify.         *)
NoMissedNotification ==
  consumer = "waiting" /\ queue # <<>> /\ ~cancelled => pc[Net] = "flag"

(* A consumer exists exactly while _notifier_active is set, so that        *)
(* queueForNotify never assigns to a thread that has not been joined.      *)
OneConsumer == active <=> consumer # "none"

(* The state of the notifier: types, one consumer, none that sleeps on.    *)
OneConsumerInv == TypeOK /\ OneConsumer /\ NoMissedNotification

(* Every queued notification reaches its callback, as long as nobody       *)
(* cancels the notifier.                                                   *)
EveryNotificationDelivered ==
  \A n \in 1 .. MaxMessages :
    Len(accepted) >= n ~> Len(delivered) >= n \/ cancelled

=============================================================================
