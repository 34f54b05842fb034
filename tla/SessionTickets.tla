--------------------------- MODULE SessionTickets ---------------------------
(***************************************************************************)
(* Session tickets of an authorized connection.  Every RPC call spends a   *)
(* ticket (TicketsManager::useTicket) and asks for new ones when few are   *)
(* left or they are about to expire; a call that asks keeps request_mutex  *)
(* until the answer is in, so that the calls behind it find new tickets.   *)
(* The ticket loop of AuthorizedConnection does the same in the            *)
(* background, without request_mutex.  destroy() ends the session.         *)
(*                                                                         *)
(* Time is discrete.  Steps of a thread that do not wait for the network,  *)
(* a mutex or a timer take no time.  A ticket is what matters of it: how   *)
(* long it is still good for the client and for the server.  The code      *)
(* keeps the moment a ticket expires; the model keeps the time left until  *)
(* then, 0 for past, so that no clock grows without bound.                 *)
(***************************************************************************)
EXTENDS Integers, Sequences

CONSTANTS
  Callers,            (* The threads that make calls.                     *)
  Destroyers,         (* Those of them that may end with destroy().       *)
  Loop, None,         (* The ticket loop's thread; nobody.                *)
  Faults,             (* Whether requests and answers may be lost.        *)
  TICKETS_MAX_COUNT, TICKETS_MIN_COUNT, MAX_ATTEMPTS,
  Ttl,                (* How long the server accepts a ticket.            *)
  MinTicketTtl,       (* _min_ticket_ttl: what the client subtracts.      *)
  TtlThreshold,       (* _ttl_threshold                                   *)
  PollTime, RetryTime,(* The two sleeps of the loop.                      *)
  MaxLatency          (* A message takes at most this time.               *)

ASSUME TicketsAssumption ==
  /\ Destroyers \subseteq Callers
  /\ Loop \notin Callers /\ None \notin Callers \cup {Loop}
  /\ Faults \in BOOLEAN
  /\ TICKETS_MIN_COUNT \in 1 .. TICKETS_MAX_COUNT
  /\ {TICKETS_MAX_COUNT, MAX_ATTEMPTS, Ttl, MinTicketTtl, TtlThreshold, PollTime,
      RetryTime, MaxLatency} \subseteq Nat
  /\ MinTicketTtl < Ttl /\ MaxLatency < Ttl

VARIABLES
  tickets,       (* _tickets, the multimap in the order of its keys.      *)
  ticketsTtl,    (* _tickets_ttl                                          *)
  requestMutex,  (* The holder of request_mutex, or None.                 *)
  pc,            (* Where each thread is.                                 *)
  waited,        (* How long it has been there.                           *)
  hand,          (* How long the server takes the ticket of its request.  *)
  asks,          (* Whether its request asks for new tickets.             *)
  leaving,       (* Whether it is inside destroy().                       *)
  attempts,      (* failedAttemptsOfSessionReconnection                   *)
  wsChannel,     (* Whether _wschannel_id is set.                         *)
  cancelled,     (* _ticket_updater_cancellation_token                    *)
  destroyed,     (* _destroyed                                            *)
  sessionLost,   (* A call found no ticket: the session lost event.       *)
  rejected       (* The server refused a ticket.                          *)

request == <<hand, asks>>
flags == <<leaving, wsChannel, cancelled, destroyed, sessionLost, rejected>>
store == <<tickets, ticketsTtl>>
vars == <<store, requestMutex, pc, waited, request, attempts, flags>>

Threads == Callers \cup {Loop}
Ticket == [exp : 0 .. Ttl, srv : 0 .. Ttl]

(* Where a thread goes on at once, and where it waits for the network.     *)
LocalPc == {"use", "take", "ask", "clear", "loopTest", "loopCount", "destroy"}
NetworkPc == {"sent", "answered"}

-----------------------------------------------------------------------------
(* TicketsManager.                                                         *)

(* dropExpiredTickets erases the tickets before upper_bound(now).          *)
DropExpired ==
  \E n \in 0 .. Len(tickets) :
    /\ \A i \in 1 .. Len(tickets) : tickets[i].exp = 0 <=> i <= n
    /\ tickets' = SubSeq(tickets, n + 1, Len(tickets))

(* Mutant of ShouldAsk: new tickets are asked for when none is left.       *)
ShouldAskWithNone(left) == left = <<>> \/ ticketsTtl < TtlThreshold

(* shouldAskForNewTickets, on the tickets dropExpiredTickets left.  A      *)
(* handshake has set _tickets_ttl, which is not NULL_TTL any more.         *)
ShouldAsk(left) ==
  \/ Len(left) < TICKETS_MIN_COUNT
  \/ ticketsTtl < TtlThreshold

(* Mutant of NewTicketsTtl: the margin for the way of messages is left out. *)
NewTicketsTtlNoMargin == Ttl

NewTicketsTtl == Ttl - MinTicketTtl

NewTickets(exp, srv) == [i \in 1 .. TICKETS_MAX_COUNT |-> [exp |-> exp, srv |-> srv]]

(* The new tickets are the last to expire, and emplace puts them behind    *)
(* those that expire with them.                                            *)
SaveTickets(srv) ==
  /\ tickets' = tickets \o NewTickets(NewTicketsTtl, srv)
  /\ ticketsTtl' = IF NewTicketsTtl > ticketsTtl THEN NewTicketsTtl ELSE ticketsTtl

-----------------------------------------------------------------------------

(* The session was established by a handshake, which saved tickets.        *)
Init ==
  /\ tickets = NewTickets(Ttl - MinTicketTtl, Ttl)
  /\ ticketsTtl = Ttl - MinTicketTtl
  /\ requestMutex = None
  /\ pc = [t \in Threads |-> IF t # Loop THEN "idle"
                             ELSE "loopTest"]
  /\ waited = [t \in Threads |-> 0]
  /\ hand = [t \in Threads |-> 0]
  /\ asks = [t \in Threads |-> FALSE]
  /\ leaving = [t \in Threads |-> FALSE]
  /\ attempts = 0
  /\ wsChannel = TRUE
  /\ cancelled = FALSE /\ destroyed = FALSE
  /\ sessionLost = FALSE /\ rejected = FALSE

Goto(t, to) ==
  /\ pc' = [pc EXCEPT ![t] = to]
  /\ waited' = [waited EXCEPT ![t] = 0]

Release(t) == requestMutex' = IF requestMutex = t THEN None ELSE requestMutex

(* A request is gone, and its thread goes on: inside destroy() it was      *)
(* unauthorizeWebSocket.                                                   *)
Forget(t) ==
  /\ hand' = [hand EXCEPT ![t] = 0]
  /\ asks' = [asks EXCEPT ![t] = FALSE]

Refreshing(t) == t = Loop /\ ~leaving[t]
AfterRequest(t) == IF leaving[t] THEN "clear" ELSE IF t = Loop THEN "loopTest" ELSE "idle"

-----------------------------------------------------------------------------
(* ClientEndpoint::call and AuthorizedConnection::call.                    *)

CallLock(t) ==
  /\ pc[t] \in {"idle", "unauthorize"}
  /\ requestMutex = None
  /\ requestMutex' = t
  /\ Goto(t, "use")
  /\ UNCHANGED <<store, request, attempts, flags>>

(* useTicket drops the expired tickets and counts the others, in two       *)
(* critical sections that commute with whatever comes between.  With none  *)
(* it throws: a call reports the session lost (which clearWebSocket        *)
(* ignores), the loop goes to destroy().                                   *)
UseTicket(t) ==
  /\ pc[t] = "use"
  /\ DropExpired
  /\ IF tickets' # <<>>
     THEN Goto(t, "take") /\ UNCHANGED <<requestMutex, sessionLost>>
     ELSE /\ Release(t)
          /\ Goto(t, IF Refreshing(t) THEN "destroy" ELSE AfterRequest(t))
          /\ sessionLost' = (~Refreshing(t) \/ sessionLost)
  /\ UNCHANGED <<ticketsTtl, request, attempts, leaving, wsChannel, cancelled,
                 destroyed, rejected>>

(* The first ticket of the multimap is taken.  Reading the first element   *)
(* of an empty one is undefined behaviour; the thread stops there.         *)
TakeTicket(t) ==
  /\ pc[t] = "take"
  /\ \/ /\ tickets # <<>>
        /\ tickets' = Tail(tickets)
        /\ hand' = [hand EXCEPT ![t] = Head(tickets).srv]
        /\ asks' = [asks EXCEPT ![t] = Refreshing(t)]
        /\ Goto(t, IF Refreshing(t) THEN "sent" ELSE "ask")
     \/ /\ tickets = <<>>
        /\ Goto(t, "undefined")
        /\ UNCHANGED <<tickets, request>>
  /\ UNCHANGED <<ticketsTtl, requestMutex, attempts, flags>>

(* A call that asks for tickets keeps request_mutex, another releases it.  *)
CallAsk(t) ==
  /\ pc[t] = "ask"
  /\ DropExpired
  /\ asks' = [asks EXCEPT ![t] = ShouldAsk(tickets')]
  /\ IF ShouldAsk(tickets') THEN UNCHANGED requestMutex ELSE Release(t)
  /\ Goto(t, "sent")
  /\ UNCHANGED <<ticketsTtl, hand, attempts, flags>>

(* The server accepts a ticket it has not let expire, and answers.         *)
ServerAnswer(t) ==
  /\ pc[t] = "sent"
  /\ hand[t] > 0
  /\ Goto(t, "answered")
  /\ UNCHANGED <<store, requestMutex, request, attempts, flags>>

(* sendRequest returns: new tickets are saved and request_mutex released.  *)
(* The server counts from the moment it answered.                          *)
RequestDone(t) ==
  /\ pc[t] = "answered"
  /\ IF asks[t] THEN SaveTickets(Ttl - waited[t]) ELSE UNCHANGED store
  /\ Release(t)
  /\ attempts' = IF Refreshing(t) THEN 0 ELSE attempts
  /\ Goto(t, AfterRequest(t))
  /\ Forget(t)
  /\ UNCHANGED flags

(* sendRequest throws: the lock goes with the endpoint.  The loop tries    *)
(* again after a sleep, and gives up after MAX_ATTEMPTS failures.          *)
Failed(t) ==
  /\ Release(t)
  /\ Forget(t)
  /\ IF ~Refreshing(t)
     THEN Goto(t, AfterRequest(t)) /\ UNCHANGED attempts
     ELSE IF attempts >= MAX_ATTEMPTS
          THEN Goto(t, "destroy") /\ UNCHANGED attempts
          ELSE Goto(t, "retrySleep") /\ attempts' = attempts + 1
  /\ UNCHANGED <<store, leaving, wsChannel, cancelled, destroyed, sessionLost>>

(* ALERT "Invalid ticket": the ticket had expired at the server.           *)
ServerReject(t) ==
  /\ pc[t] = "sent"
  /\ hand[t] = 0
  /\ rejected' = TRUE
  /\ Failed(t)

RequestLost(t) ==
  /\ Faults
  /\ pc[t] \in NetworkPc
  /\ UNCHANGED rejected
  /\ Failed(t)

-----------------------------------------------------------------------------
(* The ticket loop.                                                        *)

(* Mutant of LoopTest: only the number of tickets is looked at.            *)
LoopTestCountOnly ==
  /\ pc[Loop] = "loopTest"
  /\ IF cancelled
     THEN Goto(Loop, "ended") /\ UNCHANGED tickets
     ELSE /\ DropExpired
          /\ Goto(Loop, IF Len(tickets') < TICKETS_MIN_COUNT
                        THEN "loopCount" ELSE "sleep")
  /\ UNCHANGED <<ticketsTtl, requestMutex, request, attempts, flags>>

LoopTest ==
  /\ pc[Loop] = "loopTest"
  /\ IF cancelled
     THEN Goto(Loop, "ended") /\ UNCHANGED tickets
     ELSE /\ DropExpired
          /\ Goto(Loop, IF ShouldAsk(tickets') THEN "loopCount" ELSE "sleep")
  /\ UNCHANGED <<ticketsTtl, requestMutex, request, attempts, flags>>

(* Without a ticket the loop returns, otherwise it begins a refresh.       *)
LoopCount ==
  /\ pc[Loop] = "loopCount"
  /\ Goto(Loop, IF tickets = <<>> THEN "ended" ELSE "use")
  /\ UNCHANGED <<store, requestMutex, request, attempts, flags>>

(* token->sleep ends with the time or with an exception when cancelled.    *)
(* The sleep after a failure is inside the handler of that failure: no     *)
(* other handler of the same try takes its exception, which ends the       *)
(* process.                                                                *)
SleepTime == IF pc[Loop] = "sleep" THEN PollTime ELSE RetryTime

LoopSleepEnds ==
  /\ pc[Loop] \in {"sleep", "retrySleep"}
  /\ ~cancelled
  /\ waited[Loop] = SleepTime
  /\ Goto(Loop, "loopTest")
  /\ UNCHANGED <<store, requestMutex, request, attempts, flags>>

(* Mutant of LoopSleepCancelled: a cancelled sleep begins again.           *)
LoopSleepCancelledIgnored ==
  /\ pc[Loop] \in {"sleep", "retrySleep"}
  /\ cancelled
  /\ Goto(Loop, "sleep")
  /\ UNCHANGED <<store, requestMutex, request, attempts, flags>>

LoopSleepCancelled ==
  /\ pc[Loop] \in {"sleep", "retrySleep"}
  /\ cancelled
  /\ Goto(Loop, IF pc[Loop] = "sleep" THEN "ended" ELSE "terminate")
  /\ UNCHANGED <<store, requestMutex, request, attempts, flags>>

-----------------------------------------------------------------------------
(* AuthorizedConnection::destroy.                                          *)

DestroyBegin(t) ==
  /\ t \in Destroyers /\ pc[t] = "idle"
  /\ Goto(t, "destroy")
  /\ UNCHANGED <<store, requestMutex, request, attempts, flags>>

(* The token is cancelled and clearWebSocket takes the channel id; with    *)
(* tickets left, expired or not, it makes the call unauthorizeWebSocket.   *)
Destroy(t) ==
  /\ pc[t] = "destroy"
  /\ IF destroyed
     THEN Goto(t, "ended") /\ UNCHANGED <<leaving, cancelled, wsChannel>>
     ELSE /\ leaving' = [leaving EXCEPT ![t] = TRUE]
          /\ cancelled' = TRUE
          /\ wsChannel' = FALSE
          /\ Goto(t, IF wsChannel /\ tickets # <<>> THEN "unauthorize" ELSE "clear")
  /\ UNCHANGED <<store, requestMutex, request, attempts, destroyed, sessionLost, rejected>>

DestroyClear(t) ==
  /\ pc[t] = "clear"
  /\ destroyed' = TRUE
  /\ tickets' = <<>>
  /\ leaving' = [leaving EXCEPT ![t] = FALSE]
  /\ Goto(t, "ended")
  /\ UNCHANGED <<ticketsTtl, requestMutex, request, attempts, wsChannel,
                 cancelled, sessionLost, rejected>>

-----------------------------------------------------------------------------

(* Time passes while every thread waits for the network, a timer or a      *)
(* mutex, and no longer than these waits allow.                            *)
MaxWait(t) == CASE pc[t] \in NetworkPc -> MaxLatency
                [] pc[t] = "sleep" -> IF cancelled THEN 0 ELSE PollTime
                [] pc[t] = "retrySleep" -> IF cancelled THEN 0 ELSE RetryTime
                [] pc[t] \in LocalPc -> 0
                [] OTHER -> 1

TimedPc == NetworkPc \cup {"sleep", "retrySleep"}

Less(n) == IF n = 0 THEN 0 ELSE n - 1

(* What a ticket is after one unit of time; expired ones are all alike.    *)
Older(t) == IF t.exp <= 1 THEN [exp |-> 0, srv |-> 0] ELSE [exp |-> t.exp - 1, srv |-> Less(t.srv)]

Tick ==
  /\ \A t \in Threads : waited[t] < MaxWait(t)
  /\ tickets' = [i \in 1 .. Len(tickets) |-> Older(tickets[i])]
  /\ ticketsTtl' = Less(ticketsTtl)
  /\ waited' = [t \in Threads |-> IF pc[t] \in TimedPc THEN waited[t] + 1 ELSE 0]
  /\ hand' = [t \in Threads |-> Less(hand[t])]
  /\ UNCHANGED <<requestMutex, pc, asks, attempts, flags>>

ThreadStep(t) ==
  \/ UseTicket(t) \/ TakeTicket(t) \/ CallAsk(t)
  \/ ServerAnswer(t) \/ ServerReject(t) \/ RequestDone(t)
  \/ Destroy(t) \/ DestroyClear(t)

LoopStep == LoopTest \/ LoopCount \/ LoopSleepEnds \/ LoopSleepCancelled

Next ==
  \/ \E t \in Threads :
       \/ CallLock(t) \/ UseTicket(t) \/ TakeTicket(t) \/ CallAsk(t)
       \/ ServerAnswer(t) \/ ServerReject(t) \/ RequestLost(t) \/ RequestDone(t)
       \/ DestroyBegin(t) \/ Destroy(t) \/ DestroyClear(t)
  \/ LoopTest
  \/ LoopCount
  \/ LoopSleepEnds
  \/ LoopSleepCancelled
  \/ Tick

Spec == Init /\ [][Next]_vars

(* Threads go on, time passes, and the server answers or a timeout of the  *)
(* HTTP client ends the wait for it.  No fairness of request_mutex.        *)
FairSpec ==
  /\ Spec
  /\ WF_vars(Tick)
  /\ WF_vars(LoopStep)
  /\ \A t \in Threads : WF_vars(ThreadStep(t))

-----------------------------------------------------------------------------

(* When the session is kept.                                               *)

(* The margin that saveTickets subtracts covers the way of the answer that *)
(* brought a ticket and the way of the request that spends it.             *)
Fits == 2 * MaxLatency <= MinTicketTtl

(* Every message arrives and nobody ends the session; the loop asks for    *)
(* tickets while at least two are left, and a sleep of the loop and the    *)
(* two ways of its request are shorter than the time before the expiry at  *)
(* which it asks, and than the life of a ticket.                           *)
InTime ==
  /\ ~Faults /\ Destroyers = {}
  /\ 2 <= TICKETS_MIN_COUNT
  /\ PollTime + 2 * MaxLatency < TtlThreshold
  /\ 2 * MaxLatency < Ttl - MinTicketTtl

-----------------------------------------------------------------------------

Pcs == LocalPc \cup NetworkPc \cup
       {"idle", "unauthorize", "sleep", "retrySleep", "ended", "undefined", "terminate"}

TypeOK ==
  /\ tickets \in Seq(Ticket)
  /\ ticketsTtl \in 0 .. Ttl
  /\ requestMutex \in Threads \cup {None}
  /\ pc \in [Threads -> Pcs]
  /\ hand \in [Threads -> 0 .. Ttl]
  /\ asks \in [Threads -> BOOLEAN]
  /\ leaving \in [Threads -> BOOLEAN]
  /\ attempts \in 0 .. MAX_ATTEMPTS

(* While the server answers in time, the session is never lost: neither do *)
(* calls use up the tickets, nor do they all expire before the loop or a   *)
(* call has renewed them.                                                  *)
SessionKept == ~sessionLost

(* The ticket loop does not end before the session does: it never finds    *)
(* the tickets used up while a call that asked for new ones is under way.  *)
LoopKept == pc[Loop] = "ended" => cancelled

(* Types, and the loop kept.                                               *)
LoopKeptInv == TypeOK /\ LoopKept

(* The client never spends a ticket that the server holds for expired:     *)
(* _min_ticket_ttl covers the way of the answer and of the next request.   *)
NoTicketRejected == ~rejected

(* After destroy() has cancelled the token, the ticket loop ends: it       *)
(* neither sleeps on nor refreshes tickets for ever, unless the process is *)
(* gone or the loop itself has got to destroy(), where it waits its turn   *)
(* for request_mutex.                                                      *)
CancelStopsLoop ==
  cancelled ~> \/ pc[Loop] = "ended" \/ leaving[Loop]
               \/ \E t \in Threads : pc[t] \in {"undefined", "terminate"}
=============================================================================
