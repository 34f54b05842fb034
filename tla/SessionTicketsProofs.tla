------------------------ MODULE SessionTicketsProofs ------------------------
(***************************************************************************)
(* Proofs about the session tickets: a ticket that is spent is good        *)
(* whenever the margin covers the ways of two messages, and the session    *)
(* and its ticket loop are kept for any number of callers as long as the   *)
(* server answers in time.                                                 *)
(***************************************************************************)
EXTENDS SessionTickets, SequenceTheorems, TLAPS

(* Types, and no message under way for longer than MaxLatency.             *)
Waits ==
  /\ TypeOK
  /\ rejected \in BOOLEAN
  /\ waited \in [Threads -> Nat]
  /\ \A t \in Threads : pc[t] \in NetworkPc => waited[t] <= MaxLatency

(* The server holds a live ticket for good longer than the client does, by *)
(* what is left of the margin when the answer took MaxLatency.             *)
Good(k) == k.exp > 0 => k.exp + MinTicketTtl - MaxLatency <= k.srv

AllGood == \A i \in 1 .. Len(tickets) : Good(tickets[i])

AllLive == \A i \in 1 .. Len(tickets) : tickets[i].exp > 0

(* The inductive invariant of NoTicketRejected. Tickets in the store are   *)
(* Good. Between useTicket's drop and its take no time passes, so that the *)
(* ticket taken is live; then the ticket in the hand of a request is good  *)
(* for the rest of its way.                                                *)
TicketInv ==
  /\ Waits
  /\ AllGood
  /\ \A t \in Threads :
       /\ pc[t] = "take" => AllLive
       /\ pc[t] = "ask" => hand[t] + MaxLatency > MinTicketTtl
       /\ pc[t] = "sent" => hand[t] + waited[t] + MaxLatency > MinTicketTtl
  /\ NoTicketRejected

(* Nobody is destroying the session.                                       *)
Quiet == leaving = [t \in Threads |-> FALSE] /\ ~cancelled /\ ~destroyed

(* The ticket loop is somewhere between its test and its sleep, asks in    *)
(* each of its requests, and never has request_mutex.                      *)
LoopRuns ==
  /\ pc[Loop] \in {"loopTest", "loopCount", "use", "take", "sent", "answered", "sleep"}
  /\ pc[Loop] \in NetworkPc => asks[Loop]
  /\ requestMutex # Loop

(* A call has request_mutex from its start until it is sent, and until it  *)
(* is answered when it asks for tickets.                                   *)
CallsLock ==
  \A t \in Callers :
    /\ pc[t] \in {"idle", "use", "take", "ask", "sent", "answered"}
    /\ requestMutex = t <=> \/ pc[t] \in {"use", "take", "ask"}
                            \/ pc[t] \in NetworkPc /\ asks[t]

(* The newest tickets live long enough for the loop to get the next ones,  *)
(* wherever the loop is.                                                   *)
Renewed ==
  /\ ticketsTtl <= Ttl - MinTicketTtl
  /\ pc[Loop] = "sleep" => /\ waited[Loop] <= PollTime
                           /\ ticketsTtl + waited[Loop] >= TtlThreshold
  /\ pc[Loop] = "sent" => ticketsTtl + waited[Loop] > 2 * MaxLatency
  /\ pc[Loop] = "answered" => ticketsTtl + waited[Loop] > MaxLatency
  /\ pc[Loop] \in {"loopTest", "loopCount", "use", "take"} => ticketsTtl > 2 * MaxLatency

(* The last n tickets of the store are of the newest ones.                 *)
Newest(n) ==
  /\ n <= Len(tickets)
  /\ \A i \in 1 .. Len(tickets) : i > Len(tickets) - n => tickets[i].exp = ticketsTtl

(* The multimap is in order, its end are the newest tickets, and as long   *)
(* as an older ticket is in front of them enough of the newest ones are    *)
(* there: they are taken from the front.                                   *)
Ordered ==
  /\ \A i, j \in 1 .. Len(tickets) : i <= j => tickets[i].exp <= tickets[j].exp
  /\ tickets # <<>> => tickets[Len(tickets)].exp = ticketsTtl
  /\ tickets # <<>> /\ tickets[1].exp # ticketsTtl => Newest(TICKETS_MIN_COUNT)

(* A call that has request_mutex has taken its ticket; the loop has taken  *)
(* the one of its request.                                                 *)
CallOut == \E t \in Callers : requestMutex = t /\ pc[t] \in {"ask", "sent", "answered"}

LoopOut == pc[Loop] \in NetworkPc

Outstanding == (IF CallOut THEN 1 ELSE 0) + (IF LoopOut THEN 1 ELSE 0)

(* No more of the newest tickets are missing than the requests that will   *)
(* bring new ones have taken.                                              *)
Enough == \A k \in 0 .. 2 : Outstanding <= k => Newest(TICKETS_MIN_COUNT - k)

(* The inductive invariant of SessionKept and LoopKeptInv.                 *)
SessionInv ==
  /\ TicketInv
  /\ Quiet /\ LoopRuns /\ CallsLock
  /\ Renewed /\ Ordered /\ Enough
  /\ ~sessionLost

-----------------------------------------------------------------------------

(* What TicketsAssumption says of the constants, one by one.               *)
LEMMA Constants ==
  /\ Threads = Callers \cup {Loop}
  /\ TICKETS_MAX_COUNT \in Nat /\ TICKETS_MIN_COUNT \in Nat /\ MAX_ATTEMPTS \in Nat
  /\ Ttl \in Nat /\ MinTicketTtl \in Nat /\ TtlThreshold \in Nat
  /\ PollTime \in Nat /\ RetryTime \in Nat /\ MaxLatency \in Nat
  /\ 1 <= TICKETS_MIN_COUNT /\ TICKETS_MIN_COUNT <= TICKETS_MAX_COUNT
  /\ MinTicketTtl < Ttl /\ MaxLatency < Ttl
  /\ Loop \in Threads /\ Loop \notin Callers /\ None \notin Threads
  /\ Destroyers \subseteq Callers
BY TicketsAssumption DEF TicketsAssumption, Threads

(* dropExpiredTickets takes the expired tickets off the front.             *)
LEMMA Dropped ==
  ASSUME tickets \in Seq(Ticket), DropExpired
  PROVE  /\ tickets' \in Seq(Ticket)
         /\ \E n \in 0 .. Len(tickets) :
              /\ Len(tickets') = Len(tickets) - n
              /\ \A i \in 1 .. n : tickets[i].exp = 0
              /\ \A i \in 1 .. Len(tickets') :
                   tickets'[i] = tickets[i + n] /\ tickets'[i].exp > 0
<1>1. PICK n \in 0 .. Len(tickets) :
        /\ \A i \in 1 .. Len(tickets) : tickets[i].exp = 0 <=> i <= n
        /\ tickets' = SubSeq(tickets, n + 1, Len(tickets))
  BY DEF DropExpired
<1>2. Len(tickets) \in Nat
  OBVIOUS
<1>3. tickets' \in Seq(Ticket) /\ Len(tickets') = Len(tickets) - n
  BY <1>1, <1>2
<1>4. ASSUME NEW i \in 1 .. Len(tickets')
      PROVE  tickets'[i] = tickets[i + n] /\ tickets'[i].exp > 0
  <2>1. tickets'[i] = tickets[i + n]
    BY <1>1, <1>2, <1>3
  <2>2. i + n \in 1 .. Len(tickets) /\ ~(i + n <= n)
    BY <1>1, <1>2, <1>3
  <2>3. tickets[i + n].exp # 0 /\ tickets[i + n] \in Ticket
    BY <1>1, <2>2
  <2>4. tickets[i + n].exp \in Nat
    BY <2>3, Constants DEF Ticket
  <2> QED
    BY <2>1, <2>3, <2>4
<1>5. \A i \in 1 .. n : tickets[i].exp = 0
  BY <1>1, <1>2
<1> QED
  BY <1>1, <1>3, <1>4, <1>5

(* A unit of time makes every ticket older and keeps their number.         *)
LEMMA Aged ==
  ASSUME tickets \in Seq(Ticket), Tick
  PROVE  /\ tickets' \in Seq(Ticket) /\ Len(tickets') = Len(tickets)
         /\ \A i \in 1 .. Len(tickets) : tickets'[i] = Older(tickets[i])
<1>1. ASSUME NEW k \in Ticket PROVE Older(k) \in Ticket
  BY Constants DEF Older, Less, Ticket
<1>2. tickets' = [i \in 1 .. Len(tickets) |-> Older(tickets[i])] /\ Len(tickets) \in Nat
  BY DEF Tick
<1>3. \A i \in 1 .. Len(tickets) : Older(tickets[i]) \in Ticket
  BY <1>1
<1> QED
  BY <1>2, <1>3

(* useTicket takes the ticket at the front.                                *)
LEMMA Taken ==
  ASSUME tickets \in Seq(Ticket), tickets # <<>>, tickets' = Tail(tickets)
  PROVE  /\ tickets' \in Seq(Ticket) /\ Len(tickets') = Len(tickets) - 1
         /\ \A i \in 1 .. Len(tickets') : tickets'[i] = tickets[i + 1]
         /\ Len(tickets) \in Nat \ {0} /\ Head(tickets) = tickets[1]
OBVIOUS

(* saveTickets puts TICKETS_MAX_COUNT new tickets behind the others.       *)
LEMMA Saved ==
  ASSUME tickets \in Seq(Ticket), NEW srv \in 0 .. Ttl, SaveTickets(srv)
  PROVE  /\ tickets' \in Seq(Ticket)
         /\ Len(tickets') = Len(tickets) + TICKETS_MAX_COUNT
         /\ \A i \in 1 .. Len(tickets) : tickets'[i] = tickets[i]
         /\ \A i \in 1 .. Len(tickets') : i > Len(tickets) =>
              tickets'[i] = [exp |-> Ttl - MinTicketTtl, srv |-> srv]
<1> DEFINE k == [exp |-> Ttl - MinTicketTtl, srv |-> srv]
           new == [i \in 1 .. TICKETS_MAX_COUNT |-> k]
<1>1. k \in Ticket
  BY Constants DEF Ticket
<1>2. new \in Seq(Ticket) /\ Len(new) = TICKETS_MAX_COUNT
  BY <1>1, Constants
<1>3. tickets' = tickets \o new
  BY DEF SaveTickets, NewTickets, NewTicketsTtl
<1>4. \A i \in 1 .. TICKETS_MAX_COUNT : new[i] = k
  OBVIOUS
<1> HIDE DEF k, new
<1>5. tickets' \in Seq(Ticket) /\ Len(tickets') = Len(tickets) + Len(new)
  BY <1>2, <1>3, ConcatProperties
<1>6. \A i \in 1 .. Len(tickets) : tickets'[i] = tickets[i]
  BY <1>2, <1>3
<1>7. ASSUME NEW i \in 1 .. Len(tickets'), i > Len(tickets)
      PROVE  tickets'[i] = k
  <2>1. tickets'[i] = new[i - Len(tickets)] /\ i - Len(tickets) \in 1 .. TICKETS_MAX_COUNT
    BY <1>2, <1>3, <1>5, <1>7, Constants
  <2> QED
    BY <2>1, <1>4
<1> QED
  BY <1>2, <1>5, <1>6, <1>7 DEF k

-----------------------------------------------------------------------------

(* A step of a thread leaves the places and the waits of the others alone. *)
LEMMA Going ==
  ASSUME Waits, NEW t \in Threads, NEW to \in Pcs, Goto(t, to)
  PROVE  /\ pc' \in [Threads -> Pcs] /\ waited' \in [Threads -> Nat]
         /\ \A u \in Threads : pc'[u] \in NetworkPc => waited'[u] <= MaxLatency
         /\ pc'[t] = to /\ waited'[t] = 0
         /\ \A u \in Threads \ {t} : pc'[u] = pc[u] /\ waited'[u] = waited[u]
BY Constants DEF Goto, Waits, TypeOK

(* The handshake leaves a state with its types.                            *)
LEMMA InitWaits == Init => Waits
<1> SUFFICES ASSUME Init PROVE Waits
  OBVIOUS
<1>1. [exp |-> Ttl - MinTicketTtl, srv |-> Ttl] \in Ticket
  BY Constants DEF Ticket
<1>2. tickets \in Seq(Ticket)
  BY <1>1, Constants DEF Init, NewTickets
<1>3. pc \in [Threads -> Pcs] /\ \A t \in Threads : pc[t] \notin NetworkPc
  BY DEF Init, Pcs, LocalPc, NetworkPc
<1>4. /\ ticketsTtl \in 0 .. Ttl /\ attempts \in 0 .. MAX_ATTEMPTS
      /\ hand \in [Threads -> 0 .. Ttl] /\ waited \in [Threads -> Nat]
  BY Constants DEF Init
<1>5. /\ asks \in [Threads -> BOOLEAN] /\ leaving \in [Threads -> BOOLEAN]
      /\ rejected \in BOOLEAN /\ requestMutex \in Threads \cup {None}
  BY DEF Init
<1> QED
  BY <1>2, <1>3, <1>4, <1>5 DEF Waits, TypeOK

(* A request that fails keeps the types, whatever its thread does next.    *)
LEMMA FailedWaits ==
  ASSUME Waits, NEW t \in Threads, Failed(t), rejected' \in BOOLEAN
  PROVE  Waits'
<1>1. AfterRequest(t) \in Pcs /\ "destroy" \in Pcs /\ "retrySleep" \in Pcs
  BY DEF AfterRequest, Pcs, LocalPc
<1>2. PICK to \in Pcs : Goto(t, to)
  BY <1>1 DEF Failed
<1>3. attempts' \in 0 .. MAX_ATTEMPTS
  BY Constants DEF Failed, Waits, TypeOK
<1>4. requestMutex' \in Threads \cup {None}
  BY DEF Failed, Release, Waits, TypeOK
<1>5. hand' \in [Threads -> 0 .. Ttl] /\ asks' \in [Threads -> BOOLEAN]
  BY Constants DEF Failed, Forget, Waits, TypeOK
<1>6. UNCHANGED <<tickets, ticketsTtl, leaving>>
  BY DEF Failed, store
<1> QED
  BY <1>2, <1>3, <1>4, <1>5, <1>6, Going DEF Waits, TypeOK

(* Every step keeps the types, and no message is late.                     *)
LEMMA WaitsStep == Waits /\ [Next]_vars => Waits'
<1> SUFFICES ASSUME Waits, [Next]_vars PROVE Waits'
  OBVIOUS
<1> USE DEF request, flags, store
<1>0. /\ \A to \in {"use", "take", "ask", "sent", "answered", "idle", "clear", "loopTest",
                    "loopCount", "destroy", "unauthorize", "sleep", "ended",
                    "undefined", "terminate"} : to \in Pcs
      /\ \A t : AfterRequest(t) \in Pcs
  BY DEF Pcs, LocalPc, NetworkPc, AfterRequest
<1>1. ASSUME NEW t \in Threads, CallLock(t) PROVE Waits'
  BY <1>0, <1>1, Going DEF CallLock, Waits, TypeOK
<1>2. ASSUME NEW t \in Threads, UseTicket(t) PROVE Waits'
  <2>1. tickets' \in Seq(Ticket)
    BY <1>2, Dropped DEF UseTicket, Waits, TypeOK
  <2>2. PICK to \in Pcs : Goto(t, to)
    BY <1>0, <1>2 DEF UseTicket
  <2>3. requestMutex' \in Threads \cup {None}
    BY <1>2 DEF UseTicket, Release, Waits, TypeOK
  <2> QED
    BY <1>2, <2>1, <2>2, <2>3, Going DEF UseTicket, Waits, TypeOK
<1>3. ASSUME NEW t \in Threads, TakeTicket(t) PROVE Waits'
  <2>1. PICK to \in Pcs : Goto(t, to)
    BY <1>0, <1>3 DEF TakeTicket
  <2>2. CASE tickets # <<>> /\ tickets' = Tail(tickets)
             /\ hand' = [hand EXCEPT ![t] = Head(tickets).srv]
             /\ asks' = [asks EXCEPT ![t] = Refreshing(t)]
    <3>1. tickets' \in Seq(Ticket) /\ Head(tickets) \in Ticket
      BY <2>2, Taken DEF Waits, TypeOK
    <3>2. Head(tickets).srv \in 0 .. Ttl /\ Refreshing(t) \in BOOLEAN
      BY <3>1 DEF Ticket, Refreshing, Waits, TypeOK
    <3> QED
      BY <1>3, <2>1, <2>2, <3>1, <3>2, Going DEF TakeTicket, Waits, TypeOK
  <2>3. CASE UNCHANGED <<tickets, request>>
    BY <1>3, <2>1, <2>3, Going DEF TakeTicket, Waits, TypeOK
  <2> QED
    BY <1>3, <2>2, <2>3 DEF TakeTicket
<1>4. ASSUME NEW t \in Threads, CallAsk(t) PROVE Waits'
  <2>1. tickets' \in Seq(Ticket)
    BY <1>4, Dropped DEF CallAsk, Waits, TypeOK
  <2>2. requestMutex' \in Threads \cup {None}
    BY <1>4 DEF CallAsk, Release, Waits, TypeOK
  <2>3. ShouldAsk(tickets') \in BOOLEAN
    BY DEF ShouldAsk
  <2> QED
    BY <1>0, <1>4, <2>1, <2>2, <2>3, Going DEF CallAsk, Waits, TypeOK
<1>5. ASSUME NEW t \in Threads, ServerAnswer(t) PROVE Waits'
  BY <1>0, <1>5, Going DEF ServerAnswer, Waits, TypeOK
<1>6. ASSUME NEW t \in Threads, ServerReject(t) PROVE Waits'
  BY <1>6, FailedWaits DEF ServerReject
<1>7. ASSUME NEW t \in Threads, RequestLost(t) PROVE Waits'
  BY <1>7, FailedWaits DEF RequestLost, Waits
<1>8. ASSUME NEW t \in Threads, RequestDone(t) PROVE Waits'
  <2>1. tickets' \in Seq(Ticket) /\ ticketsTtl' \in 0 .. Ttl
    <3>1. Ttl - waited[t] \in 0 .. Ttl
      BY <1>8, Constants DEF RequestDone, Waits, NetworkPc
    <3>2. CASE SaveTickets(Ttl - waited[t])
      <4>1. tickets' \in Seq(Ticket)
        BY <3>1, <3>2, Saved DEF Waits, TypeOK
      <4>2. ticketsTtl' \in 0 .. Ttl
        BY <3>2, Constants DEF SaveTickets, NewTicketsTtl, Waits, TypeOK
      <4> QED
        BY <4>1, <4>2
    <3> QED
      BY <1>8, <3>2 DEF RequestDone, Waits, TypeOK
  <2>2. requestMutex' \in Threads \cup {None} /\ attempts' \in 0 .. MAX_ATTEMPTS
    BY <1>8, Constants DEF RequestDone, Release, Waits, TypeOK
  <2>3. hand' \in [Threads -> 0 .. Ttl] /\ asks' \in [Threads -> BOOLEAN]
    BY <1>8, Constants DEF RequestDone, Forget, Waits, TypeOK
  <2> QED
    BY <1>0, <1>8, <2>1, <2>2, <2>3, Going DEF RequestDone, Waits, TypeOK
<1>9. ASSUME NEW t \in Threads, DestroyBegin(t) PROVE Waits'
  BY <1>0, <1>9, Going DEF DestroyBegin, Waits, TypeOK
<1>10. ASSUME NEW t \in Threads, Destroy(t) PROVE Waits'
  <2>1. PICK to \in Pcs : Goto(t, to)
    BY <1>0, <1>10 DEF Destroy
  <2>2. leaving' \in [Threads -> BOOLEAN]
    BY <1>10 DEF Destroy, Waits, TypeOK
  <2> QED
    BY <1>10, <2>1, <2>2, Going DEF Destroy, Waits, TypeOK
<1>11. ASSUME NEW t \in Threads, DestroyClear(t) PROVE Waits'
  <2>1. tickets' \in Seq(Ticket)
    BY <1>11 DEF DestroyClear
  <2> QED
    BY <1>0, <1>11, <2>1, Going DEF DestroyClear, Waits, TypeOK
<1>12. ASSUME LoopTest PROVE Waits'
  <2>1. tickets' \in Seq(Ticket)
    BY <1>12, Dropped DEF LoopTest, Waits, TypeOK
  <2>2. PICK to \in Pcs : Goto(Loop, to)
    BY <1>0, <1>12 DEF LoopTest
  <2> QED
    BY <1>12, <2>1, <2>2, Going, Constants DEF LoopTest, Waits, TypeOK
<1>13. ASSUME LoopCount \/ LoopSleepEnds \/ LoopSleepCancelled PROVE Waits'
  <2>1. PICK to \in Pcs : Goto(Loop, to)
    BY <1>0, <1>13 DEF LoopCount, LoopSleepEnds, LoopSleepCancelled
  <2> QED
    BY <1>13, <2>1, Going, Constants
       DEF LoopCount, LoopSleepEnds, LoopSleepCancelled, Waits, TypeOK
<1>14. ASSUME Tick PROVE Waits'
  <2>1. tickets' \in Seq(Ticket)
    BY <1>14, Aged DEF Tick, Waits, TypeOK
  <2>2. waited' \in [Threads -> Nat] /\ hand' \in [Threads -> 0 .. Ttl]
        /\ ticketsTtl' \in 0 .. Ttl
    BY <1>14, Constants DEF Tick, Less, Waits, TypeOK
  <2>3. ASSUME NEW t \in Threads, pc[t] \in NetworkPc PROVE waited'[t] <= MaxLatency
    <3>1. waited[t] < MaxWait(t) /\ waited'[t] = waited[t] + 1
      BY <1>14, <2>3 DEF Tick, TimedPc
    <3>2. MaxWait(t) = MaxLatency
      BY <2>3 DEF MaxWait, NetworkPc, LocalPc
    <3> QED
      BY <3>1, <3>2, Constants DEF Waits
  <2> QED
    BY <1>14, <2>1, <2>2, <2>3 DEF Tick, Waits, TypeOK
<1>15. ASSUME UNCHANGED vars PROVE Waits'
  BY <1>15 DEF vars, Waits, TypeOK
<1> QED
  BY <1>1, <1>2, <1>3, <1>4, <1>5, <1>6, <1>7, <1>8, <1>9, <1>10, <1>11, <1>12, <1>13,
     <1>14, <1>15 DEF Next

-----------------------------------------------------------------------------

(* The tickets of the handshake are Good.                                  *)
LEMMA InitTicketInv == Init => TicketInv
<1> SUFFICES ASSUME Init PROVE TicketInv
  OBVIOUS
<1>1. Good([exp |-> Ttl - MinTicketTtl, srv |-> Ttl])
  BY Constants DEF Good
<1>2. AllGood
  BY <1>1, Constants DEF Init, NewTickets, AllGood
<1>3. \A t \in Threads : pc[t] \notin {"take", "ask", "sent"}
  BY DEF Init
<1> QED
  BY <1>2, <1>3, InitWaits DEF Init, TicketInv, NoTicketRejected

(* After dropExpiredTickets all tickets are live.                          *)
LEMMA DropGood ==
  ASSUME tickets \in Seq(Ticket), AllGood, DropExpired
  PROVE  AllGood' /\ AllLive'
<1>1. PICK n \in 0 .. Len(tickets) :
        /\ Len(tickets') = Len(tickets) - n
        /\ \A i \in 1 .. Len(tickets') : tickets'[i] = tickets[i + n] /\ tickets'[i].exp > 0
  BY Dropped
<1>2. \A i \in 1 .. Len(tickets') : i + n \in 1 .. Len(tickets)
  BY <1>1
<1> QED
  BY <1>1, <1>2 DEF AllGood, AllLive, Good

(* A live ticket that is taken is good for the way of its request.         *)
LEMMA TakeGood ==
  ASSUME tickets \in Seq(Ticket), AllGood, tickets # <<>>, tickets' = Tail(tickets)
  PROVE  /\ AllGood' /\ (AllLive => AllLive')
         /\ AllLive => Head(tickets).srv + MaxLatency > MinTicketTtl
<1>1. \A i \in 1 .. Len(tickets') : i + 1 \in 1 .. Len(tickets)
  BY Taken
<1>2. AllGood' /\ (AllLive => AllLive')
  BY <1>1, Taken DEF AllGood, AllLive, Good
<1>3. Head(tickets) = tickets[1] /\ 1 \in 1 .. Len(tickets) /\ tickets[1] \in Ticket
  BY Taken
<1>4. ASSUME AllLive PROVE Head(tickets).srv + MaxLatency > MinTicketTtl
  <2>1. tickets[1].exp > 0 /\ Good(tickets[1])
    BY <1>3, <1>4 DEF AllLive, AllGood
  <2> QED
    BY <1>3, <2>1, Constants DEF Good, Ticket
<1> QED
  BY <1>2, <1>4

(* The tickets of an answer that took w are Good.                          *)
LEMMA SaveGood ==
  ASSUME tickets \in Seq(Ticket), AllGood, NEW w \in 0 .. MaxLatency, SaveTickets(Ttl - w)
  PROVE  AllGood' /\ (AllLive => AllLive')
<1> DEFINE k == [exp |-> Ttl - MinTicketTtl, srv |-> Ttl - w]
<1>1. Ttl - w \in 0 .. Ttl
  BY Constants
<1>2. Good(k) /\ k.exp > 0
  BY Constants DEF Good
<1>3. ASSUME NEW i \in 1 .. Len(tickets')
      PROVE  (i \in 1 .. Len(tickets) /\ tickets'[i] = tickets[i]) \/ tickets'[i] = k
  BY <1>1, Saved
<1> HIDE DEF k
<1> QED
  BY <1>2, <1>3 DEF AllGood, AllLive, Good

(* Tickets stay Good: the client's time runs out first.                    *)
LEMMA AgeGood ==
  ASSUME tickets \in Seq(Ticket), AllGood, Tick
  PROVE  AllGood'
<1>1. ASSUME NEW k \in Ticket, Good(k) PROVE Good(Older(k))
  BY <1>1, Constants DEF Good, Older, Less, Ticket
<1> QED
  BY <1>1, Aged DEF AllGood, Good

(* Every step keeps TicketInv, with lost messages and destroy() as well.   *)
LEMMA TicketInvStep ==
  ASSUME Fits, TicketInv, [Next]_vars
  PROVE  TicketInv'
<1> USE DEF request, flags, store
<1>w. Waits' /\ Waits /\ tickets \in Seq(Ticket) /\ AllGood
  BY WaitsStep DEF TicketInv, Waits, TypeOK
<1> DEFINE
      Holds(t) == /\ pc[t] = "take" => AllLive
                  /\ pc[t] = "ask" => hand[t] + MaxLatency > MinTicketTtl
                  /\ pc[t] = "sent" => hand[t] + waited[t] + MaxLatency > MinTicketTtl
      Others(t) == \A u \in Threads \ {t} : Holds(u)'
<1>h. ASSUME NEW t \in Threads PROVE Holds(t)
  BY DEF TicketInv
<1>q. ASSUME AllGood', ~rejected', NEW t \in Threads, Holds(t)', Others(t)
      PROVE  TicketInv'
  BY <1>w, <1>q DEF TicketInv, NoTicketRejected
<1>o. ASSUME NEW t \in Threads, NEW to, Goto(t, to), AllLive => AllLive',
             \A u \in Threads \ {t} : hand'[u] = hand[u]
      PROVE  Others(t)
  BY <1>h, <1>o, <1>w DEF Goto, Waits, TypeOK
<1>1. ASSUME NEW t \in Threads, CallLock(t) \/ DestroyBegin(t) \/ Destroy(t)
      PROVE TicketInv'
  <2>1. PICK to \in {"use", "destroy", "ended", "unauthorize", "clear"} : Goto(t, to)
    BY <1>1 DEF CallLock, DestroyBegin, Destroy
  <2>2. UNCHANGED <<tickets, hand, rejected>>
    BY <1>1 DEF CallLock, DestroyBegin, Destroy
  <2>3. AllGood' /\ (AllLive => AllLive')
    BY <1>w, <2>2 DEF AllGood, AllLive, Good
  <2>4. Holds(t)' /\ Others(t)
    BY <2>1, <2>2, <2>3, <1>o, <1>w DEF Goto, Waits, TypeOK
  <2> QED
    BY <2>2, <2>3, <2>4, <1>q DEF TicketInv, NoTicketRejected
<1>2. ASSUME NEW t \in Threads, UseTicket(t) PROVE TicketInv'
  <2>1. AllGood' /\ AllLive'
    BY <1>2, <1>w, DropGood DEF UseTicket
  <2>2. PICK to \in {"take", "destroy", "clear", "loopTest", "idle"} : Goto(t, to)
    BY <1>2 DEF UseTicket, AfterRequest
  <2>3. UNCHANGED <<hand, rejected>>
    BY <1>2 DEF UseTicket
  <2>4. Holds(t)' /\ Others(t)
    BY <2>1, <2>2, <2>3, <1>o, <1>w DEF Goto, Waits, TypeOK
  <2> QED
    BY <2>1, <2>3, <2>4, <1>q DEF TicketInv, NoTicketRejected
<1>3. ASSUME NEW t \in Threads, TakeTicket(t) PROVE TicketInv'
  <2>1. AllLive /\ ~rejected'
    BY <1>3, <1>h DEF TakeTicket, TicketInv, NoTicketRejected
  <2>2. CASE /\ tickets # <<>> /\ tickets' = Tail(tickets)
             /\ hand' = [hand EXCEPT ![t] = Head(tickets).srv]
             /\ Goto(t, IF Refreshing(t) THEN "sent" ELSE "ask")
    <3>1. AllGood' /\ AllLive' /\ Head(tickets).srv + MaxLatency > MinTicketTtl
      BY <2>1, <2>2, <1>w, TakeGood
    <3>2. hand'[t] = Head(tickets).srv /\ \A u \in Threads \ {t} : hand'[u] = hand[u]
      BY <2>2, <1>w DEF Waits, TypeOK
    <3>3. waited'[t] = 0 /\ pc'[t] \in {"sent", "ask"}
      BY <2>2, <1>w DEF Goto, Waits, TypeOK
    <3>4. hand'[t] \in Nat
      <4>1. hand' \in [Threads -> 0 .. Ttl]
        BY <1>w DEF Waits, TypeOK
      <4> QED
        BY <4>1, Constants
    <3>5. Holds(t)'
      BY <3>1, <3>2, <3>3, <3>4
    <3>6. Others(t)
      BY <2>2, <3>1, <3>2, <1>o
    <3> QED
      BY <2>1, <3>1, <3>5, <3>6, <1>q
  <2>3. CASE tickets' = tickets /\ hand' = hand /\ Goto(t, "undefined")
    <3>1. AllGood' /\ AllLive'
      BY <2>1, <2>3, <1>w DEF AllGood, AllLive, Good
    <3>2. Holds(t)' /\ Others(t)
      BY <2>3, <3>1, <1>o, <1>w DEF Goto, Waits, TypeOK
    <3> QED
      BY <2>1, <3>1, <3>2, <1>q
  <2> QED
    BY <1>3, <2>2, <2>3 DEF TakeTicket
<1>4. ASSUME NEW t \in Threads, CallAsk(t) PROVE TicketInv'
  <2>1. AllGood' /\ AllLive' /\ ~rejected' /\ hand' = hand /\ Goto(t, "sent")
    BY <1>4, <1>w, DropGood DEF CallAsk, TicketInv, NoTicketRejected
  <2>2. hand[t] + MaxLatency > MinTicketTtl /\ hand[t] \in Nat
    BY <1>4, <1>h, <1>w, Constants DEF CallAsk, Waits, TypeOK
  <2>3. pc'[t] = "sent" /\ waited'[t] = 0
    BY <2>1, <1>w DEF Goto, Waits, TypeOK
  <2>4. Holds(t)'
    BY <2>1, <2>2, <2>3
  <2>5. Others(t)
    BY <2>1, <1>o
  <2> QED
    BY <2>1, <2>4, <2>5, <1>q
<1>5. ASSUME NEW t \in Threads, ServerAnswer(t) PROVE TicketInv'
  <2>1. AllGood' /\ (AllLive => AllLive') /\ ~rejected' /\ hand' = hand /\ Goto(t, "answered")
    BY <1>5, <1>w DEF ServerAnswer, AllGood, AllLive, Good, TicketInv, NoTicketRejected
  <2>2. Holds(t)' /\ Others(t)
    BY <2>1, <1>o, <1>w DEF Goto, Waits, TypeOK
  <2> QED
    BY <2>1, <2>2, <1>q
<1>6. ASSUME NEW t \in Threads, ServerReject(t) PROVE FALSE
  <2>1. pc[t] = "sent" /\ hand[t] = 0 /\ waited[t] <= MaxLatency /\ waited[t] \in Nat
    BY <1>6, <1>w DEF ServerReject, Waits, NetworkPc
  <2>2. waited[t] + MaxLatency > MinTicketTtl
    BY <2>1, <1>h, Constants
  <2> QED
    BY <2>1, <2>2, Constants DEF Fits
<1>7. ASSUME NEW t \in Threads, RequestLost(t) PROVE TicketInv'
  <2>1. PICK to \in {"clear", "loopTest", "idle", "destroy", "retrySleep"} : Goto(t, to)
    BY <1>7 DEF RequestLost, Failed, AfterRequest
  <2>2. tickets' = tickets /\ ~rejected' /\ \A u \in Threads \ {t} : hand'[u] = hand[u]
    BY <1>7, <1>w DEF RequestLost, Failed, Forget, TicketInv, NoTicketRejected, Waits, TypeOK
  <2>3. AllGood' /\ (AllLive => AllLive')
    BY <1>w, <2>2 DEF AllGood, AllLive, Good
  <2>4. Holds(t)'
    BY <2>1, <1>w DEF Goto, Waits, TypeOK
  <2>5. Others(t)
    BY <2>1, <2>2, <2>3, <1>o
  <2> QED
    BY <2>2, <2>3, <2>4, <2>5, <1>q
<1>8. ASSUME NEW t \in Threads, RequestDone(t) PROVE TicketInv'
  <2>1. PICK to \in {"clear", "loopTest", "idle"} : Goto(t, to)
    BY <1>8 DEF RequestDone, AfterRequest
  <2>2. ~rejected' /\ \A u \in Threads \ {t} : hand'[u] = hand[u]
    BY <1>8, <1>w DEF RequestDone, Forget, TicketInv, NoTicketRejected, Waits, TypeOK
  <2>3. AllGood' /\ (AllLive => AllLive')
    <3>1. waited[t] \in 0 .. MaxLatency
      BY <1>8, <1>w, Constants DEF RequestDone, Waits, NetworkPc
    <3>2. CASE SaveTickets(Ttl - waited[t])
      BY <3>1, <3>2, <1>w, SaveGood
    <3>3. CASE tickets' = tickets
      BY <3>3, <1>w DEF AllGood, AllLive, Good
    <3> QED
      BY <1>8, <3>2, <3>3 DEF RequestDone
  <2>4. Holds(t)'
    BY <2>1, <1>w DEF Goto, Waits, TypeOK
  <2>5. Others(t)
    BY <2>1, <2>2, <2>3, <1>o
  <2> QED
    BY <2>2, <2>3, <2>4, <2>5, <1>q
<1>9. ASSUME NEW t \in Threads, DestroyClear(t) PROVE TicketInv'
  <2>1. tickets' = <<>> /\ hand' = hand /\ ~rejected' /\ Goto(t, "ended")
    BY <1>9 DEF DestroyClear, TicketInv, NoTicketRejected
  <2>2. AllGood' /\ AllLive'
    BY <2>1 DEF AllGood, AllLive
  <2>3. Holds(t)' /\ Others(t)
    BY <2>1, <2>2, <1>o, <1>w DEF Goto, Waits, TypeOK
  <2> QED
    BY <2>1, <2>2, <2>3, <1>q
<1>10. ASSUME LoopTest \/ LoopCount \/ LoopSleepEnds \/ LoopSleepCancelled PROVE TicketInv'
  <2>1. PICK to \in {"ended", "loopCount", "sleep", "use", "loopTest", "terminate"} :
          Goto(Loop, to)
    BY <1>10 DEF LoopTest, LoopCount, LoopSleepEnds, LoopSleepCancelled
  <2>2. hand' = hand /\ ~rejected' /\ (tickets' = tickets \/ DropExpired)
    BY <1>10 DEF LoopTest, LoopCount, LoopSleepEnds, LoopSleepCancelled, TicketInv,
                 NoTicketRejected
  <2>3. AllGood' /\ (AllLive => AllLive')
    BY <2>2, <1>w, DropGood DEF AllGood, AllLive, Good
  <2>4. Loop \in Threads
    BY Constants
  <2>5. Holds(Loop)'
    BY <2>1, <2>4, <1>w DEF Goto, Waits, TypeOK
  <2>6. Others(Loop)
    BY <2>1, <2>2, <2>3, <2>4, <1>o
  <2> QED
    BY <2>2, <2>3, <2>4, <2>5, <2>6, <1>q
<1>11. ASSUME Tick PROVE TicketInv'
  <2>1. AllGood'
    BY <1>11, <1>w, AgeGood
  <2>2. ASSUME NEW t \in Threads PROVE Holds(t)'
    <3>1. pc'[t] = pc[t] /\ waited[t] < MaxWait(t) /\ waited[t] \in Nat
      BY <1>11, <1>w DEF Tick, Waits
    <3>2. pc[t] \notin {"take", "ask"}
      <4>1. pc[t] \in LocalPc => MaxWait(t) = 0
        BY DEF MaxWait, LocalPc, NetworkPc
      <4> QED
        BY <3>1, <4>1 DEF LocalPc
    <3>3. CASE pc[t] = "sent"
      <4>1. waited'[t] = waited[t] + 1
        BY <1>11, <3>3 DEF Tick, TimedPc, NetworkPc
      <4>2. hand'[t] >= hand[t] - 1 /\ hand[t] \in Nat /\ hand'[t] \in Nat
        BY <1>11, <1>w, Constants DEF Tick, Less, Waits, TypeOK
      <4>3. hand[t] + waited[t] + MaxLatency > MinTicketTtl
        BY <3>3, <1>h
      <4>4. hand'[t] + waited'[t] + MaxLatency > MinTicketTtl
        BY <3>1, <4>1, <4>2, <4>3, Constants
      <4> QED
        BY <3>1, <3>3, <4>4
    <3> QED
      BY <3>1, <3>2, <3>3
  <2>3. ~rejected'
    BY <1>11 DEF Tick, TicketInv, NoTicketRejected
  <2> QED
    BY <1>w, <2>1, <2>2, <2>3 DEF TicketInv, NoTicketRejected
<1>12. ASSUME UNCHANGED vars PROVE TicketInv'
  BY <1>12, <1>w DEF vars, TicketInv, AllGood, AllLive, Good, NoTicketRejected
<1> QED
  BY <1>1, <1>2, <1>3, <1>4, <1>5, <1>6, <1>7, <1>8, <1>9, <1>10, <1>11, <1>12 DEF Next

(* When the way of an answer and of a request fit into _min_ticket_ttl,    *)
(* the server never refuses a ticket that TicketsManager::useTicket has    *)
(* handed out: for any number of callers, with lost messages, with         *)
(* destroy(), and for any values of the other constants.                   *)
THEOREM NoTicketRejectedAlways ==
  ASSUME Fits
  PROVE  Spec => []NoTicketRejected
<1>1. Init => TicketInv
  BY InitTicketInv
<1>2. TicketInv /\ [Next]_vars => TicketInv'
  BY TicketInvStep
<1>3. TicketInv => NoTicketRejected
  BY DEF TicketInv
<1> QED
  BY <1>1, <1>2, <1>3, PTL DEF Spec

-----------------------------------------------------------------------------

(* The time left of a ticket is a number.                                  *)
LEMMA ExpNat ==
  ASSUME tickets \in Seq(Ticket), NEW i \in 1 .. Len(tickets)
  PROVE  tickets[i].exp \in Nat
<1>1. tickets[i] \in Ticket
  OBVIOUS
<1> QED
  BY <1>1, Constants DEF Ticket

(* dropExpiredTickets keeps the order and all of the newest tickets, which *)
(* are not expired.                                                        *)
LEMMA DropOrdered ==
  ASSUME tickets \in Seq(Ticket), ticketsTtl \in Nat, ticketsTtl > 0,
         Ordered, DropExpired, ticketsTtl' = ticketsTtl
  PROVE  /\ Ordered'
         /\ \A k \in Nat : Newest(k) => Newest(k)'
         /\ TICKETS_MIN_COUNT <= Len(tickets') => Newest(TICKETS_MIN_COUNT)'
<1>1. PICK n \in 0 .. Len(tickets) :
        /\ Len(tickets') = Len(tickets) - n
        /\ \A i \in 1 .. n : tickets[i].exp = 0
        /\ \A i \in 1 .. Len(tickets') : tickets'[i] = tickets[i + n] /\ tickets'[i].exp > 0
  BY Dropped
<1>2. tickets' \in Seq(Ticket) /\ Len(tickets) \in Nat /\ Len(tickets') \in Nat
  BY Dropped
<1>3. \A i \in 1 .. Len(tickets') : i + n \in 1 .. Len(tickets)
  BY <1>1, <1>2
<1>4. ASSUME NEW k \in Nat, Newest(k) PROVE Newest(k)'
  <2>1. n <= Len(tickets) - k
    BY <1>1, <1>2, <1>4 DEF Newest
  <2>2. ASSUME NEW i \in 1 .. Len(tickets'), i > Len(tickets') - k
        PROVE  tickets'[i].exp = ticketsTtl'
    <3>1. i + n \in 1 .. Len(tickets) /\ i + n > Len(tickets) - k
      BY <1>1, <1>2, <1>3, <2>2
    <3> QED
      BY <1>1, <1>4, <3>1 DEF Newest
  <2> QED
    BY <1>1, <1>2, <2>1, <2>2 DEF Newest
<1>5. ASSUME NEW i \in 1 .. Len(tickets'), NEW j \in 1 .. Len(tickets'), i <= j
      PROVE  tickets'[i].exp <= tickets'[j].exp
  <2>1. i + n \in 1 .. Len(tickets) /\ j + n \in 1 .. Len(tickets) /\ i + n <= j + n
    BY <1>2, <1>3, <1>5
  <2>2. tickets[i + n].exp <= tickets[j + n].exp
    BY <2>1 DEF Ordered
  <2> QED
    BY <1>1, <2>2
<1>6. ASSUME tickets' # <<>> PROVE tickets'[Len(tickets')].exp = ticketsTtl'
  <2>1. Len(tickets') > 0
    BY <1>2, <1>6
  <2> QED
    BY <1>1, <1>2, <2>1 DEF Ordered
<1>7. CASE tickets = <<>>
  <2>1. Len(tickets') = 0
    BY <1>1, <1>7
  <2> QED
    BY <1>2, <1>4, <1>5, <2>1, Constants DEF Ordered
<1>8. CASE tickets # <<>> /\ tickets[1].exp # ticketsTtl
  <2>1. Newest(TICKETS_MIN_COUNT)'
    BY <1>4, <1>8, Constants DEF Ordered
  <2> QED
    BY <1>4, <1>5, <1>6, <2>1 DEF Ordered
<1>9. CASE tickets # <<>> /\ tickets[1].exp = ticketsTtl
  <2>1. ASSUME NEW i \in 1 .. Len(tickets) PROVE tickets[i].exp = ticketsTtl
    <3>1. 1 \in 1 .. Len(tickets) /\ Len(tickets) \in 1 .. Len(tickets)
      BY <1>2
    <3>2. tickets[1].exp <= tickets[i].exp /\ tickets[i].exp <= tickets[Len(tickets)].exp
      BY <3>1, <1>2 DEF Ordered
    <3>3. tickets[i].exp \in Nat
      BY ExpNat
    <3> QED
      BY <1>9, <3>2, <3>3 DEF Ordered
  <2>2. \A i \in 1 .. Len(tickets') : tickets'[i].exp = ticketsTtl'
    BY <1>1, <1>3, <2>1
  <2>3. TICKETS_MIN_COUNT <= Len(tickets') => Newest(TICKETS_MIN_COUNT)'
    BY <2>2 DEF Newest
  <2>4. tickets' # <<>> => tickets'[1].exp = ticketsTtl'
    BY <1>2, <2>2
  <2> QED
    BY <1>4, <1>5, <1>6, <2>3, <2>4 DEF Ordered
<1> QED
  BY <1>7, <1>8, <1>9

(* useTicket takes an older ticket, or one of the newest when these are    *)
(* all.                                                                    *)
LEMMA TakeOrdered ==
  ASSUME tickets \in Seq(Ticket), ticketsTtl \in Nat, Ordered, tickets # <<>>,
         tickets' = Tail(tickets), ticketsTtl' = ticketsTtl
  PROVE  /\ Ordered'
         /\ \A k \in 1 .. TICKETS_MIN_COUNT : Newest(k) => Newest(k - 1)'
<1>1. /\ tickets' \in Seq(Ticket) /\ Len(tickets) \in Nat \ {0}
      /\ Len(tickets') = Len(tickets) - 1
      /\ \A i \in 1 .. Len(tickets') : tickets'[i] = tickets[i + 1]
      /\ \A i \in 1 .. Len(tickets') : i + 1 \in 1 .. Len(tickets)
  BY Taken
<1>2. ASSUME NEW i \in 1 .. Len(tickets'), NEW j \in 1 .. Len(tickets'), i <= j
      PROVE  tickets'[i].exp <= tickets'[j].exp
  BY <1>1, <1>2 DEF Ordered
<1>3. ASSUME tickets' # <<>> PROVE tickets'[Len(tickets')].exp = ticketsTtl'
  <2>1. Len(tickets') > 0
    BY <1>1, <1>3
  <2> QED
    BY <1>1, <2>1 DEF Ordered
<1>4. CASE tickets[1].exp # ticketsTtl
  <2>1. Newest(TICKETS_MIN_COUNT)
    BY <1>4 DEF Ordered
  <2>2. TICKETS_MIN_COUNT <= Len(tickets) - 1
    BY <1>1, <1>4, <2>1, Constants DEF Newest
  <2>3. Newest(TICKETS_MIN_COUNT)'
    BY <1>1, <2>1, <2>2, Constants DEF Newest
  <2>4. \A k \in 1 .. TICKETS_MIN_COUNT : Newest(k - 1)'
    BY <1>1, <2>3, Constants DEF Newest
  <2> QED
    BY <1>2, <1>3, <2>3, <2>4 DEF Ordered
<1>5. CASE tickets[1].exp = ticketsTtl
  <2>1. ASSUME NEW i \in 1 .. Len(tickets) PROVE tickets[i].exp = ticketsTtl
    <3>1. 1 \in 1 .. Len(tickets) /\ Len(tickets) \in 1 .. Len(tickets)
      BY <1>1
    <3>2. tickets[1].exp <= tickets[i].exp /\ tickets[i].exp <= tickets[Len(tickets)].exp
      BY <3>1, <1>1 DEF Ordered
    <3>3. tickets[i].exp \in Nat
      BY ExpNat
    <3> QED
      BY <1>5, <3>2, <3>3 DEF Ordered
  <2>2. \A i \in 1 .. Len(tickets') : tickets'[i].exp = ticketsTtl'
    BY <1>1, <2>1
  <2>3. \A k \in 1 .. TICKETS_MIN_COUNT : Newest(k) => Newest(k - 1)'
    BY <1>1, <2>2 DEF Newest
  <2>4. tickets' # <<>> => 1 \in 1 .. Len(tickets')
    BY <1>1
  <2> QED
    BY <1>2, <1>3, <2>2, <2>3, <2>4 DEF Ordered
<1> QED
  BY <1>4, <1>5

(* After saveTickets there are as many of the newest tickets as can be     *)
(* missed.                                                                 *)
LEMMA SaveOrdered ==
  ASSUME tickets \in Seq(Ticket), ticketsTtl \in Nat, ticketsTtl <= Ttl - MinTicketTtl,
         Ordered, NEW srv \in 0 .. Ttl, SaveTickets(srv)
  PROVE  /\ Ordered' /\ Newest(TICKETS_MIN_COUNT)'
         /\ ticketsTtl' = Ttl - MinTicketTtl
<1>1. ticketsTtl' = Ttl - MinTicketTtl
  BY Constants DEF SaveTickets, NewTicketsTtl
<1>2. /\ tickets' \in Seq(Ticket) /\ Len(tickets) \in Nat
      /\ Len(tickets') = Len(tickets) + TICKETS_MAX_COUNT
      /\ \A i \in 1 .. Len(tickets) : tickets'[i] = tickets[i]
      /\ \A i \in 1 .. Len(tickets') : i > Len(tickets) => tickets'[i].exp = ticketsTtl'
  <2>1. \A i \in 1 .. Len(tickets') : i > Len(tickets) =>
          tickets'[i] = [exp |-> Ttl - MinTicketTtl, srv |-> srv]
    BY Saved
  <2>2. \A i \in 1 .. Len(tickets') : i > Len(tickets) => tickets'[i].exp = ticketsTtl'
    BY <1>1, <2>1
  <2>3. /\ tickets' \in Seq(Ticket) /\ Len(tickets') = Len(tickets) + TICKETS_MAX_COUNT
        /\ \A i \in 1 .. Len(tickets) : tickets'[i] = tickets[i]
    BY Saved
  <2> QED
    BY <2>2, <2>3
<1>3. ASSUME NEW i \in 1 .. Len(tickets)
      PROVE  tickets[i].exp <= ticketsTtl' /\ tickets[i].exp \in Nat
  <2>1. Len(tickets) \in 1 .. Len(tickets) /\ i <= Len(tickets) /\ tickets # <<>>
    BY <1>2
  <2>2. tickets[i].exp <= ticketsTtl
    BY <2>1 DEF Ordered
  <2>3. tickets[i].exp \in Nat
    BY ExpNat
  <2> QED
    BY <1>1, <2>2, <2>3, Constants
<1>4. Newest(TICKETS_MIN_COUNT)'
  BY <1>2, Constants DEF Newest
<1>5. ASSUME NEW i \in 1 .. Len(tickets'), NEW j \in 1 .. Len(tickets'), i <= j
      PROVE  tickets'[i].exp <= tickets'[j].exp
  <2>1. CASE j <= Len(tickets)
    BY <1>2, <1>5, <2>1 DEF Ordered
  <2>2. CASE j > Len(tickets) /\ i <= Len(tickets)
    BY <1>2, <1>3, <1>5, <2>2
  <2>3. CASE j > Len(tickets) /\ i > Len(tickets)
    BY <1>1, <1>2, <1>5, <2>3, Constants
  <2> QED
    BY <1>2, <2>1, <2>2, <2>3
<1>6. Len(tickets') \in 1 .. Len(tickets') /\ Len(tickets') > Len(tickets)
  BY <1>2, Constants
<1>7. tickets'[Len(tickets')].exp = ticketsTtl'
  BY <1>2, <1>6
<1> QED
  BY <1>1, <1>4, <1>5, <1>7 DEF Ordered

(* Time keeps the order and the newest tickets.                            *)
LEMMA AgeOrdered ==
  ASSUME tickets \in Seq(Ticket), ticketsTtl \in Nat, Ordered, Tick
  PROVE  Ordered' /\ \A k \in Nat : Newest(k) => Newest(k)'
<1>1. /\ tickets' \in Seq(Ticket) /\ Len(tickets') = Len(tickets) /\ Len(tickets) \in Nat
      /\ \A i \in 1 .. Len(tickets) : tickets'[i] = Older(tickets[i])
  BY Aged
<1>2. \A i \in 1 .. Len(tickets) :
        tickets[i].exp \in Nat /\ tickets'[i].exp = Less(tickets[i].exp)
  <2>1. ASSUME NEW k \in Ticket PROVE k.exp \in Nat /\ Older(k).exp = Less(k.exp)
    BY Constants DEF Ticket, Older, Less
  <2> QED
    BY <1>1, <2>1
<1>3. ticketsTtl' = Less(ticketsTtl)
  BY DEF Tick
<1>4. ASSUME NEW k \in Nat, Newest(k) PROVE Newest(k)'
  BY <1>1, <1>2, <1>3, <1>4 DEF Newest
<1>5. ASSUME NEW i \in 1 .. Len(tickets'), NEW j \in 1 .. Len(tickets'), i <= j
      PROVE  tickets'[i].exp <= tickets'[j].exp
  <2>1. tickets[i].exp <= tickets[j].exp
    BY <1>1, <1>5 DEF Ordered
  <2>2. /\ tickets[i].exp \in Nat /\ tickets'[i].exp = Less(tickets[i].exp)
        /\ tickets[j].exp \in Nat /\ tickets'[j].exp = Less(tickets[j].exp)
    BY <1>1, <1>2
  <2> QED
    BY <2>1, <2>2 DEF Less
<1>6. CASE tickets = <<>>
  <2>1. tickets' = <<>>
    BY <1>1, <1>6
  <2> QED
    BY <1>4, <1>5, <2>1 DEF Ordered
<1>7. CASE tickets # <<>>
  <2>1. 1 \in 1 .. Len(tickets) /\ Len(tickets) \in 1 .. Len(tickets)
    BY <1>1, <1>7
  <2>2. tickets'[Len(tickets')].exp = ticketsTtl'
    BY <1>1, <1>2, <1>3, <1>7, <2>1 DEF Ordered
  <2>3. tickets'[1].exp # ticketsTtl' => Newest(TICKETS_MIN_COUNT)'
    BY <1>2, <1>3, <1>4, <1>7, <2>1, Constants DEF Ordered
  <2> QED
    BY <1>4, <1>5, <2>2, <2>3 DEF Ordered
<1> QED
  BY <1>6, <1>7

-----------------------------------------------------------------------------

(* The types that SessionInv gives.                                        *)
LEMMA Typed ==
  ASSUME SessionInv
  PROVE  /\ Waits /\ TypeOK /\ TicketInv
         /\ tickets \in Seq(Ticket) /\ Len(tickets) \in Nat /\ ticketsTtl \in Nat
         /\ waited[Loop] \in Nat
BY Constants DEF SessionInv, TicketInv, Waits, TypeOK

(* The handshake establishes SessionInv.                                   *)
LEMMA InitSessionInv ==
  ASSUME InTime
  PROVE  Init => SessionInv
<1> SUFFICES ASSUME Init PROVE SessionInv
  OBVIOUS
<1>1. TicketInv
  BY InitTicketInv
<1>2. Quiet /\ LoopRuns /\ CallsLock /\ ~sessionLost
  BY Constants DEF Init, Quiet, LoopRuns, CallsLock, NetworkPc
<1>3. Renewed
  BY Constants DEF Init, Renewed, InTime
<1>4. /\ Len(tickets) = TICKETS_MAX_COUNT
      /\ \A i \in 1 .. Len(tickets) : tickets[i].exp = ticketsTtl
  BY Constants DEF Init, NewTickets
<1>5. ticketsTtl \in Nat
  BY Constants DEF Init
<1>6. \A k \in 0 .. 2 : Newest(TICKETS_MIN_COUNT - k)
  BY <1>4, Constants DEF Newest
<1>7. Ordered
  BY <1>4, <1>5, <1>6, Constants DEF Ordered, Newest
<1> QED
  BY <1>1, <1>2, <1>3, <1>6, <1>7 DEF SessionInv, Enough

(* The newest tickets are alive, and there is one to take unless a call    *)
(* and the loop both have a request under way.                             *)
LEMMA Supply ==
  ASSUME InTime, SessionInv
  PROVE  /\ ticketsTtl > 0
         /\ Outstanding \in 0 .. 2
         /\ Outstanding <= 1 => Newest(TICKETS_MIN_COUNT - 1) /\ tickets # <<>>
<1>1. ticketsTtl > 0
  <2>1. pc[Loop] \in NetworkPc => waited[Loop] <= MaxLatency
    BY Typed, Constants DEF Waits
  <2> QED
    BY <2>1, Typed, Constants DEF SessionInv, Renewed, LoopRuns, InTime, NetworkPc
<1>2. Outstanding \in 0 .. 2
  BY DEF Outstanding
<1>3. ASSUME Outstanding <= 1 PROVE Newest(TICKETS_MIN_COUNT - 1) /\ tickets # <<>>
  <2>1. Newest(TICKETS_MIN_COUNT - 1)
    BY <1>3 DEF SessionInv, Enough
  <2>2. Len(tickets) >= 1
    BY <2>1, Typed, Constants DEF Newest, InTime
  <2> QED
    BY <2>1, <2>2
<1> QED
  BY <1>1, <1>2, <1>3

(* With enough of the newest tickets, nothing is missing.                  *)
LEMMA AllRestored ==
  ASSUME tickets' \in Seq(Ticket), Newest(TICKETS_MIN_COUNT)'
  PROVE  Enough'
<1>1. \A k \in 0 .. 2 : Newest(TICKETS_MIN_COUNT - k)'
  BY Constants DEF Newest
<1> QED
  BY <1>1 DEF Enough

(* A step that takes no ticket keeps Enough.                               *)
LEMMA EnoughKept ==
  ASSUME InTime, Enough, Outstanding \in 0 .. 2, Outstanding' >= Outstanding,
         Outstanding' \in 0 .. 2, \A k \in Nat : Newest(k) => Newest(k)'
  PROVE  Enough'
BY Constants DEF Enough, InTime

(* A step that takes one ticket for a request that will bring new ones     *)
(* keeps Enough.                                                           *)
LEMMA EnoughTaken ==
  ASSUME InTime, Enough, Outstanding \in 0 .. 2, Outstanding' = Outstanding + 1,
         \A k \in 1 .. TICKETS_MIN_COUNT : Newest(k) => Newest(k - 1)'
  PROVE  Enough'
<1> SUFFICES ASSUME NEW k \in 0 .. 2, Outstanding' <= k
             PROVE  Newest(TICKETS_MIN_COUNT - k)'
  BY DEF Enough
<1>1. k - 1 \in 0 .. 2 /\ Outstanding <= k - 1
  OBVIOUS
<1>2. Newest(TICKETS_MIN_COUNT - (k - 1))
  BY <1>1 DEF Enough
<1>3. TICKETS_MIN_COUNT - (k - 1) \in 1 .. TICKETS_MIN_COUNT
  BY <1>1, Constants DEF InTime
<1>4. Newest(TICKETS_MIN_COUNT - (k - 1) - 1)'
  BY <1>2, <1>3
<1>5. TICKETS_MIN_COUNT - (k - 1) - 1 = TICKETS_MIN_COUNT - k
  BY Constants
<1> QED
  BY <1>4, <1>5

(* A step of another thread keeps Renewed: saveTickets never lowers        *)
(* _tickets_ttl.                                                           *)
LEMMA RenewedKept ==
  ASSUME Renewed, pc'[Loop] = pc[Loop], waited'[Loop] = waited[Loop],
         ticketsTtl \in Nat, ticketsTtl' \in Nat, waited[Loop] \in Nat,
         ticketsTtl' >= ticketsTtl, ticketsTtl' <= Ttl - MinTicketTtl
  PROVE  Renewed'
BY Constants DEF Renewed

(* Every step keeps SessionInv.                                            *)
LEMMA SessionInvStep ==
  ASSUME Fits, InTime, SessionInv, [Next]_vars
  PROVE  SessionInv'
<1> USE DEF request, flags, store
<1>i. TicketInv'
  BY TicketInvStep DEF SessionInv
<1>w. Waits' /\ tickets' \in Seq(Ticket) /\ ticketsTtl' \in Nat
  BY <1>i, Constants DEF TicketInv, Waits, TypeOK
<1>t. /\ pc \in [Threads -> Pcs] /\ asks \in [Threads -> BOOLEAN]
      /\ requestMutex \in Threads \cup {None} /\ waited \in [Threads -> Nat]
  BY Typed DEF TypeOK, Waits
<1>c. Quiet /\ LoopRuns /\ CallsLock /\ Renewed /\ Ordered /\ Enough /\ ~sessionLost
  BY DEF SessionInv
<1>r. ASSUME NEW t \in Threads
      PROVE  /\ leaving[t] = FALSE /\ Refreshing(t) = (t = Loop)
             /\ AfterRequest(t) = IF t = Loop THEN "loopTest" ELSE "idle"
  BY <1>c DEF Quiet, Refreshing, AfterRequest
<1>n. ASSUME NEW t \in Threads, pc[t] \in {"use", "take"} \/ (t = Loop /\ pc[t] = "loopCount")
      PROVE  Outstanding <= 1 /\ tickets # <<>> /\ Newest(TICKETS_MIN_COUNT - 1)
  <2>1. CASE t = Loop
    BY <1>n, <2>1, Supply DEF Outstanding, LoopOut, NetworkPc
  <2>2. CASE t \in Callers
    <3>1. requestMutex = t /\ pc[t] \notin {"ask", "sent", "answered"}
      BY <1>c, <1>n, <2>2, Constants DEF CallsLock
    <3>2. ~CallOut
      BY <3>1 DEF CallOut
    <3> QED
      BY <3>2, Supply DEF Outstanding
  <2> QED
    BY <2>1, <2>2, Constants
<1>q. ASSUME Quiet', LoopRuns', CallsLock', Renewed', Ordered', Enough', ~sessionLost'
      PROVE  SessionInv'
  BY <1>i, <1>q DEF SessionInv
<1>o. Outstanding \in 0 .. 2 /\ Outstanding' \in 0 .. 2
  BY DEF Outstanding
<1>u. ASSUME tickets' = tickets, ticketsTtl' = ticketsTtl, Outstanding' >= Outstanding
      PROVE  Ordered' /\ Enough'
  <2>1. Ordered' /\ \A k \in Nat : Newest(k) => Newest(k)'
    BY <1>c, <1>u DEF Ordered, Newest
  <2> QED
    BY <2>1, <1>c, <1>o, <1>u, EnoughKept
<1>d. ASSUME DropExpired, ticketsTtl' = ticketsTtl
      PROVE  /\ Ordered' /\ \A k \in Nat : Newest(k) => Newest(k)'
             /\ TICKETS_MIN_COUNT <= Len(tickets') => Newest(TICKETS_MIN_COUNT)'
  BY <1>c, <1>d, Supply, Typed, DropOrdered
<1>e. ASSUME DropExpired, ticketsTtl' = ticketsTtl, Outstanding' >= Outstanding
      PROVE  Ordered' /\ Enough'
  BY <1>c, <1>d, <1>e, <1>o, EnoughKept
<1>v. ASSUME pc'[Loop] = pc[Loop], waited'[Loop] = waited[Loop], ticketsTtl' = ticketsTtl
      PROVE  Renewed'
  BY <1>c, <1>v, Typed, RenewedKept DEF Renewed
<1>1. ASSUME NEW t \in Threads, CallLock(t) PROVE SessionInv'
  <2>1. t \in Callers /\ pc[t] = "idle" /\ requestMutex = None
    BY <1>1, <1>c, Constants DEF CallLock, LoopRuns, CallsLock
  <2>2. Quiet' /\ LoopRuns' /\ CallsLock' /\ ~sessionLost'
    BY <1>1, <2>1, <1>c, <1>t, Constants DEF CallLock, Goto, Quiet, LoopRuns, CallsLock, NetworkPc
  <2>3. Outstanding' = Outstanding
    BY <1>1, <2>1, <1>t, Constants DEF CallLock, Goto, Outstanding, CallOut, LoopOut
  <2>4. Renewed' /\ Ordered' /\ Enough'
    BY <1>1, <2>1, <2>3, <1>o, <1>t, <1>u, <1>v, Constants DEF CallLock, Goto
  <2> QED
    BY <2>2, <2>4, <1>q
<1>2. ASSUME NEW t \in Threads, UseTicket(t) PROVE SessionInv'
  <2>1. Newest(TICKETS_MIN_COUNT - 1)' /\ Len(tickets') \in Nat
    BY <1>2, <1>d, <1>n, <1>w, Constants DEF UseTicket, InTime
  <2>2. tickets' # <<>>
    BY <2>1, Constants DEF Newest, InTime
  <2>3. Goto(t, "take") /\ UNCHANGED <<requestMutex, sessionLost>>
    BY <1>2, <2>2 DEF UseTicket
  <2>4. Quiet' /\ LoopRuns' /\ CallsLock' /\ ~sessionLost'
    BY <1>2, <2>3, <1>c, <1>t, Constants
       DEF UseTicket, Goto, Quiet, LoopRuns, CallsLock, NetworkPc
  <2>5. Outstanding' = Outstanding
    BY <1>2, <2>3, <1>t, Constants
       DEF UseTicket, Goto, Outstanding, CallOut, LoopOut, NetworkPc
  <2>6. Ordered' /\ Enough'
    BY <1>2, <2>5, <1>e, <1>o DEF UseTicket
  <2>7. Renewed'
    <3>1. CASE t = Loop
      BY <1>2, <2>3, <3>1, <1>c, <1>t DEF UseTicket, Goto, Renewed
    <3>2. CASE t # Loop
      BY <1>2, <2>3, <3>2, <1>t, <1>v, Constants DEF UseTicket, Goto
    <3> QED
      BY <3>1, <3>2
  <2> QED
    BY <2>4, <2>6, <2>7, <1>q
<1>3. ASSUME NEW t \in Threads, TakeTicket(t) PROVE SessionInv'
  <2>1. tickets # <<>> /\ pc[t] = "take"
    BY <1>3, <1>n DEF TakeTicket
  <2>2. /\ tickets' = Tail(tickets) /\ asks' = [asks EXCEPT ![t] = t = Loop]
        /\ Goto(t, IF t = Loop THEN "sent" ELSE "ask")
    BY <1>3, <2>1, <1>r DEF TakeTicket
  <2>3. Quiet' /\ LoopRuns' /\ CallsLock' /\ ~sessionLost'
    BY <1>3, <2>1, <2>2, <1>c, <1>t, Constants
       DEF TakeTicket, Goto, Quiet, LoopRuns, CallsLock, NetworkPc
  <2>4. Outstanding' = Outstanding + 1
    <3>1. CASE t = Loop
      BY <1>3, <2>1, <2>2, <3>1, <1>t, Constants
         DEF TakeTicket, Goto, Outstanding, CallOut, LoopOut, NetworkPc
    <3>2. CASE t \in Callers
      <4>1. requestMutex = t /\ pc'[t] = "ask" /\ pc'[Loop] = pc[Loop]
        BY <2>1, <2>2, <3>2, <1>c, <1>t, Constants DEF CallsLock, Goto
      <4>2. ~CallOut /\ CallOut'
        BY <1>3, <2>1, <3>2, <4>1 DEF TakeTicket, CallOut
      <4> QED
        BY <4>1, <4>2 DEF Outstanding, LoopOut
    <3> QED
      BY <3>1, <3>2, Constants
  <2>5. Ordered' /\ \A k \in 1 .. TICKETS_MIN_COUNT : Newest(k) => Newest(k - 1)'
    BY <1>3, <2>1, <2>2, <1>c, Typed, TakeOrdered DEF TakeTicket
  <2>6. Enough'
    BY <2>4, <2>5, <1>c, <1>o, EnoughTaken
  <2>7. Renewed'
    <3>1. CASE t = Loop
      BY <1>3, <2>1, <2>2, <3>1, <1>c, <1>t, Typed DEF TakeTicket, Goto, Renewed
    <3>2. CASE t # Loop
      BY <1>3, <2>2, <3>2, <1>t, <1>v, Constants DEF TakeTicket, Goto
    <3> QED
      BY <3>1, <3>2
  <2> QED
    BY <2>3, <2>5, <2>6, <2>7, <1>q
<1>4. ASSUME NEW t \in Threads, CallAsk(t) PROVE SessionInv'
  <2>1. t \in Callers /\ pc[t] = "ask" /\ requestMutex = t /\ t # Loop
    BY <1>4, <1>c, Constants DEF CallAsk, LoopRuns, CallsLock
  <2>2. ShouldAsk(tickets') \in BOOLEAN
    BY DEF ShouldAsk
  <2>3. /\ Goto(t, "sent") /\ asks' = [asks EXCEPT ![t] = ShouldAsk(tickets')]
        /\ requestMutex' = IF ShouldAsk(tickets') THEN t ELSE None
    BY <1>4, <2>1 DEF CallAsk, Release
  <2>4. Quiet' /\ LoopRuns' /\ CallsLock' /\ ~sessionLost'
    BY <1>4, <2>1, <2>2, <2>3, <1>c, <1>t, Constants
       DEF CallAsk, Goto, Quiet, LoopRuns, CallsLock, NetworkPc
  <2>5. Ordered' /\ Enough'
    <3>1. CASE ShouldAsk(tickets')
      <4>1. Outstanding' = Outstanding
        BY <2>1, <2>3, <3>1, <1>t, Constants DEF Goto, Outstanding, CallOut, LoopOut, NetworkPc
      <4> QED
        BY <1>4, <4>1, <1>e, <1>o DEF CallAsk
    <3>2. CASE ~ShouldAsk(tickets')
      <4>1. TICKETS_MIN_COUNT <= Len(tickets')
        BY <3>2, <1>w, Constants DEF ShouldAsk
      <4> QED
        BY <1>4, <4>1, <1>d, <1>w, AllRestored DEF CallAsk
    <3> QED
      BY <3>1, <3>2
  <2>6. Renewed'
    BY <1>4, <2>1, <2>3, <1>t, <1>v, Constants DEF CallAsk, Goto
  <2> QED
    BY <2>4, <2>5, <2>6, <1>q
<1>5. ASSUME NEW t \in Threads, ServerAnswer(t) PROVE SessionInv'
  <2>1. pc[t] = "sent" /\ Goto(t, "answered")
        /\ UNCHANGED <<tickets, ticketsTtl, requestMutex, asks>>
    BY <1>5 DEF ServerAnswer
  <2>2. Quiet' /\ LoopRuns' /\ CallsLock' /\ ~sessionLost'
    BY <1>5, <2>1, <1>c, <1>t, Constants
       DEF ServerAnswer, Goto, Quiet, LoopRuns, CallsLock, NetworkPc
  <2>3. Outstanding' = Outstanding
    BY <2>1, <1>t, Constants DEF Goto, Outstanding, CallOut, LoopOut, NetworkPc
  <2>4. Renewed'
    <3>1. CASE t = Loop
      <4>1. waited[Loop] <= MaxLatency /\ waited'[Loop] = 0 /\ pc'[Loop] = "answered"
        BY <2>1, <3>1, <1>t, Typed DEF Waits, NetworkPc, Goto
      <4> QED
        <5>1. ticketsTtl' > MaxLatency /\ ticketsTtl' <= Ttl - MinTicketTtl
          BY <2>1, <3>1, <4>1, <1>c, Typed, Constants DEF Renewed
        <5> QED
          BY <4>1, <5>1, <1>w DEF Renewed
    <3>2. CASE t # Loop
      BY <2>1, <3>2, <1>t, <1>v, Constants DEF Goto
    <3> QED
      BY <3>1, <3>2
  <2> QED
    BY <2>1, <2>2, <2>3, <2>4, <1>o, <1>q, <1>u
<1>6. ASSUME NEW t \in Threads, ServerReject(t) \/ RequestLost(t) PROVE FALSE
  <2>1. ~RequestLost(t)
    BY DEF RequestLost, InTime
  <2> QED
    BY <1>6, <2>1, <1>i DEF ServerReject, TicketInv, NoTicketRejected
<1>7. ASSUME NEW t \in Threads, RequestDone(t) PROVE SessionInv'
  <2>1. /\ pc[t] = "answered" /\ Goto(t, IF t = Loop THEN "loopTest" ELSE "idle")
        /\ asks' = [asks EXCEPT ![t] = FALSE]
        /\ requestMutex' = IF requestMutex = t THEN None ELSE requestMutex
    BY <1>7, <1>r DEF RequestDone, Forget, Release
  <2>2. Quiet' /\ LoopRuns' /\ CallsLock' /\ ~sessionLost'
    BY <1>7, <2>1, <1>c, <1>t, Constants
       DEF RequestDone, Goto, Quiet, LoopRuns, CallsLock, NetworkPc
  <2>3. Ttl - waited[t] \in 0 .. Ttl
    BY <2>1, <1>t, Typed, Constants DEF Waits, NetworkPc
  <2>4. CASE asks[t]
    <3>1. Ordered' /\ Newest(TICKETS_MIN_COUNT)' /\ ticketsTtl' = Ttl - MinTicketTtl
      BY <1>7, <2>3, <2>4, <1>c, Typed, SaveOrdered DEF RequestDone, Renewed
    <3>2. Enough'
      BY <3>1, <1>w, AllRestored
    <3>3. Renewed'
      <4>1. CASE t = Loop
        BY <2>1, <3>1, <4>1, <1>t, Constants DEF Goto, Renewed, InTime
      <4>2. CASE t # Loop
        <5>1. pc'[Loop] = pc[Loop] /\ waited'[Loop] = waited[Loop]
          BY <2>1, <4>2, <1>t, Constants DEF Goto
        <5>2. ticketsTtl' >= ticketsTtl /\ ticketsTtl' <= Ttl - MinTicketTtl
          BY <3>1, <1>c, <1>w, Typed DEF Renewed
        <5> QED
          BY <5>1, <5>2, <1>c, <1>w, Typed, RenewedKept
      <4> QED
        BY <4>1, <4>2
    <3> QED
      BY <2>2, <3>1, <3>2, <3>3, <1>q
  <2>5. CASE ~asks[t]
    <3>1. t \in Callers /\ t # Loop /\ requestMutex # t
      BY <2>1, <2>5, <1>c, Constants DEF LoopRuns, CallsLock, NetworkPc
    <3>2. UNCHANGED <<tickets, ticketsTtl, requestMutex>>
      BY <1>7, <2>1, <2>5, <3>1 DEF RequestDone
    <3>3. Outstanding' = Outstanding
      BY <2>1, <3>1, <3>2, <1>t, Constants DEF Goto, Outstanding, CallOut, LoopOut
    <3>4. Renewed'
      BY <2>1, <3>1, <3>2, <1>t, <1>v, Constants DEF Goto
    <3> QED
      BY <2>2, <3>2, <3>3, <3>4, <1>o, <1>q, <1>u
  <2> QED
    BY <2>4, <2>5
<1>8. ASSUME NEW t \in Threads, DestroyBegin(t) \/ Destroy(t) \/ DestroyClear(t) PROVE FALSE
  <2>1. pc[t] \notin {"destroy", "clear"}
    BY <1>c, Constants DEF LoopRuns, CallsLock
  <2> QED
    BY <1>8, <2>1 DEF DestroyBegin, Destroy, DestroyClear, InTime
<1>9. ASSUME LoopTest PROVE SessionInv'
  <2>1. PICK to \in {"loopCount", "sleep"} :
          /\ Goto(Loop, to) /\ DropExpired
          /\ to = "sleep" => ~ShouldAsk(tickets')
          /\ UNCHANGED <<ticketsTtl, requestMutex, asks>>
    BY <1>9, <1>c DEF LoopTest, Quiet
  <2>2. Quiet' /\ LoopRuns' /\ CallsLock' /\ ~sessionLost'
    BY <1>9, <2>1, <1>c, <1>t, Constants
       DEF LoopTest, Goto, Quiet, LoopRuns, CallsLock, NetworkPc
  <2>3. Outstanding' = Outstanding
    BY <1>9, <2>1, <1>t, Constants DEF LoopTest, Goto, Outstanding, CallOut, LoopOut, NetworkPc
  <2>4. pc'[Loop] = to /\ waited'[Loop] = 0 /\ pc[Loop] = "loopTest"
    BY <1>9, <2>1, <1>t, Constants DEF LoopTest, Goto
  <2>5. to = "sleep" => ticketsTtl >= TtlThreshold
    BY <2>1, Typed, Constants DEF ShouldAsk
  <2>6. Renewed'
    BY <2>1, <2>4, <2>5, <1>c, Typed, Constants DEF Renewed
  <2> QED
    BY <2>1, <2>2, <2>3, <2>6, <1>e, <1>o, <1>q
<1>10. ASSUME LoopCount PROVE SessionInv'
  <2>1. Goto(Loop, "use") /\ pc[Loop] = "loopCount"
        /\ UNCHANGED <<tickets, ticketsTtl, requestMutex, asks>>
    BY <1>10, <1>n, Constants DEF LoopCount
  <2>2. Quiet' /\ LoopRuns' /\ CallsLock' /\ ~sessionLost'
    BY <1>10, <2>1, <1>c, <1>t, Constants
       DEF LoopCount, Goto, Quiet, LoopRuns, CallsLock, NetworkPc
  <2>3. Outstanding' = Outstanding
    BY <2>1, <1>t, Constants DEF Goto, Outstanding, CallOut, LoopOut, NetworkPc
  <2>4. Renewed'
    BY <2>1, <1>c, <1>t, Constants DEF Goto, Renewed
  <2> QED
    BY <2>1, <2>2, <2>3, <2>4, <1>o, <1>q, <1>u
<1>11. ASSUME LoopSleepEnds PROVE SessionInv'
  <2>1. /\ Goto(Loop, "loopTest") /\ pc[Loop] = "sleep"
        /\ UNCHANGED <<tickets, ticketsTtl, requestMutex, asks>>
    BY <1>11, <1>c DEF LoopSleepEnds, LoopRuns
  <2>2. Quiet' /\ LoopRuns' /\ CallsLock' /\ ~sessionLost'
    BY <1>11, <2>1, <1>c, <1>t, Constants
       DEF LoopSleepEnds, Goto, Quiet, LoopRuns, CallsLock, NetworkPc
  <2>3. Outstanding' = Outstanding
    BY <2>1, <1>t, Constants DEF Goto, Outstanding, CallOut, LoopOut, NetworkPc
  <2>4. Renewed'
    BY <2>1, <1>c, <1>t, Typed, Constants DEF Goto, Renewed, InTime
  <2> QED
    BY <2>1, <2>2, <2>3, <2>4, <1>o, <1>q, <1>u
<1>12. ASSUME LoopSleepCancelled PROVE FALSE
  BY <1>12, <1>c DEF LoopSleepCancelled, Quiet
<1>13. ASSUME Tick PROVE SessionInv'
  <2>1. UNCHANGED <<requestMutex, pc, asks, attempts, flags>>
    BY <1>13 DEF Tick
  <2>2. Quiet' /\ LoopRuns' /\ CallsLock' /\ ~sessionLost'
    BY <2>1, <1>c DEF Quiet, LoopRuns, CallsLock
  <2>3. Outstanding' = Outstanding
    BY <2>1 DEF Outstanding, CallOut, LoopOut
  <2>4. Ordered' /\ \A k \in Nat : Newest(k) => Newest(k)'
    BY <1>13, <1>c, Typed, AgeOrdered
  <2>5. Enough'
    BY <2>3, <2>4, <1>c, <1>o, EnoughKept
  <2>6. Renewed'
    <3>1. waited[Loop] < MaxWait(Loop) /\ waited[Loop] \in Nat
      BY <1>13, <1>t, Constants DEF Tick
    <3>2. pc[Loop] \notin {"loopTest", "loopCount", "use", "take"}
      <4>1. pc[Loop] \in LocalPc => MaxWait(Loop) = 0
        BY DEF MaxWait, LocalPc, NetworkPc
      <4> QED
        BY <3>1, <4>1 DEF LocalPc
    <3>3. pc[Loop] = "sleep" => MaxWait(Loop) = PollTime
      BY <1>c DEF MaxWait, LocalPc, NetworkPc, Quiet
    <3>4. pc[Loop] \in TimedPc => waited'[Loop] = waited[Loop] + 1
      BY <1>13, Constants DEF Tick
    <3>5. ticketsTtl' >= ticketsTtl - 1 /\ ticketsTtl' <= ticketsTtl
      BY <1>13, Typed DEF Tick, Less
    <3>6. CASE pc[Loop] = "sleep"
      <4>1. waited'[Loop] = waited[Loop] + 1 /\ waited'[Loop] <= PollTime
        BY <3>1, <3>3, <3>4, <3>6, Constants DEF TimedPc
      <4>2. ticketsTtl + waited[Loop] >= TtlThreshold /\ ticketsTtl <= Ttl - MinTicketTtl
        BY <3>6, <1>c DEF Renewed
      <4>3. ticketsTtl' + waited'[Loop] >= TtlThreshold /\ ticketsTtl' <= Ttl - MinTicketTtl
        BY <3>1, <3>5, <4>1, <4>2, <1>w, Typed, Constants
      <4> QED
        BY <2>1, <3>6, <4>1, <4>3 DEF Renewed
    <3>7. CASE pc[Loop] \in {"sent", "answered"}
      <4>1. waited'[Loop] = waited[Loop] + 1
        BY <3>4, <3>7 DEF TimedPc, NetworkPc
      <4>2. ticketsTtl' <= Ttl - MinTicketTtl
        BY <3>5, <1>c, <1>w, Typed, Constants DEF Renewed
      <4>3. ticketsTtl' + waited'[Loop] >= ticketsTtl + waited[Loop]
        BY <3>1, <3>5, <4>1, <1>w, Typed
      <4>4. pc[Loop] = "sent" => ticketsTtl' + waited'[Loop] > 2 * MaxLatency
        BY <3>1, <4>1, <4>3, <1>c, <1>w, Typed, Constants DEF Renewed
      <4>5. pc[Loop] = "answered" => ticketsTtl' + waited'[Loop] > MaxLatency
        BY <3>1, <4>1, <4>3, <1>c, <1>w, Typed, Constants DEF Renewed
      <4> QED
        BY <2>1, <3>7, <4>2, <4>4, <4>5 DEF Renewed
    <3> QED
      BY <3>2, <3>6, <3>7, <1>c DEF LoopRuns
  <2> QED
    BY <2>2, <2>4, <2>5, <2>6, <1>q
<1>14. ASSUME UNCHANGED vars PROVE SessionInv'
  <2>1. Outstanding' = Outstanding
    BY <1>14 DEF vars, Outstanding, CallOut, LoopOut
  <2>2. Quiet' /\ LoopRuns' /\ CallsLock' /\ ~sessionLost' /\ Renewed'
    BY <1>14, <1>c DEF vars, Quiet, LoopRuns, CallsLock, Renewed
  <2> QED
    BY <1>14, <2>1, <2>2, <1>o, <1>q, <1>u DEF vars
<1> QED
  BY <1>1, <1>2, <1>3, <1>4, <1>5, <1>6, <1>7, <1>8, <1>9, <1>10, <1>11, <1>12, <1>13,
     <1>14 DEF Next

(* While the server answers in time, no call of any number of callers      *)
(* finds the tickets used up or expired, so that the session lost event is *)
(* never dispatched. A poll of the loop and a round trip have to be        *)
(* shorter than _ttl_threshold.                                            *)
THEOREM SessionKeptAlways ==
  ASSUME Fits, InTime
  PROVE  Spec => []SessionKept
<1>1. Init => SessionInv
  BY InitSessionInv
<1>2. SessionInv /\ [Next]_vars => SessionInv'
  BY SessionInvStep
<1>3. SessionInv => SessionKept
  BY DEF SessionInv, SessionKept
<1> QED
  BY <1>1, <1>2, <1>3, PTL DEF Spec

(* While the server answers in time, the ticket loop does not end: it      *)
(* finds a ticket for each of its requests, also while a call that asked   *)
(* for new ones is under way. The types are part of the result.            *)
THEOREM LoopKeptAlways ==
  ASSUME Fits, InTime
  PROVE  Spec => []LoopKeptInv
<1>1. Init => SessionInv
  BY InitSessionInv
<1>2. SessionInv /\ [Next]_vars => SessionInv'
  BY SessionInvStep
<1>3. SessionInv => LoopKeptInv
  BY Typed DEF SessionInv, LoopRuns, LoopKeptInv, LoopKept
<1> QED
  BY <1>1, <1>2, <1>3, PTL DEF Spec
=============================================================================
