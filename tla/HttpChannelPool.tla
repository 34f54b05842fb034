-------------------------- MODULE HttpChannelPool --------------------------
(***************************************************************************)
(* The pool of HTTP channels of one server (SingleServerChannels).  Every  *)
(* call of send() with web_socket = false takes one of MAX_HTTP_CLIENTS    *)
(* channels, or waits on a condition variable until a channel is freed.    *)
(*                                                                         *)
(* A request is one call of send().  A critical section of _http_mutex is  *)
(* one step, because nothing blocks in it except the wait of the condition *)
(* variable, which releases the mutex.  The wait has no predicate, so a    *)
(* wakeup nobody asked for, which C++ permits, is visible to the caller:   *)
(* the variable spurious remembers the requests that had one.              *)
(***************************************************************************)
EXTENDS Naturals, FiniteSets

CONSTANTS
  Requests,          (* The calls of send().                              *)
  MAX_HTTP_CLIENTS   (* The number of channels in the pool.               *)

ASSUME PoolAssumption ==
  /\ IsFiniteSet(Requests)
  /\ MAX_HTTP_CLIENTS \in Nat \ {0}

VARIABLES
  place,       (* Where each request is inside send().                    *)
  index,       (* The channel a request holds; meaningful in Holding.     *)
  isFree,      (* _is_http_free                                           *)
  created,     (* The channels _http_channels has an object for.          *)
  numWaiting,  (* _http_num_waiting_requests                              *)
  cancelledRequests,  (* The requests whose cancellation token is cancelled.     *)
  spurious     (* The requests whose wait returned without a notify.       *)

poolVars == <<place, index, isFree, created, numWaiting, cancelledRequests, spurious>>

HttpChannels == 0 .. MAX_HTTP_CLIENTS - 1

(* The request holds a channel: LockedHttpChannel is on its stack.         *)
HoldingPlaces == {"locked", "sending", "sent", "leaving"}
Places == {"idle", "waiting", "notified", "refused", "done"} \cup HoldingPlaces

Waiting  == {r \in Requests : place[r] = "waiting"}
Notified == {r \in Requests : place[r] = "notified"}
Holding  == {r \in Requests : place[r] \in HoldingPlaces}
FreeChannels == {i \in HttpChannels : isFree[i]}

-----------------------------------------------------------------------------

PoolInit ==
  /\ place = [r \in Requests |-> "idle"]
  /\ index = [r \in Requests |-> 0]
  /\ isFree = [i \in HttpChannels |-> TRUE]
  /\ created = {}
  /\ numWaiting = 0
  /\ cancelledRequests = {}
  /\ spurious = {}

(* tryGetHttpChannel succeeds: the scan stops at the first free channel,   *)
(* whose object is made on its first use.                                  *)
TryGetHttpChannel(r) ==
  \E i \in FreeChannels :
    /\ \A j \in FreeChannels : i <= j
    /\ created' = created \cup {i}
    /\ isFree' = [isFree EXCEPT ![i] = FALSE]
    /\ index' = [index EXCEPT ![r] = i]
    /\ place' = [place EXCEPT ![r] = "locked"]

(* Mutant of MayTakeAtOnce: a newcomer overtakes the requests that wait.   *)
MayTakeAtOnceBarging == FreeChannels # {}

(* getHttpChannel takes a channel at once only when nobody waits.          *)
MayTakeAtOnce == numWaiting = 0 /\ FreeChannels # {}

GetAtOnce(r) ==
  /\ place[r] = "idle"
  /\ MayTakeAtOnce
  /\ TryGetHttpChannel(r)
  /\ UNCHANGED <<numWaiting, cancelledRequests, spurious>>

GetWait(r) ==
  /\ place[r] = "idle"
  /\ ~MayTakeAtOnce
  /\ numWaiting' = numWaiting + 1
  /\ place' = [place EXCEPT ![r] = "waiting"]
  /\ UNCHANGED <<index, isFree, created, cancelledRequests, spurious>>

SpuriousWakeup(r) ==
  /\ place[r] = "waiting"
  /\ place' = [place EXCEPT ![r] = "notified"]
  /\ spurious' = spurious \cup {r}
  /\ UNCHANGED <<index, isFree, created, numWaiting, cancelledRequests>>

(* Mutant of WakeAndTake: the counter is not decremented.                  *)
WakeAndTakeNoDecrement(r) ==
  /\ place[r] = "notified"
  /\ TryGetHttpChannel(r)
  /\ UNCHANGED <<numWaiting, cancelledRequests, spurious>>

(* _http_cv.wait returns with the mutex held again and the request takes a *)
(* channel, or getHttpChannel throws when none is free.                    *)
WakeAndTake(r) ==
  /\ place[r] = "notified"
  /\ numWaiting' = numWaiting - 1
  /\ TryGetHttpChannel(r)
  /\ UNCHANGED <<cancelledRequests, spurious>>

WakeAndThrow(r) ==
  /\ place[r] = "notified"
  /\ FreeChannels = {}
  /\ numWaiting' = numWaiting - 1
  /\ place' = [place EXCEPT ![r] = "refused"]
  /\ UNCHANGED <<index, isFree, created, cancelledRequests, spurious>>

(* Mutant of Validate: an exception leaves send() without freeing.         *)
ValidateLeak(r) ==
  /\ \E step \in {<<"locked", "sending">>, <<"sent", "leaving">>} :
       /\ place[r] = step[1]
       /\ place' = [place EXCEPT ![r] = IF r \in cancelledRequests THEN "done" ELSE step[2]]
  /\ UNCHANGED <<index, isFree, created, numWaiting, cancelledRequests, spurious>>

(* The two token->validate() calls, before and after the HTTP exchange.    *)
Validate(r) ==
  /\ \E step \in {<<"locked", "sending">>, <<"sent", "leaving">>} :
       /\ place[r] = step[1]
       /\ place' = [place EXCEPT ![r] = IF r \in cancelledRequests THEN "leaving" ELSE step[2]]
  /\ UNCHANGED <<index, isFree, created, numWaiting, cancelledRequests, spurious>>

(* HttpChannel::send, synchronous: it returns the answer or throws.        *)
HttpSend(r) ==
  /\ place[r] = "sending"
  /\ \E to \in {"sent", "leaving"} : place' = [place EXCEPT ![r] = to]
  /\ UNCHANGED <<index, isFree, created, numWaiting, cancelledRequests, spurious>>

(* Mutant of NotifyOne: free() does not notify.                            *)
NotifyOneMissing(p) == place' = p

(* notify_one: one of the waiting requests, if there is one, is woken.     *)
NotifyOne(p) ==
  \/ /\ Waiting = {}
     /\ place' = p
  \/ \E w \in Waiting : place' = [p EXCEPT ![w] = "notified"]

(* The destructor of LockedHttpChannel, on return and on an exception.     *)
Free(r) ==
  /\ place[r] = "leaving"
  /\ isFree' = [isFree EXCEPT ![index[r]] = TRUE]
  /\ NotifyOne([place EXCEPT ![r] = "done"])
  /\ UNCHANGED <<index, created, numWaiting, cancelledRequests, spurious>>

(* Another thread cancels the token of a request that is under way.        *)
CancelRequest(r) ==
  /\ place[r] \notin {"done", "refused"}
  /\ r \notin cancelledRequests
  /\ cancelledRequests' = cancelledRequests \cup {r}
  /\ UNCHANGED <<place, index, isFree, created, numWaiting, spurious>>

Ended == \A r \in Requests : place[r] \in {"done", "refused"}

Terminated == Ended /\ UNCHANGED poolVars

Step(r) ==
  \/ GetAtOnce(r)
  \/ GetWait(r)
  \/ WakeAndTake(r)
  \/ WakeAndThrow(r)
  \/ Validate(r)
  \/ HttpSend(r)
  \/ Free(r)

PoolNext ==
  \/ \E r \in Requests : Step(r) \/ SpuriousWakeup(r) \/ CancelRequest(r)
  \/ Terminated

PoolSpec == PoolInit /\ [][PoolNext]_poolVars

(* The scheduler runs every thread that can run, and an HTTP exchange ends. *)
FairPoolSpec == PoolSpec /\ \A r \in Requests : WF_poolVars(Step(r))

-----------------------------------------------------------------------------

PoolTypeOK ==
  /\ place \in [Requests -> Places]
  /\ index \in [Requests -> HttpChannels]
  /\ isFree \in [HttpChannels -> BOOLEAN]
  /\ created \in SUBSET HttpChannels
  /\ numWaiting \in Nat
  /\ cancelledRequests \in SUBSET Requests
  /\ spurious \in SUBSET Requests

(* No channel serves two requests, whichever way requests leave send():    *)
(* exactly the channels marked busy in _is_http_free are on the stack of a *)
(* request, each of one request, and have an object.                       *)
ExclusiveUse ==
  /\ \A r, s \in Holding : index[r] = index[s] => r = s
  /\ \A r \in Holding : ~isFree[index[r]] /\ index[r] \in created
  /\ \A i \in HttpChannels : ~isFree[i] => \E r \in Holding : index[r] = i

(* _http_num_waiting_requests counts the requests inside the wait, those   *)
(* notified that have not got the mutex back included.                     *)
WaiterCountExact == numWaiting = Cardinality(Waiting \cup Notified)

(* Types, and the exact count: _http_num_waiting_requests decides who may  *)
(* take a channel at once and whether free() notifies.                     *)
CountInv == PoolTypeOK /\ WaiterCountExact

(* No lost wakeup: while a request waits, another one is on its way to     *)
(* free(), where it will notify: a holder, or a woken one that will hold.  *)
NoLostWakeup == Waiting # {} => Notified \cup Holding # {}

(* getHttpChannel never throws ErrorDuringGettingHTTPChannelException,     *)
(* unless a wait has returned without being notified.                      *)
NeverRefused == spurious = {} => \A r \in Requests : place[r] # "refused"

(* A request that waits for a channel leaves send(), and with the channel  *)
(* given back: the wait without a predicate misses no notify_one.          *)
EveryWaiterLeaves ==
  \A r \in Requests : place[r] = "waiting" ~> place[r] \in {"done", "refused"}
=============================================================================
