---------------------------- MODULE ChannelProofs ----------------------------
(***************************************************************************)
(* Proofs about the channels to one server: HttpChannelPool, for any       *)
(* number of requests and channels, and WebSocketNotify, for any channels  *)
(* and any number of notifications and closes.  The two share no state.    *)
(***************************************************************************)
EXTENDS HttpChannelPool, WebSocketNotify, SequenceTheorems, FiniteSetTheorems, TLAPS

-----------------------------------------------------------------------------
(* HttpChannelPool.                                                        *)

(* The requests inside the wait of the condition variable.                 *)
Waiters == Waiting \cup Notified

(* The requests in the wait are finitely many.                             *)
LEMMA WaitersFinite == IsFiniteSet(Waiters) /\ Cardinality(Waiters) \in Nat
BY PoolAssumption, FS_Subset, FS_CardinalityType DEF Waiters, Waiting, Notified

(* A request in the wait is counted, so decrementing stays in Nat.         *)
LEMMA WaiterIsCounted ==
  ASSUME CountInv, NEW r \in Waiters
  PROVE  numWaiting - 1 \in Nat
<1>1. Cardinality(Waiters) # 0
  BY WaitersFinite, FS_EmptySet
<1>2. QED
  BY <1>1, WaitersFinite DEF CountInv, WaiterCountExact, Waiters

(* tryGetHttpChannel keeps the types and does not put anyone in the wait.  *)
LEMMA TryGetEffect ==
  ASSUME PoolTypeOK, NEW r \in Requests, TryGetHttpChannel(r)
  PROVE  /\ place' = [place EXCEPT ![r] = "locked"]
         /\ place' \in [Requests -> Places]
         /\ index' \in [Requests -> HttpChannels]
         /\ isFree' \in [HttpChannels -> BOOLEAN]
         /\ created' \in SUBSET HttpChannels
BY DEF PoolTypeOK, TryGetHttpChannel, FreeChannels, Places, HoldingPlaces

(* notify_one only moves a request from waiting to notified.               *)
LEMMA NotifyEffect ==
  ASSUME NEW p \in [Requests -> Places], place \in [Requests -> Places], NotifyOne(p)
  PROVE  /\ place' \in [Requests -> Places]
         /\ place' = p \/ \E w \in Waiting : place' = [p EXCEPT ![w] = "notified"]
BY DEF NotifyOne, Places, Waiting

(* Every step keeps the counter equal to the number of waiting requests.   *)
LEMMA CountInvStep == CountInv /\ [PoolNext]_poolVars => CountInv'
<1> SUFFICES ASSUME CountInv, [PoolNext]_poolVars
             PROVE  PoolTypeOK' /\ numWaiting' = Cardinality(Waiters')
  BY DEF CountInv, WaiterCountExact, Waiters
<1> USE DEF CountInv
<1>0. numWaiting = Cardinality(Waiters)
  BY DEF WaiterCountExact, Waiters
<1>1. ASSUME NEW r \in Requests, GetAtOnce(r)
      PROVE  PoolTypeOK' /\ numWaiting' = Cardinality(Waiters')
  <2>1. PoolTypeOK'
    BY <1>1, TryGetEffect DEF GetAtOnce, PoolTypeOK
  <2>2. Waiters' = Waiters
    BY <1>1, TryGetEffect DEF GetAtOnce, PoolTypeOK, Waiters, Waiting, Notified
  <2>3. QED
    BY <1>0, <1>1, <2>1, <2>2 DEF GetAtOnce
<1>2. ASSUME NEW r \in Requests, GetWait(r)
      PROVE  PoolTypeOK' /\ numWaiting' = Cardinality(Waiters')
  <2>1. PoolTypeOK'
    BY <1>2 DEF GetWait, PoolTypeOK, Places
  <2>2. Waiters' = Waiters \cup {r} /\ r \notin Waiters
    BY <1>2 DEF GetWait, PoolTypeOK, Waiters, Waiting, Notified
  <2>3. Cardinality(Waiters') = Cardinality(Waiters) + 1
    BY <2>2, WaitersFinite, FS_AddElement
  <2>4. QED
    BY <1>0, <1>2, <2>1, <2>3 DEF GetWait
<1>3. ASSUME NEW r \in Requests, SpuriousWakeup(r)
      PROVE  PoolTypeOK' /\ numWaiting' = Cardinality(Waiters')
  <2>1. PoolTypeOK'
    BY <1>3 DEF SpuriousWakeup, PoolTypeOK, Places
  <2>2. Waiters' = Waiters
    BY <1>3 DEF SpuriousWakeup, PoolTypeOK, Waiters, Waiting, Notified
  <2>3. QED
    BY <1>0, <1>3, <2>1, <2>2 DEF SpuriousWakeup
<1>4. ASSUME NEW r \in Requests, WakeAndTake(r) \/ WakeAndThrow(r)
      PROVE  PoolTypeOK' /\ numWaiting' = Cardinality(Waiters')
  <2>1. r \in Waiters /\ numWaiting' = numWaiting - 1
    BY <1>4 DEF WakeAndTake, WakeAndThrow, Waiters, Notified
  <2>2. PoolTypeOK'
    BY <1>4, <2>1, TryGetEffect, WaiterIsCounted
    DEF WakeAndTake, WakeAndThrow, PoolTypeOK, Places
  <2>3. Waiters' = Waiters \ {r}
    BY <1>4, <2>1, TryGetEffect
    DEF WakeAndTake, WakeAndThrow, PoolTypeOK, Waiters, Waiting, Notified
  <2>4. Cardinality(Waiters') = Cardinality(Waiters) - 1
    BY <2>1, <2>3, WaitersFinite, FS_RemoveElement
  <2>5. QED
    BY <1>0, <2>1, <2>2, <2>4
<1>5. ASSUME NEW r \in Requests, Validate(r) \/ HttpSend(r)
      PROVE  PoolTypeOK' /\ numWaiting' = Cardinality(Waiters')
  <2>1. PoolTypeOK'
    BY <1>5 DEF Validate, HttpSend, PoolTypeOK, Places, HoldingPlaces
  <2>2. Waiters' = Waiters
    BY <1>5 DEF Validate, HttpSend, PoolTypeOK, Waiters, Waiting, Notified
  <2>3. QED
    BY <1>0, <1>5, <2>1, <2>2 DEF Validate, HttpSend
<1>6. ASSUME NEW r \in Requests, Free(r)
      PROVE  PoolTypeOK' /\ numWaiting' = Cardinality(Waiters')
  <2> DEFINE p == [place EXCEPT ![r] = "done"]
  <2>1. p \in [Requests -> Places] /\ place \in [Requests -> Places] /\ NotifyOne(p)
    BY <1>6 DEF Free, PoolTypeOK, Places
  <2>2. /\ place' \in [Requests -> Places]
        /\ place' = p \/ \E w \in Waiting : place' = [p EXCEPT ![w] = "notified"]
    BY <2>1, NotifyEffect
  <2>3. PoolTypeOK'
    BY <1>6, <2>2 DEF Free, PoolTypeOK
  <2>4. Waiters' = Waiters
    BY <1>6, <2>1, <2>2 DEF Free, Waiters, Waiting, Notified
  <2>5. QED
    BY <1>0, <1>6, <2>3, <2>4 DEF Free
<1>7. ASSUME NEW r \in Requests, CancelRequest(r)
      PROVE  PoolTypeOK' /\ numWaiting' = Cardinality(Waiters')
  BY <1>0, <1>7 DEF CancelRequest, PoolTypeOK, Waiters, Waiting, Notified
<1>8. CASE UNCHANGED poolVars
  BY <1>0, <1>8 DEF poolVars, PoolTypeOK, Waiters, Waiting, Notified
<1>9. QED
  BY <1>1, <1>2, <1>3, <1>4, <1>5, <1>6, <1>7, <1>8 DEF PoolNext, Step, Terminated

(* The variables keep their types and _http_num_waiting_requests is exact. *)
THEOREM WaiterCount == PoolSpec => []CountInv
<1>1. PoolInit => CountInv
  <2> SUFFICES ASSUME PoolInit PROVE CountInv
    OBVIOUS
  <2>1. PoolTypeOK
    BY PoolAssumption DEF PoolInit, PoolTypeOK, Places, HttpChannels
  <2>2. Waiters = {}
    BY DEF PoolInit, Waiters, Waiting, Notified
  <2>3. QED
    BY <2>1, <2>2, FS_EmptySet DEF PoolInit, CountInv, WaiterCountExact, Waiters
<1>2. QED
  BY <1>1, CountInvStep, PTL DEF PoolSpec

-----------------------------------------------------------------------------

(* Every step keeps each channel with one request or in the free list.     *)
LEMMA ExclusiveUseStep ==
  CountInv /\ ExclusiveUse /\ [PoolNext]_poolVars => ExclusiveUse'
<1> SUFFICES ASSUME PoolTypeOK, ExclusiveUse, [PoolNext]_poolVars
             PROVE  ExclusiveUse'
  BY DEF CountInv
<1>1. ASSUME NEW r \in Requests, place[r] \notin HoldingPlaces, TryGetHttpChannel(r)
      PROVE  ExclusiveUse'
  <2>1. PICK i \in FreeChannels :
          /\ created' = created \cup {i}
          /\ isFree' = [isFree EXCEPT ![i] = FALSE]
          /\ index' = [index EXCEPT ![r] = i]
          /\ place' = [place EXCEPT ![r] = "locked"]
    BY <1>1 DEF TryGetHttpChannel
  <2>2. Holding' = Holding \cup {r} /\ r \notin Holding /\ i \in HttpChannels /\ isFree[i]
    BY <1>1, <2>1 DEF PoolTypeOK, Holding, HoldingPlaces, FreeChannels
  <2>3. \A h \in Holding : index'[h] = index[h] /\ index[h] # i
    BY <2>1, <2>2 DEF PoolTypeOK, ExclusiveUse, Holding
  <2>4. index'[r] = i
    BY <2>1 DEF PoolTypeOK
  <2>5. \A a, b \in Holding' : index'[a] = index'[b] => a = b
    BY <2>2, <2>3, <2>4 DEF ExclusiveUse
  <2>6. \A a \in Holding' : ~isFree'[index'[a]] /\ index'[a] \in created'
    BY <2>1, <2>2, <2>3, <2>4 DEF ExclusiveUse, PoolTypeOK, Holding
  <2>7. \A c \in HttpChannels : ~isFree'[c] => \E a \in Holding' : index'[a] = c
    BY <2>1, <2>2, <2>3, <2>4 DEF ExclusiveUse, PoolTypeOK
  <2>8. QED
    BY <2>5, <2>6, <2>7 DEF ExclusiveUse
<1>2. ASSUME NEW r \in Requests, GetWait(r) \/ SpuriousWakeup(r) \/ WakeAndThrow(r)
      PROVE  ExclusiveUse'
  <2>1. Holding' = Holding /\ UNCHANGED <<index, isFree, created>>
    BY <1>2 DEF GetWait, SpuriousWakeup, WakeAndThrow, PoolTypeOK, Holding, HoldingPlaces
  <2>2. QED
    BY <2>1 DEF ExclusiveUse
<1>3. ASSUME NEW r \in Requests, Validate(r) \/ HttpSend(r)
      PROVE  ExclusiveUse'
  <2>1. Holding' = Holding /\ UNCHANGED <<index, isFree, created>>
    BY <1>3 DEF Validate, HttpSend, PoolTypeOK, Holding, HoldingPlaces
  <2>2. QED
    BY <2>1 DEF ExclusiveUse
<1>4. ASSUME NEW r \in Requests, Free(r)
      PROVE  ExclusiveUse'
  <2> DEFINE p == [place EXCEPT ![r] = "done"]
  <2>1. place' = p \/ \E w \in Waiting : place' = [p EXCEPT ![w] = "notified"]
    BY <1>4 DEF Free, NotifyOne
  <2>2. Holding' = Holding \ {r} /\ r \in Holding
    BY <1>4, <2>1 DEF Free, PoolTypeOK, Holding, HoldingPlaces, Waiting
  <2>3. /\ index' = index /\ created' = created
        /\ isFree' = [isFree EXCEPT ![index[r]] = TRUE]
    BY <1>4 DEF Free
  <2>4. \A a \in Holding' : ~isFree'[index'[a]] /\ index'[a] \in created'
    BY <2>2, <2>3 DEF ExclusiveUse, PoolTypeOK, Holding
  <2>5. \A c \in HttpChannels : ~isFree'[c] => \E a \in Holding' : index'[a] = c
    BY <2>2, <2>3 DEF ExclusiveUse, PoolTypeOK, Holding
  <2>6. QED
    BY <2>2, <2>3, <2>4, <2>5 DEF ExclusiveUse
<1>5. ASSUME UNCHANGED <<place, index, isFree, created>>
      PROVE  ExclusiveUse'
  BY <1>5 DEF ExclusiveUse, Holding
<1>6. ASSUME NEW r \in Requests, GetAtOnce(r) \/ WakeAndTake(r)
      PROVE  place[r] \notin HoldingPlaces /\ TryGetHttpChannel(r)
  BY <1>6 DEF GetAtOnce, WakeAndTake, HoldingPlaces
<1>7. QED
  BY <1>1, <1>2, <1>3, <1>4, <1>5, <1>6 DEF PoolNext, Step, Terminated, CancelRequest, poolVars

(* No HTTP channel is shared by two requests or lost to the pool, for any  *)
(* number of requests and channels, with or without spurious wakeups.      *)
THEOREM ExclusiveUseAlways == PoolSpec => []ExclusiveUse
<1>1. PoolInit => ExclusiveUse
  BY DEF PoolInit, ExclusiveUse, Holding, HoldingPlaces
<1>2. QED
  BY <1>1, WaiterCount, ExclusiveUseStep, PTL DEF PoolSpec, CountInv

-----------------------------------------------------------------------------

(* While nobody holds a channel, all of them are free, so a request that   *)
(* is refused or that starts to wait leaves a holder behind.               *)
LEMMA NoLostWakeupStep ==
  CountInv /\ ExclusiveUse /\ NoLostWakeup /\ [PoolNext]_poolVars => NoLostWakeup'
<1> SUFFICES ASSUME PoolTypeOK, WaiterCountExact, ExclusiveUse, NoLostWakeup, [PoolNext]_poolVars,
                    Waiting' # {}
             PROVE  Notified' \cup Holding' # {}
  BY DEF CountInv, NoLostWakeup
<1>0. 0 \in HttpChannels
  BY PoolAssumption DEF HttpChannels
<1>1. FreeChannels = {} => Holding # {}
  BY <1>0 DEF FreeChannels, ExclusiveUse, PoolTypeOK
<1>2. ASSUME NEW r \in Requests, TryGetHttpChannel(r)
      PROVE  Notified' \cup Holding' # {}
  <2>1. r \in Holding'
    BY <1>2, TryGetEffect DEF Holding, HoldingPlaces, PoolTypeOK
  <2>2. QED
    BY <2>1
<1>3. ASSUME NEW r \in Requests, GetWait(r)
      PROVE  Notified' \cup Holding' # {}
  <2>1. Notified' = Notified /\ Holding' = Holding
    BY <1>3 DEF GetWait, Notified, Holding, HoldingPlaces, PoolTypeOK
  <2>2. CASE FreeChannels = {}
    BY <1>1, <2>1, <2>2
  <2>3. CASE numWaiting # 0
    <3>1. Waiting \cup Notified # {}
      BY <2>3, FS_EmptySet DEF WaiterCountExact
    <3>2. QED
      BY <2>1, <3>1 DEF NoLostWakeup
  <2>4. QED
    BY <1>3, <2>2, <2>3 DEF GetWait, MayTakeAtOnce
<1>4. ASSUME NEW r \in Requests, SpuriousWakeup(r)
      PROVE  Notified' \cup Holding' # {}
  <2>1. r \in Notified'
    BY <1>4 DEF SpuriousWakeup, Notified, PoolTypeOK
  <2>2. QED
    BY <2>1
<1>5. ASSUME NEW r \in Requests, WakeAndThrow(r)
      PROVE  Notified' \cup Holding' # {}
  <2>1. Holding' = Holding
    BY <1>5 DEF WakeAndThrow, Holding, HoldingPlaces, PoolTypeOK
  <2>2. QED
    BY <1>1, <1>5, <2>1 DEF WakeAndThrow
<1>6. ASSUME NEW r \in Requests, Validate(r) \/ HttpSend(r)
      PROVE  Notified' \cup Holding' # {}
  <2>1. r \in Holding'
    BY <1>6 DEF Validate, HttpSend, Holding, HoldingPlaces, PoolTypeOK
  <2>2. QED
    BY <2>1
<1>7. ASSUME NEW r \in Requests, Free(r)
      PROVE  Notified' \cup Holding' # {}
  <2> DEFINE p == [place EXCEPT ![r] = "done"]
  <2>1. CASE Waiting = {} /\ place' = p
    BY <1>7, <2>1 DEF Free, Waiting, PoolTypeOK
  <2>2. CASE \E w \in Waiting : place' = [p EXCEPT ![w] = "notified"]
    BY <1>7, <2>2 DEF Free, Waiting, Notified, PoolTypeOK
  <2>3. QED
    BY <1>7, <2>1, <2>2 DEF Free, NotifyOne
<1>8. ASSUME UNCHANGED place
      PROVE  Notified' \cup Holding' # {}
  BY <1>8 DEF NoLostWakeup, Waiting, Notified, Holding
<1>9. QED
  BY <1>2, <1>3, <1>4, <1>5, <1>6, <1>7, <1>8
  DEF PoolNext, Step, Terminated, CancelRequest, GetAtOnce, WakeAndTake, poolVars

(* free() never leaves a request waiting with nobody left to notify it.    *)
THEOREM NoLostWakeupAlways == PoolSpec => []NoLostWakeup
<1>1. PoolInit => NoLostWakeup
  BY DEF PoolInit, NoLostWakeup, Waiting
<1>2. QED
  BY <1>1, WaiterCount, ExclusiveUseAlways, NoLostWakeupStep, PTL DEF PoolSpec, CountInv

-----------------------------------------------------------------------------

(* Every woken request finds a free channel, since newcomers stand back    *)
(* while anyone waits: each of the woken requests has a channel to take.   *)
WokenHaveChannels ==
  spurious = {} => Cardinality(Notified) <= Cardinality(FreeChannels)

(* Every woken request has a channel to take, and none has been refused.   *)
WokenInv == WokenHaveChannels /\ NeverRefused

(* The cardinalities that WokenInv compares are natural numbers.           *)
LEMMA SetsFinite ==
  /\ IsFiniteSet(Notified) /\ Cardinality(Notified) \in Nat
  /\ IsFiniteSet(FreeChannels) /\ Cardinality(FreeChannels) \in Nat
<1>1. IsFiniteSet(HttpChannels)
  BY PoolAssumption, FS_Interval DEF HttpChannels
<1>2. IsFiniteSet(Notified) /\ IsFiniteSet(FreeChannels)
  BY <1>1, PoolAssumption, FS_Subset DEF Notified, FreeChannels
<1>3. QED
  BY <1>2, FS_CardinalityType

(* Every step leaves a free channel for each request woken by notify_one.  *)
LEMMA WokenInvStep ==
  ASSUME CountInv, ExclusiveUse, WokenInv, [PoolNext]_poolVars
  PROVE  WokenInv'
<1> USE DEF CountInv, WokenInv
<1> SUFFICES ASSUME spurious' = {} PROVE WokenInv'
  BY DEF WokenHaveChannels, NeverRefused
<1>a. spurious = {} /\ \A r \in Requests : ~SpuriousWakeup(r)
  BY DEF PoolNext, Step, GetAtOnce, GetWait, TryGetHttpChannel, WakeAndTake, WakeAndThrow,
         Validate, HttpSend, Free, SpuriousWakeup, CancelRequest, Terminated, poolVars, PoolTypeOK
<1>0. Cardinality(Notified) <= Cardinality(FreeChannels)
  BY <1>a DEF WokenHaveChannels
<1>1. ASSUME NEW r \in Requests, GetAtOnce(r)
      PROVE  WokenInv'
  <2>1. Waiting \cup Notified = {}
    BY <1>1, WaitersFinite, FS_EmptySet
    DEF GetAtOnce, MayTakeAtOnce, WaiterCountExact, Waiters
  <2>2. Notified' = {}
    BY <1>1, <2>1, TryGetEffect DEF GetAtOnce, Notified, PoolTypeOK
  <2>3. FreeChannels' \in SUBSET FreeChannels
    BY <1>1 DEF GetAtOnce, TryGetHttpChannel, FreeChannels, PoolTypeOK
  <2>4. Cardinality(FreeChannels') \in Nat
    BY <2>3, SetsFinite, FS_Subset, FS_CardinalityType
  <2>5. NeverRefused'
    BY <1>1, TryGetEffect DEF GetAtOnce, NeverRefused, PoolTypeOK
  <2>6. QED
    BY <2>2, <2>4, <2>5, FS_EmptySet DEF WokenHaveChannels
<1>2. ASSUME NEW r \in Requests, WakeAndTake(r)
      PROVE  WokenInv'
  <2>1. PICK i \in FreeChannels : isFree' = [isFree EXCEPT ![i] = FALSE]
    BY <1>2 DEF WakeAndTake, TryGetHttpChannel
  <2>2. FreeChannels' = FreeChannels \ {i}
    BY <2>1 DEF FreeChannels, PoolTypeOK
  <2>3. Notified' = Notified \ {r} /\ r \in Notified
    BY <1>2, TryGetEffect DEF WakeAndTake, Notified, PoolTypeOK
  <2>4. /\ Cardinality(FreeChannels') = Cardinality(FreeChannels) - 1
        /\ Cardinality(Notified') = Cardinality(Notified) - 1
    BY <2>1, <2>2, <2>3, SetsFinite, FS_RemoveElement
  <2>5. NeverRefused'
    BY <1>2, TryGetEffect DEF WakeAndTake, NeverRefused, PoolTypeOK
  <2>6. QED
    BY <1>0, <2>4, <2>5, SetsFinite DEF WokenHaveChannels
<1>3. ASSUME NEW r \in Requests, WakeAndThrow(r)
      PROVE  FALSE
  <2>1. Cardinality(Notified) = 0
    BY <1>0, <1>3, SetsFinite, FS_EmptySet DEF WakeAndThrow
  <2>2. Notified = {}
    BY <2>1, SetsFinite, FS_EmptySet
  <2>3. QED
    BY <1>3, <2>2 DEF WakeAndThrow, Notified
<1>4. ASSUME NEW r \in Requests, GetWait(r) \/ Validate(r) \/ HttpSend(r)
      PROVE  WokenInv'
  <2>1. Notified' = Notified /\ FreeChannels' = FreeChannels
    BY <1>4 DEF GetWait, Validate, HttpSend, Notified, FreeChannels, PoolTypeOK
  <2>2. NeverRefused'
    BY <1>4 DEF GetWait, Validate, HttpSend, NeverRefused, PoolTypeOK
  <2>3. QED
    BY <1>0, <2>1, <2>2 DEF WokenHaveChannels
<1>5. ASSUME NEW r \in Requests, Free(r)
      PROVE  WokenInv'
  <2> DEFINE p == [place EXCEPT ![r] = "done"]
  <2>1. r \in Holding /\ index[r] \in HttpChannels /\ index[r] \notin FreeChannels
    BY <1>5 DEF Free, Holding, HoldingPlaces, ExclusiveUse, FreeChannels, PoolTypeOK
  <2>2. FreeChannels' = FreeChannels \cup {index[r]}
    BY <1>5, <2>1 DEF Free, FreeChannels, PoolTypeOK
  <2>3. Cardinality(FreeChannels') = Cardinality(FreeChannels) + 1
    BY <2>1, <2>2, SetsFinite, FS_AddElement
  <2>4. Cardinality(Notified') <= Cardinality(Notified) + 1
    <3>1. CASE place' = p
      <4>1. Notified' = Notified
        BY <1>5, <3>1 DEF Free, Notified, PoolTypeOK
      <4>2. QED
        BY <4>1, SetsFinite
    <3>2. ASSUME NEW w \in Waiting, place' = [p EXCEPT ![w] = "notified"]
          PROVE  Cardinality(Notified') <= Cardinality(Notified) + 1
      <4>1. Notified' = Notified \cup {w} /\ w \notin Notified
        BY <1>5, <3>2 DEF Free, Waiting, Notified, PoolTypeOK
      <4>2. Cardinality(Notified') = Cardinality(Notified) + 1
        BY <4>1, SetsFinite, FS_AddElement
      <4>3. QED
        BY <4>2, SetsFinite
    <3>3. QED
      BY <1>5, <3>1, <3>2 DEF Free, NotifyOne
  <2>5. NeverRefused'
    BY <1>5 DEF Free, NotifyOne, NeverRefused, PoolTypeOK, Waiting
  <2>6. Cardinality(Notified') \in Nat
    <3>1. Notified' \in SUBSET Requests
      BY DEF Notified
    <3>2. QED
      BY <3>1, PoolAssumption, FS_Subset, FS_CardinalityType
  <2>7. QED
    BY <1>0, <2>3, <2>4, <2>5, <2>6, SetsFinite DEF WokenHaveChannels
<1>6. ASSUME UNCHANGED <<place, isFree>>
      PROVE  WokenInv'
  BY <1>a, <1>0, <1>6 DEF WokenHaveChannels, NeverRefused, Notified, FreeChannels
<1>7. ASSUME NEW r \in Requests, Step(r) \/ CancelRequest(r)
      PROVE  WokenInv'
  BY <1>1, <1>2, <1>3, <1>4, <1>5, <1>6, <1>7 DEF Step, CancelRequest
<1>8. ASSUME UNCHANGED poolVars
      PROVE  WokenInv'
  BY <1>6, <1>8 DEF poolVars
<1>9. QED
  BY <1>a, <1>7, <1>8 DEF PoolNext, Terminated

(* When waits end only by notify_one, ErrorDuringGettingHTTPChannel is     *)
(* never thrown: newcomers cannot take the channel of a woken request.     *)
THEOREM NeverRefusedAlways == PoolSpec => []NeverRefused
<1>1. PoolInit => WokenInv
  <2> SUFFICES ASSUME PoolInit PROVE WokenInv
    OBVIOUS
  <2>1. Notified = {} /\ NeverRefused
    BY DEF PoolInit, Notified, NeverRefused
  <2>2. QED
    BY <2>1, FS_EmptySet, SetsFinite DEF WokenInv, WokenHaveChannels
<1>2. CountInv /\ ExclusiveUse /\ WokenInv /\ [PoolNext]_poolVars => WokenInv'
  BY WokenInvStep
<1>3. WokenInv => NeverRefused
  BY DEF WokenInv
<1>4. QED
  BY <1>1, <1>2, <1>3, WaiterCount, ExclusiveUseAlways, PTL DEF PoolSpec, CountInv

-----------------------------------------------------------------------------
(* WebSocketNotify.                                                        *)

(* A notification is at hand wherever one is used.                         *)
AtHand ==
  /\ pc[Net] \in {"lookup", "push"} => message \in Messages
  /\ consumer = "callback" => current \in Messages

(* The consumer holds _notifyMutex inside its critical section.            *)
NotifyLocked ==
  notifyMutex = Consumer <=> consumer \in {"eval", "block", "drain", "callback", "reset"}

(* cancelNotifier holds _notifierMutex until it has joined the consumer,   *)
(* and the token stays cancelled so long.                                  *)
CancelLocked ==
  \A t \in Callers :
    /\ pc[t] \in {"cancel", "notify", "join"} => notifierMutex = t
    /\ pc[t] \in {"notify", "join"} => cancelled

(* A queued notification has its flag, or the network thread is about to   *)
(* set it; and the consumer resets the flag of nothing it has not drained. *)
Flagged ==
  /\ queue # <<>> => dataToNotify \/ pc[Net] = "flag"
  /\ consumer = "reset" /\ queue # <<>> => pc[Net] = "flag"
  /\ consumer = "block" => ~dataToNotify \/ cancelled

(* The inductive invariant behind OneConsumerInv.                          *)
NotifierInv ==
  OneConsumerInv /\ AtHand /\ NotifyLocked /\ CancelLocked /\ Flagged

(* The abstract specification of the delivery, whose variables are the two *)
(* histories of this one.                                                  *)
Delivery == INSTANCE OrderedDelivery WITH Notifications <- Messages

(* With the order of deliveries.                                           *)
OrderInv == NotifierInv /\ DeliveredInOrder

(* Every step keeps NotifierInv. Holding _notifyMutex from the test of the *)
(* flag to the wait, and in QueueFlag, is what closes the gap between the  *)
(* two; a cancellation does not hold it, but then the token is cancelled.  *)
LEMMA NotifierInvStep == NotifierInv /\ [Next]_vars => NotifierInv'
<1> SUFFICES ASSUME NotifierInv, [Next]_vars PROVE NotifierInv'
  OBVIOUS
<1> USE NotifyAssumption DEF NotifierInv, OneConsumerInv, TypeOK, OneConsumer,
   NoMissedNotification, AtHand, NotifyLocked, CancelLocked, Flagged, CallerPc,
   ConsumerPc, Callers, Messages, Goto, AfterCancel, consumerVars, inputs, callerVars
<1>1. ASSUME NEW c \in Channels, Add(c) PROVE NotifierInv'
  BY <1>1 DEF Add
<1>2. ASSUME NEW c \in Channels, RemoveErase(c) PROVE NotifierInv'
  BY <1>2 DEF RemoveErase
<1>3. ASSUME NEW c \in Channels, RemoveSizeTest(c) PROVE NotifierInv'
  BY <1>3 DEF RemoveSizeTest
<1>4. ASSUME NEW c \in Channels, QueueStart(c) PROVE NotifierInv'
  <2>1. message' \in Messages /\ received' \in 0 .. MaxMessages
    BY <1>4 DEF QueueStart
  <2>2. CASE active
    BY <1>4, <2>1, <2>2 DEF QueueStart
  <2>3. CASE ~active
    BY <1>4, <2>1, <2>3 DEF QueueStart
  <2> QED
    BY <2>2, <2>3
<1>5. ASSUME QueueLookup PROVE NotifierInv'
  BY <1>5 DEF QueueLookup
<1>6. ASSUME QueuePush PROVE NotifierInv'
  BY <1>6 DEF QueuePush
<1>7. ASSUME QueueFlag PROVE NotifierInv'
  BY <1>7 DEF QueueFlag
<1>8. ASSUME SocketClose PROVE NotifierInv'
  BY <1>8 DEF SocketClose
<1>9. ASSUME CloseCallbacks PROVE NotifierInv'
  BY <1>9 DEF CloseCallbacks
<1>10. ASSUME NEW t \in Callers, CancelLock(t) PROVE NotifierInv'
  <2>1. /\ pc' \in [Callers -> CallerPc] /\ notifierMutex' \in Callers \cup {None}
        /\ pc[t] = "lock" /\ pc' = [pc EXCEPT ![t] = pc'[t]]
        /\ pc'[t] \in {"cancel", "callbacks", "gone"} /\ notifierMutex = None
        /\ pc'[t] = "cancel" => notifierMutex' = t
    BY <1>10 DEF CancelLock
  <2>2. UNCHANGED <<registered, message, queue, dataToNotify, active, cancelled, notifyMutex,
                    consumer, current, delivered, received, closes, accepted>>
    BY <1>10 DEF CancelLock
  <2>3. OneConsumerInv'
    BY <2>1, <2>2
  <2>4. CancelLocked'
    BY <2>1, <2>2
  <2> QED
    BY <2>1, <2>2, <2>3, <2>4
<1>11. ASSUME NEW t \in Callers, CancelToken(t) PROVE NotifierInv'
  BY <1>11 DEF CancelToken
<1>12. ASSUME NEW t \in Callers, CancelNotify(t) PROVE NotifierInv'
  BY <1>12 DEF CancelNotify
<1>13. ASSUME NEW t \in Callers, CancelJoin(t) PROVE NotifierInv'
  BY <1>13 DEF CancelJoin
<1>14. ASSUME ConsumerTest PROVE NotifierInv'
  BY <1>14 DEF ConsumerTest
<1>15. ASSUME ConsumerLock PROVE NotifierInv'
  BY <1>15 DEF ConsumerLock
<1>16. ASSUME ConsumerEval PROVE NotifierInv'
  BY <1>16 DEF ConsumerEval
<1>17. ASSUME ConsumerBlock PROVE NotifierInv'
  BY <1>17 DEF ConsumerBlock
<1>18. ASSUME ConsumerPop PROVE NotifierInv'
  <2>1. current' \in Messages /\ queue' \in Seq(Messages)
    BY <1>18, HeadTailProperties DEF ConsumerPop
  <2> QED
    BY <1>18, <2>1 DEF ConsumerPop
<1>19. ASSUME ConsumerCallback PROVE NotifierInv'
  BY <1>19 DEF ConsumerCallback
<1>20. ASSUME ConsumerEmpty PROVE NotifierInv'
  BY <1>20 DEF ConsumerEmpty
<1>21. ASSUME ConsumerReset PROVE NotifierInv'
  BY <1>21 DEF ConsumerReset
<1>22. ASSUME UNCHANGED vars PROVE NotifierInv'
  BY <1>22 DEF vars
<1> HIDE DEF NotifierInv, OneConsumerInv, TypeOK, OneConsumer, NoMissedNotification,
   AtHand, NotifyLocked, CancelLocked, Flagged
<1> QED
  BY <1>1, <1>2, <1>3, <1>4, <1>5, <1>6, <1>7, <1>8, <1>9, <1>10, <1>11, <1>12, <1>13,
     <1>14, <1>15, <1>16, <1>17, <1>18, <1>19, <1>20, <1>21, <1>22 DEF Next, NetStep,
     OwnerStep, Cancel, ConsumerStep, Callers

(* Only three steps touch the histories and the queue: a push, a pop and   *)
(* the end of a callback. Every other step leaves the consumer inside or   *)
(* outside of its callback, a restart too, since there is no consumer when *)
(* one is started.                                                         *)
LEMMA OrderStep == OrderInv /\ [Next]_vars => DeliveredInOrder'
<1> SUFFICES ASSUME OrderInv, [Next]_vars PROVE DeliveredInOrder'
  OBVIOUS
<1> DEFINE running == IF consumer = "callback" THEN <<current>> ELSE <<>>
<1>1. /\ queue \in Seq(Messages) /\ delivered \in Seq(Messages)
      /\ accepted \in Seq(Messages) /\ running \in Seq(Messages)
  BY DEF OrderInv, NotifierInv, OneConsumerInv, TypeOK, AtHand
<1>2. CASE QueuePush
  <2>1. message \in Messages
    BY <1>2 DEF OrderInv, NotifierInv, AtHand, QueuePush
  <2>2. running' = running /\ delivered' = delivered
    BY <1>2 DEF QueuePush, consumerVars
  <2>3. (delivered \o running) \o (queue \o <<message>>) = accepted \o <<message>>
    <3>1. <<message>> \in Seq(Messages) /\ delivered \o running \in Seq(Messages)
      BY <1>1, <2>1, ConcatProperties
    <3>2. (delivered \o running) \o queue = accepted
      BY DEF OrderInv, DeliveredInOrder
    <3> HIDE DEF running
    <3> QED
      BY <1>1, <3>1, <3>2, ConcatAssociative, SMTT(60)
  <2> QED
    BY <1>1, <1>2, <2>1, <2>2, <2>3, AppendIsConcat DEF QueuePush, DeliveredInOrder
<1>3. CASE ConsumerPop
  <2>1. /\ Head(queue) \in Messages /\ Tail(queue) \in Seq(Messages)
        /\ queue = <<Head(queue)>> \o Tail(queue)
    BY <1>1, <1>3, HeadTailProperties DEF ConsumerPop
  <2>2. delivered \o <<>> = delivered
    BY <1>1, ConcatEmptySeq
  <2>3. (delivered \o <<Head(queue)>>) \o Tail(queue) = delivered \o queue
    <3>1. <<Head(queue)>> \in Seq(Messages)
      BY <2>1
    <3> QED
      BY <1>1, <2>1, <3>1, ConcatAssociative
  <2> QED
    BY <1>3, <2>2, <2>3 DEF ConsumerPop, callerVars, OrderInv, DeliveredInOrder
<1>4. CASE ConsumerCallback
  <2>1. delivered' = delivered \o <<current>>
    BY <1>1, <1>4, AppendIsConcat DEF ConsumerCallback, OrderInv, NotifierInv, AtHand
  <2>2. delivered' \o <<>> = delivered'
    BY <1>1, <1>4, <2>1, ConcatEmptySeq, ConcatProperties DEF ConsumerCallback
  <2> QED
    BY <1>4, <2>1, <2>2 DEF ConsumerCallback, callerVars, OrderInv, DeliveredInOrder
<1>5. CASE ~QueuePush /\ ~ConsumerPop /\ ~ConsumerCallback
  <2>1. /\ UNCHANGED <<queue, accepted, delivered>>
        /\ (consumer' = "callback" <=> consumer = "callback")
        /\ (consumer = "callback" => current' = current)
    BY <1>5, NotifyAssumption DEF OrderInv, NotifierInv, OneConsumerInv, OneConsumer,
       Next, NetStep, OwnerStep, Cancel, ConsumerStep, vars, consumerVars, callerVars,
       inputs, Add, RemoveErase, RemoveSizeTest, QueueStart, QueueLookup, QueueFlag,
       SocketClose, CloseCallbacks, CancelLock, CancelToken, CancelNotify, CancelJoin,
       ConsumerTest, ConsumerLock, ConsumerEval, ConsumerBlock, ConsumerEmpty,
       ConsumerReset
  <2> QED
    BY <2>1 DEF OrderInv, DeliveredInOrder
<1> QED
  BY <1>2, <1>3, <1>4, <1>5

(* Nothing is queued and nobody runs.                                      *)
LEMMA InitNotifierInv == Init => NotifierInv
<1> SUFFICES ASSUME Init PROVE NotifierInv
  OBVIOUS
<1>1. TypeOK
  <2>1. pc \in [Callers -> CallerPc] /\ consumer \in ConsumerPc
    BY DEF Init, CallerPc, ConsumerPc
  <2>2. <<>> \in Seq(Messages)
    BY EmptySeq
  <2>3. received \in 0 .. MaxMessages /\ closes \in 0 .. MaxCloses
    BY NotifyAssumption DEF Init
  <2>4. dataToNotify \in BOOLEAN /\ active \in BOOLEAN /\ cancelled \in BOOLEAN
    BY DEF Init
  <2> QED
    BY <2>1, <2>2, <2>3, <2>4, Zenon DEF Init, TypeOK
<1>2. OneConsumer /\ NoMissedNotification
  BY DEF Init, OneConsumer, NoMissedNotification
<1>3. AtHand /\ NotifyLocked /\ CancelLocked /\ Flagged
  BY NotifyAssumption DEF Init, AtHand, NotifyLocked, CancelLocked, Flagged, Callers
<1> QED
  BY <1>1, <1>2, <1>3 DEF NotifierInv, OneConsumerInv

(* Types; a consumer thread exists exactly while _notifier_active is set,  *)
(* so that none is started over one that was not joined; and it never      *)
(* sleeps on a notification nobody is about to tell it of.                 *)
THEOREM OneConsumerAlways == Spec => []OneConsumerInv
<1>1. Init => NotifierInv
  BY InitNotifierInv
<1>2. NotifierInv => OneConsumerInv
  BY DEF NotifierInv
<1> QED
  BY <1>1, <1>2, NotifierInvStep, PTL DEF Spec

(* OrderInv is an invariant.                                               *)
LEMMA OrderInvAlways == Spec => []OrderInv
<1>1. Init => OrderInv
  BY InitNotifierInv DEF Init, OrderInv, DeliveredInOrder
<1>2. OrderInv /\ [Next]_vars => OrderInv'
  BY NotifierInvStep, OrderStep DEF OrderInv
<1> QED
  BY <1>1, <1>2, PTL DEF Spec

(* What callbacks were run on, what one runs on and what is queued is what *)
(* was accepted, in order: through every cancellation and restart of the   *)
(* consumer nothing is lost, repeated or overtaken.                        *)
THEOREM DeliveredInOrderAlways == Spec => []DeliveredInOrder
<1>1. OrderInv => DeliveredInOrder
  BY DEF OrderInv
<1> QED
  BY <1>1, OrderInvAlways, PTL

(* The notifier implements OrderedDelivery: a push is an Accept, the end   *)
(* of a callback the Deliver of the next one, all other steps are          *)
(* stutters.                                                               *)
THEOREM IsOrderedDelivery == Spec => Delivery!Spec
<1>1. Init => Delivery!Init
  BY DEF Init, Delivery!Init
<1>2. OrderInv /\ [Next]_vars => [Delivery!Next]_(Delivery!vars)
  <2> SUFFICES ASSUME OrderInv, [Next]_vars
               PROVE  Delivery!Next \/ UNCHANGED <<accepted, delivered>>
    BY DEF Delivery!vars
  <2>1. /\ queue \in Seq(Messages) /\ delivered \in Seq(Messages)
        /\ accepted \in Seq(Messages)
    BY DEF OrderInv, NotifierInv, OneConsumerInv, TypeOK
  <2>2. CASE QueuePush
    <3>1. message \in Messages
      BY <2>2 DEF OrderInv, NotifierInv, AtHand, QueuePush
    <3> QED
      BY <2>2, <3>1 DEF QueuePush, consumerVars, Delivery!Next, Delivery!Accept
  <2>3. CASE ConsumerCallback
    <3>1. current \in Messages /\ accepted = (delivered \o <<current>>) \o queue
      BY <2>3 DEF ConsumerCallback, OrderInv, NotifierInv, AtHand, DeliveredInOrder
    <3>2. /\ delivered \o <<current>> \in Seq(Messages)
          /\ Len(delivered \o <<current>>) = Len(delivered) + 1
          /\ (delivered \o <<current>>)[Len(delivered) + 1] = current
      BY <2>1, <3>1
    <3>3. Len(delivered) < Len(accepted) /\ accepted[Len(delivered) + 1] = current
      BY <2>1, <3>1, <3>2, ConcatProperties, LenProperties
    <3> QED
      BY <2>3, <3>3 DEF ConsumerCallback, callerVars, Delivery!Next, Delivery!Deliver
  <2>4. CASE ~QueuePush /\ ~ConsumerCallback
    BY <2>4 DEF Next, NetStep, OwnerStep, Cancel, ConsumerStep, vars, consumerVars,
       callerVars, Add, RemoveErase, RemoveSizeTest, QueueStart, QueueLookup, QueueFlag,
       SocketClose, CloseCallbacks, CancelLock, CancelToken, CancelNotify, CancelJoin,
       ConsumerTest, ConsumerLock, ConsumerEval, ConsumerBlock, ConsumerPop,
       ConsumerEmpty, ConsumerReset
  <2> QED
    BY <2>2, <2>3, <2>4
<1> QED
  BY <1>1, <1>2, OrderInvAlways, PTL DEF Spec, Delivery!Spec
=============================================================================
