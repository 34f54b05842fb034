--------------------------- MODULE MemberKeysProofs ---------------------------
(***************************************************************************)
(* Proofs about the keys of a container: how updates hand them out         *)
(* (ContainerKeys) and how a member uses what it has cached of them        *)
(* (ThreadKeyCache), for every set of users, any number of concurrent      *)
(* updates and calls and any number of versions, with and without a        *)
(* subscription for thread events.                                         *)
(*                                                                         *)
(* The first part is about ContainerKeys.  The argument: a call that is    *)
(* accepted with the version of the container has read exactly the         *)
(* container it replaces, because its version was not newer than what it   *)
(* read and every update makes a new version.  What UsersKeysResolver      *)
(* decides from that reading is then right.                                *)
(***************************************************************************)
EXTENDS ContainerKeys, ThreadKeyCache, TLAPS

(* Keys that are not current yet are unknown to everybody.                 *)
KeysAreOld ==
  /\ keyId <= lastKey
  /\ \A u \in Users : \A k \in given[u] : k <= lastKey

(* A call that has read the present version has read it as it is.          *)
ReadingsExact ==
  \A c \in Updates :
    /\ at[c] = "get" => user[c] \in Users /\ ver[c] <= version
    /\ at[c] = "update" =>
         /\ user[c] \in Users /\ seen[c] \in Snapshots
         /\ ver[c] <= seen[c].version /\ seen[c].version <= version
         /\ seen[c].keyId <= lastKey /\ \A k \in seen[c].keys : k <= lastKey
         /\ seen[c].version = version =>
              seen[c] = ThreadGet(user[c]) /\ MayUpdate(user[c])

(* The members have the current key, all in the same format, and the keys  *)
(* of all messages.                                                        *)
MembersServed ==
  overwritten = 0 =>
    /\ \A u \in members : keyId \in given[u] /\ sent \subseteq given[u]
    /\ \/ \A u \in members : keyId \in upgraded[u]
       \/ \A u \in members : keyId \notin upgraded[u]

KeysInv == KeysTypeOK /\ KeysAreOld /\ ReadingsExact
AccessInv == OnlyMembersHoldCurrentKey /\ MembersServed

-----------------------------------------------------------------------------

(* A container starts with its first key given to all members.            *)
LEMMA InitInv == KeysInit => KeysInv /\ AccessInv
<1> SUFFICES ASSUME KeysInit PROVE KeysInv /\ AccessInv
  OBVIOUS
<1>1. KeysTypeOK
  BY DEF KeysInit, KeysTypeOK, Keys
<1>2. KeysAreOld /\ ReadingsExact
  BY DEF KeysInit, KeysAreOld, ReadingsExact
<1>3. OnlyMembersHoldCurrentKey /\ MembersServed
  BY DEF KeysInit, OnlyMembersHoldCurrentKey, MembersServed
<1>4. QED
  BY <1>1, <1>2, <1>3 DEF KeysInv, AccessInv

(* What the server answers is a reading.                                   *)
LEMMA SnapshotType == ASSUME KeysTypeOK, NEW u \in Users PROVE ThreadGet(u) \in Snapshots
BY DEF KeysTypeOK, ThreadGet, Snapshots

(* What an update carries are keys the caller has and the new one.         *)
LEMMA KeysForType ==
  ASSUME NEW s \in Snapshots, NEW newMembers \in SUBSET Users, NEW newKey \in Keys,
         NEW u \in Users, NEW toAdd
  PROVE  /\ KeysFor(u, toAdd, s, newMembers, newKey) \in SUBSET Keys
         /\ \A k \in KeysFor(u, toAdd, s, newMembers, newKey) : k \in s.keys \/ k = newKey
BY DEF KeysFor, Snapshots

(* A call that ends changes nothing of the others.                         *)
LEMMA EndType ==
  ASSUME KeysTypeOK, NEW c \in Updates, EndUpdate(c)
  PROVE  /\ at' \in [Updates -> {"idle", "get", "update"}]
         /\ user' \in [Updates -> Users \cup {Nothing}]
         /\ ver' \in [Updates -> Nat]
         /\ seen' \in [Updates -> Snapshots \cup {Nothing}]
         /\ at'[c] = "idle"
         /\ \A d \in Updates \ {c} : /\ at'[d] = at[d] /\ user'[d] = user[d]
                                   /\ ver'[d] = ver[d] /\ seen'[d] = seen[d]
BY DEF EndUpdate, KeysTypeOK

(* The steps that leave the container alone.                               *)
LEMMA CallStep ==
  ASSUME KeysInv, AccessInv, NEW c \in Updates, UNCHANGED <<container, sent>>,
         \/ \E u \in Users, v \in 1 .. version : CallUpdateThread(c, u, v)
         \/ UpdateGet(c) \/ UpdateGetFails(c) \/ UpdateRejected(c)
  PROVE  KeysInv' /\ AccessInv'
<1> USE DEF KeysInv
<1>0. AccessInv' /\ KeysAreOld'
  BY DEF AccessInv, OnlyMembersHoldCurrentKey, MembersServed, KeysAreOld, container
<1>1. ASSUME NEW u \in Users, NEW v \in 1 .. version, CallUpdateThread(c, u, v)
      PROVE  KeysTypeOK' /\ ReadingsExact'
  <2>1. KeysTypeOK'
    BY <1>1 DEF CallUpdateThread, KeysTypeOK, container
  <2>2. ReadingsExact'
    BY <1>1 DEF CallUpdateThread, KeysTypeOK, ReadingsExact, container, ThreadGet, MayUpdate
  <2>3. QED
    BY <2>1, <2>2
<1>2. ASSUME UpdateGet(c)
      PROVE  KeysTypeOK' /\ ReadingsExact'
  <2>1. user[c] \in Users /\ ver[c] <= version
    BY <1>2 DEF UpdateGet, ReadingsExact
  <2>2. ThreadGet(user[c]) \in Snapshots
    BY <2>1, SnapshotType
  <2>3. KeysTypeOK'
    BY <1>2, <2>2 DEF UpdateGet, KeysTypeOK, container
  <2>4. ThreadGet(user[c])' = ThreadGet(user[c])
    BY <1>2 DEF UpdateGet, ThreadGet, container
  <2>5. ASSUME NEW d \in Updates, d # c
        PROVE  /\ at'[d] = at[d] /\ user'[d] = user[d]
               /\ ver'[d] = ver[d] /\ seen'[d] = seen[d]
    BY <1>2, <2>5 DEF UpdateGet, KeysTypeOK
  <2>6. /\ at'[c] = "update" /\ user'[c] = user[c] /\ ver'[c] = ver[c]
        /\ seen'[c] = ThreadGet(user[c]) /\ MayUpdate(user[c])
    BY <1>2 DEF UpdateGet, KeysTypeOK
  <2>7. /\ ThreadGet(user[c]).version = version /\ ThreadGet(user[c]).keyId = keyId
        /\ ThreadGet(user[c]).keys = given[user[c]]
    BY DEF ThreadGet
  <2>8. version' = version /\ lastKey' = lastKey /\ version \in Nat
    BY DEF container, KeysTypeOK
  <2>9. MayUpdate(user[c])'
    BY <1>2, <2>6 DEF UpdateGet, MayUpdate, container
  <2>10. ASSUME NEW d \in Updates, d # c
         PROVE  /\ ThreadGet(user[d])' = ThreadGet(user[d])
                /\ MayUpdate(user[d])' = MayUpdate(user[d])
    BY <2>5, <2>10 DEF ThreadGet, MayUpdate, container
  <2>11. \A k \in given[user[c]] : k <= lastKey
    BY <2>1 DEF KeysAreOld
  <2>12. keyId <= lastKey
    BY DEF KeysAreOld
  <2>13. ASSUME NEW d \in Updates
         PROVE  ReadingsExact!(d)'
    <3>1. CASE d = c
      BY <2>1, <2>2, <2>4, <2>6, <2>7, <2>8, <2>9, <2>11, <2>12, <3>1
    <3>2. CASE d # c
      BY <2>5, <2>8, <2>10, <3>2 DEF ReadingsExact
    <3>3. QED
      BY <3>1, <3>2
  <2>14. QED
    BY <2>3, <2>13 DEF ReadingsExact
<1>3. ASSUME EndUpdate(c)
      PROVE  KeysTypeOK' /\ ReadingsExact'
  <2>1. KeysTypeOK'
    BY <1>3, EndType DEF KeysTypeOK, container
  <2>2. ReadingsExact'
    BY <1>3, EndType DEF ReadingsExact, container, ThreadGet, MayUpdate
  <2>3. QED
    BY <2>1, <2>2
<1>4. QED
  BY <1>0, <1>1, <1>2, <1>3 DEF UpdateGetFails, UpdateRejected

(* A message uses the current key, which all members have.                 *)
LEMMA SendStep ==
  ASSUME KeysInv, AccessInv, NEW u \in Users, MessageSent(u)
  PROVE  KeysInv' /\ AccessInv'
<1> USE DEF KeysInv, AccessInv
<1>1. KeysTypeOK'
  BY DEF MessageSent, KeysTypeOK, container, calls
<1>2. KeysAreOld' /\ ReadingsExact' /\ OnlyMembersHoldCurrentKey'
  BY DEF MessageSent, KeysAreOld, ReadingsExact, OnlyMembersHoldCurrentKey,
         container, calls, ThreadGet, MayUpdate
<1>3. MembersServed'
  BY DEF MessageSent, MembersServed, container
<1>4. QED
  BY <1>1, <1>2, <1>3

(* An accepted update makes a new version, so that the other calls have    *)
(* read an older one, and generates a key nobody has.                      *)
LEMMA AcceptedKeysInv ==
  ASSUME KeysInv, NEW c \in Updates, NEW newMembers \in SUBSET Users,
         NEW new \in BOOLEAN, NEW force \in BOOLEAN,
         UpdateAccepted(c, newMembers, new, force)
  PROVE  KeysInv'
<1> USE DEF KeysInv
<1> DEFINE s == seen[c]
           needNewKey == DoNeedNewKey(s, newMembers, new)
           newKey == IF needNewKey THEN lastKey + 1 ELSE s.keyId
           toAdd == UsersToAddKey(s, newMembers)
           For(u) == KeysFor(u, toAdd, s, newMembers, newKey)
<1>1. /\ s \in Snapshots /\ s.keyId \in Keys /\ s.keyId <= lastKey
      /\ \A k \in s.keys : k <= lastKey
  BY DEF UpdateAccepted, ReadingsExact, Snapshots
<1>2. newKey \in Keys /\ lastKey \in Nat /\ version \in Nat
  BY <1>1 DEF KeysTypeOK, Keys
<1>3. /\ keyId' = newKey /\ version' = version + 1 /\ members' = newMembers
      /\ lastKey' = IF needNewKey THEN newKey ELSE lastKey
      /\ given' = [u \in Users |-> given[u] \cup For(u)]
      /\ upgraded' = [u \in Users |-> upgraded[u] \cup For(u)]
      /\ overwritten' \in {0, 1} /\ sent' = sent /\ EndUpdate(c)
  BY DEF UpdateAccepted, KeysTypeOK
<1>4. newKey <= lastKey' /\ lastKey <= lastKey' /\ lastKey' \in Keys
  BY <1>1, <1>2, <1>3 DEF Keys, KeysTypeOK
<1>5. ASSUME NEW u \in Users
      PROVE  For(u) \in SUBSET Keys /\ \A k \in For(u) : k \in s.keys \/ k = newKey
  BY <1>1, <1>2, KeysForType
<1> HIDE DEF s, needNewKey, newKey, toAdd, For
<1>6. KeysTypeOK'
  BY <1>2, <1>3, <1>4, <1>5, EndType DEF KeysTypeOK
<1>7. KeysAreOld'
  <2>1. ASSUME NEW u \in Users, NEW k \in given'[u]
        PROVE  k <= lastKey'
    <3>1. k \in Nat /\ lastKey' \in Nat
      BY <1>6, <2>1 DEF KeysTypeOK, Keys
    <3>2. k \in given[u] \/ k \in s.keys \/ k = newKey
      BY <1>3, <1>5, <2>1
    <3>3. k <= lastKey \/ k = newKey
      BY <1>1, <3>2 DEF KeysAreOld
    <3>4. QED
      BY <1>2, <1>4, <3>1, <3>3
  <2>2. QED
    BY <1>3, <1>4, <2>1 DEF KeysAreOld
<1>8. ReadingsExact'
  <2>1. ASSUME NEW d \in Updates
        PROVE  ReadingsExact!(d)'
    <3>1. CASE d = c
      BY <1>3, <3>1, EndType
    <3>2. CASE d # c /\ at[d] = "get"
      <4>1. ver[d] \in Nat
        BY DEF KeysTypeOK
      <4>2. QED
        BY <1>2, <1>3, <3>2, <4>1, EndType DEF ReadingsExact
    <3>3. CASE d # c /\ at[d] = "update"
      <4>1. /\ user[d] \in Users /\ seen[d] \in Snapshots
            /\ ver[d] <= seen[d].version /\ seen[d].version <= version
            /\ seen[d].keyId <= lastKey /\ \A k \in seen[d].keys : k <= lastKey
        BY <3>3 DEF ReadingsExact
      <4>2. /\ seen[d].version \in Nat /\ seen[d].keyId \in Nat
            /\ \A k \in seen[d].keys : k \in Nat
        BY <4>1 DEF Snapshots, Keys
      <4>3. lastKey' \in Nat
        BY <1>4 DEF Keys
      <4>4. seen[d].keyId <= lastKey' /\ \A k \in seen[d].keys : k <= lastKey'
        BY <1>2, <1>4, <4>1, <4>2, <4>3
      <4>5. seen[d].version <= version' /\ seen[d].version # version'
        BY <1>2, <1>3, <4>1, <4>2
      <4>6. QED
        BY <1>3, <3>3, <4>1, <4>4, <4>5, EndType
    <3>4. CASE d # c /\ at[d] = "idle"
      BY <1>3, <3>4, EndType
    <3>5. QED
      BY <3>1, <3>2, <3>3, <3>4 DEF KeysTypeOK
  <2>2. QED
    BY <2>1 DEF ReadingsExact
<1>9. QED
  BY <1>6, <1>7, <1>8

(* An update that is not forced over another one decides from the          *)
(* container it replaces, and decides well.                                *)
LEMMA AcceptedAccessInv ==
  ASSUME KeysInv, AccessInv, NEW c \in Updates, NEW newMembers \in SUBSET Users,
         NEW new \in BOOLEAN, NEW force \in BOOLEAN,
         UpdateAccepted(c, newMembers, new, force)
  PROVE  AccessInv'
<1> USE DEF KeysInv, AccessInv
<1> SUFFICES ASSUME overwritten' = 0 PROVE AccessInv'
  BY DEF OnlyMembersHoldCurrentKey, MembersServed
<1> DEFINE s == seen[c]
           needNewKey == DoNeedNewKey(s, newMembers, new)
           newKey == IF needNewKey THEN lastKey + 1 ELSE s.keyId
           toAdd == UsersToAddKey(s, newMembers)
           For(u) == KeysFor(u, toAdd, s, newMembers, newKey)
<1>1. overwritten = 0 /\ ver[c] = version
  BY DEF UpdateAccepted, KeysTypeOK
<1>2. user[c] \in Users /\ s = ThreadGet(user[c]) /\ MayUpdate(user[c])
  <2>1. /\ user[c] \in Users /\ s \in Snapshots
        /\ ver[c] <= s.version /\ s.version <= version
        /\ s.version = version => s = ThreadGet(user[c]) /\ MayUpdate(user[c])
    BY DEF UpdateAccepted, ReadingsExact
  <2>2. s.version \in Nat /\ version \in Nat
    BY <2>1 DEF Snapshots, KeysTypeOK
  <2>3. QED
    BY <1>1, <2>1, <2>2
<1>3. /\ s.members = members /\ s.keyId = keyId
      /\ s.keys = given[user[c]] /\ s.v2 = upgraded[user[c]]
      /\ user[c] \in members /\ keyId \in s.keys
  BY <1>2 DEF ThreadGet, MayUpdate
<1>4. /\ keyId' = newKey /\ members' = newMembers /\ sent' = sent
      /\ given' = [u \in Users |-> given[u] \cup For(u)]
      /\ upgraded' = [u \in Users |-> upgraded[u] \cup For(u)]
  BY DEF UpdateAccepted
<1>5. /\ needNewKey => newKey = lastKey + 1
      /\ ~needNewKey => newKey = keyId /\ members \subseteq newMembers
  BY <1>3 DEF DoNeedNewKey
<1>6. toAdd \subseteq newMembers /\ newMembers \ members \subseteq toAdd
  BY <1>3 DEF UsersToAddKey
<1>7. /\ \A u \in members : keyId \in given[u] /\ sent \subseteq given[u]
      /\ \/ \A u \in members : keyId \in upgraded[u]
         \/ \A u \in members : keyId \notin upgraded[u]
      /\ \A u \in Users : keyId \in given[u] => u \in members
  BY <1>1 DEF MembersServed, OnlyMembersHoldCurrentKey
<1>8. needNewKey => /\ newKey # keyId /\ newKey \notin s.keys
                    /\ \A u \in Users : newKey \notin given[u]
  <2>1. lastKey \in Nat /\ keyId \in Nat /\ keyId <= lastKey
    BY DEF KeysTypeOK, Keys, KeysAreOld
  <2>2. \A u \in Users : \A k \in given[u] : k \in Nat /\ k <= lastKey
    BY DEF KeysTypeOK, Keys, KeysAreOld
  <2>3. \A u \in Users : lastKey + 1 \notin given[u]
    BY <2>1, <2>2
  <2>4. keyId # lastKey + 1
    BY <2>1
  <2>5. QED
    BY <1>2, <1>3, <1>5, <2>3, <2>4
<1>9. \A u : For(u) = (IF u \in toAdd THEN s.keys ELSE {}) \cup
                     (IF newKey # keyId /\ u \in newMembers THEN {newKey} ELSE {})
  BY <1>3 DEF KeysFor
<1>10. keyId \notin s.v2 => toAdd = newMembers
  BY <1>3 DEF UsersToAddKey
<1> HIDE DEF s, needNewKey, newKey, toAdd, For
<1>11. ASSUME NEW u \in Users, newKey \in given'[u]
       PROVE  u \in newMembers
  <2>1. newKey \in given[u] \/ newKey \in For(u)
    BY <1>4, <1>11
  <2>2. CASE needNewKey
    BY <1>8, <1>9, <2>1, <2>2
  <2>3. CASE ~needNewKey
    BY <1>5, <1>6, <1>7, <1>9, <2>1, <2>3
  <2>4. QED
    BY <2>2, <2>3
<1>12. ASSUME NEW u \in newMembers
       PROVE  newKey \in given'[u] /\ sent \subseteq given'[u]
  <2>1. sent \cup {keyId} \subseteq given'[u]
    <3>1. CASE u \in members
      BY <1>4, <1>7, <3>1
    <3>2. CASE u \notin members
      <4>1. sent \cup {keyId} \subseteq s.keys
        BY <1>3, <1>7
      <4>2. u \in toAdd
        BY <1>6, <3>2
      <4>3. QED
        BY <1>4, <1>9, <4>1, <4>2
    <3>3. QED
      BY <3>1, <3>2
  <2>2. newKey \in given'[u]
    BY <1>4, <1>9, <2>1
  <2>3. QED
    BY <2>1, <2>2
<1>13. \/ \A u \in newMembers : newKey \in upgraded'[u]
       \/ \A u \in newMembers : newKey \notin upgraded'[u]
  <2>1. CASE newKey # keyId
    BY <1>4, <1>9, <2>1
  <2>2. CASE newKey = keyId /\ keyId \notin s.v2
    BY <1>3, <1>4, <1>9, <1>10, <2>2
  <2>3. CASE newKey = keyId /\ keyId \in s.v2
    <3>1. \A u \in members : keyId \in upgraded[u]
      BY <1>3, <1>7, <2>3
    <3>2. ASSUME NEW u \in newMembers
          PROVE  keyId \in upgraded'[u]
      <4>1. CASE u \in members
        BY <1>4, <3>1, <4>1
      <4>2. CASE u \notin members
        BY <1>3, <1>4, <1>6, <1>9, <4>2
      <4>3. QED
        BY <4>1, <4>2
    <3>3. QED
      BY <2>3, <3>2
  <2>4. QED
    BY <2>1, <2>2, <2>3
<1>14. QED
  BY <1>4, <1>11, <1>12, <1>13 DEF OnlyMembersHoldCurrentKey, MembersServed

(* updateThread keeps the bookkeeping of keys and the access of members    *)
(* right; the invariant behind the theorems that follow.                   *)
THEOREM Access == KeysSpec => [](KeysInv /\ AccessInv)
<1>1. KeysInv /\ AccessInv /\ [KeysNext]_(keyVars) => (KeysInv /\ AccessInv)'
  <2> SUFFICES ASSUME KeysInv, AccessInv, [KeysNext]_(keyVars) PROVE (KeysInv /\ AccessInv)'
    OBVIOUS
  <2>1. ASSUME NEW u \in Users, MessageSent(u) PROVE (KeysInv /\ AccessInv)'
    BY <2>1, SendStep
  <2>2. ASSUME NEW c \in Updates, NEW u \in Users, NEW v \in 1 .. version, CallUpdateThread(c, u, v)
        PROVE  (KeysInv /\ AccessInv)'
    BY <2>2, CallStep DEF CallUpdateThread
  <2>3. ASSUME NEW c \in Updates, UpdateGet(c) \/ UpdateGetFails(c) \/ UpdateRejected(c)
        PROVE  (KeysInv /\ AccessInv)'
    BY <2>3, CallStep DEF UpdateGet, UpdateGetFails, UpdateRejected
  <2>4. ASSUME NEW c \in Updates, NEW newMembers \in SUBSET Users \ {{}},
               NEW new \in BOOLEAN, NEW force \in BOOLEAN,
               UpdateAccepted(c, newMembers, new, force)
        PROVE  (KeysInv /\ AccessInv)'
    BY <2>4, AcceptedKeysInv, AcceptedAccessInv
  <2>5. ASSUME UNCHANGED keyVars PROVE (KeysInv /\ AccessInv)'
    BY <2>5 DEF keyVars, container, calls, KeysInv, AccessInv, KeysTypeOK, KeysAreOld, ReadingsExact,
                OnlyMembersHoldCurrentKey, MembersServed, ThreadGet, MayUpdate
  <2>6. QED
    BY <2>1, <2>2, <2>3, <2>4, <2>5 DEF KeysNext
<1>2. QED
  BY <1>1, InitInv, PTL DEF KeysSpec

(* A removed user never holds the current key of the container, whatever   *)
(* the members do at the same time, unless an update was forced over       *)
(* another one.                                                            *)
THEOREM RemovedUsersLoseAccess == KeysSpec => []OnlyMembersHoldCurrentKey
<1>1. AccessInv => OnlyMembersHoldCurrentKey
  BY DEF AccessInv
<1>2. QED
  BY <1>1, Access, PTL

(* Every member holds the keys of all messages, those sent before the      *)
(* member was added included.                                              *)
THEOREM MembersReadAll == KeysSpec => []MembersHoldSentKeys
<1>1. AccessInv => MembersHoldSentKeys
  BY DEF AccessInv, MembersServed, MembersHoldSentKeys
<1>2. QED
  BY <1>1, Access, PTL

(* The members agree on the format of the current key.                     *)
THEOREM FormatAgreed == KeysSpec => []KeyFormatAgreed
<1>1. AccessInv => KeyFormatAgreed
  BY DEF AccessInv, MembersServed, KeyFormatAgreed
<1>2. QED
  BY <1>1, Access, PTL

-----------------------------------------------------------------------------
(* The key cache of a member.                                              *)

(* What was read of the thread at some time is not ahead of it.            *)
NotAhead(old) ==
  /\ old.version <= thread.version /\ old.keyId <= thread.keyId
  /\ old.schema <= thread.schema

(* Which operation can be where.                                           *)
Placed(c) ==
  \/ pc[c] = "idle" /\ op[c] = "none"
  \/ pc[c] = "keys" /\ op[c] \in {"send", "get"}
  \/ pc[c] = "fetch" /\ op[c] \in {"send", "get", "read"}
  \/ pc[c] = "set" /\ op[c] \in {"send", "get", "read", "event"}
  \/ pc[c] = "decrypt" /\ op[c] \in {"get", "read"}
  \/ pc[c] = "send" /\ op[c] = "send"
  \/ pc[c] = "invalidate" /\ op[c] \in {"event", "update", "delete"}

Operations == {"none", "send", "get", "read", "event", "update", "delete"}

(* The types of the variables TypeOK leaves out.                           *)
ControlOK ==
  /\ op \in [Calls -> Operations]
  /\ \A c \in Calls : Placed(c)

(* The cache, the notifications and the calls hold threads of the past.    *)
OldThreads ==
  /\ cache # None => NotAhead(cache)
  /\ \A e \in events : e # None => NotAhead(e)
  /\ \A c \in Calls : snap[c] # None => NotAhead(snap[c])

(* The present thread has the keys of all messages, and so have the keys a *)
(* call is going to decrypt with.                                          *)
KeysSuffice ==
  /\ \A m \in messages : Readable(m, thread)
  /\ \A c \in Calls : \A m \in need[c] : m \in messages
  /\ \A c \in Calls : op[c] \notin {"get", "read"} => need[c] = {}
  /\ \A c \in Calls : pc[c] \in {"set", "decrypt"} =>
       \A m \in need[c] : Readable(m, snap[c])

(* A sendMessage that has asked for the newest keys has them, unless they  *)
(* were replaced since.                                                    *)
RetriesFresh ==
  \A c \in Calls : retried[c] =>
    /\ pc[c] \in {"fetch", "set", "send"} /\ op[c] = "send"
    /\ pc[c] # "fetch" => snap[c].keyId = thread.keyId \/ rotated[c]

(* The inductive invariant behind MembersCanRead.                          *)
ReadInv == TypeOK /\ ControlOK /\ OldThreads /\ KeysSuffice /\ MembersCanRead

(* The two flags of a call.                                                *)
FlagsOK == retried \in [Calls -> BOOLEAN] /\ rotated \in [Calls -> BOOLEAN]

(* The inductive invariant behind RefusedOnlyByRotation.                   *)
SendInv == ReadInv /\ FlagsOK /\ RetriesFresh /\ RefusedOnlyByRotation

(* As long as anything outdated is in the cache or on its way to it, the   *)
(* cache holds the newest version or will be given it.                     *)
CatchingUp ==
  Subscribed /\ ~raced /\ (Outdated(cache) \/ OutdatedUnderWay) =>
    (cache # None /\ cache.version = thread.version) \/ NewestUnderWay

(* The inductive invariant behind OutdatedIsCaughtUp.                      *)
CacheInv == ReadInv /\ CatchingUp

(* A new thread, an empty cache and no call under way.                     *)
LEMMA InitReadInv == Init => ReadInv
<1> SUFFICES ASSUME Init PROVE ReadInv
  OBVIOUS
<1>1. thread \in Threads
  BY DEF Init, Threads
<1>2. TypeOK
  BY <1>1 DEF Init, TypeOK, Outcomes
<1>3. ControlOK
  BY DEF Init, ControlOK, Placed, Operations
<1>4. OldThreads /\ KeysSuffice /\ MembersCanRead
  BY DEF Init, OldThreads, KeysSuffice, MembersCanRead
<1> QED
  BY <1>2, <1>3, <1>4 DEF ReadInv

(* Every step keeps ReadInv.  The cases that matter: a message is accepted *)
(* with the current key only (SendAccepted); a call decrypts with keys     *)
(* that were either found to be enough (GetModuleKeys) or read after the   *)
(* messages (Fetch); nothing else changes the keys a call holds.           *)
LEMMA ReadInvStep == ReadInv /\ [Next]_vars => ReadInv'
<1> SUFFICES ASSUME ReadInv, [Next]_vars PROVE ReadInv'
  OBVIOUS
<1> USE CacheAssumption DEF ReadInv, TypeOK, ControlOK, Placed, Operations, OldThreads,
    NotAhead, KeysSuffice, MembersCanRead, Readable, Threads, Messages, Outcomes, Set,
    Goto, server, cached, local
<1>1. ASSUME NEW c \in Calls, SendMessage(c) PROVE ReadInv'
  BY <1>1 DEF SendMessage, Start
<1>2. ASSUME NEW c \in Calls, GetMessage(c) PROVE ReadInv'
  BY <1>2 DEF GetMessage, Start
<1>3. ASSUME NEW c \in Calls, ReadThread(c) PROVE ReadInv'
  BY <1>3 DEF ReadThread, Start
<1>4. ASSUME NEW c \in Calls, ProcessNotificationEvent(c) PROVE ReadInv'
  <2> PICK e \in events : ProcessNotificationEvent(c)!(e)
    BY <1>4 DEF ProcessNotificationEvent
  <2>1. e \in Threads \cup {None} /\ need[c] = {}
    OBVIOUS
  <2> QED
    BY <2>1
<1>5. ASSUME NEW c \in Calls, GetModuleKeys(c) PROVE ReadInv'
  BY <1>5 DEF GetModuleKeys, Goto, HasKeys, MinimumSchema
<1>6. ASSUME NEW c \in Calls, Fetch(c) PROVE ReadInv'
  BY <1>6 DEF Fetch, Goto
<1>7. ASSUME NEW c \in Calls, FetchFails(c) PROVE ReadInv'
  BY <1>7 DEF FetchFails, End
<1>8. ASSUME NEW c \in Calls, SetKeysInCache(c) PROVE ReadInv'
  <2>1. cache' \in Threads /\ NotAhead(cache')
    BY <1>8 DEF SetKeysInCache, CacheSet
  <2>2. CASE op[c] = "send"
    BY <1>8, <2>1, <2>2 DEF SetKeysInCache, Continue
  <2>3. CASE op[c] \in {"get", "read"}
    BY <1>8, <2>1, <2>3 DEF SetKeysInCache, Continue
  <2>4. CASE op[c] = "event"
    BY <1>8, <2>1, <2>4, SMTT(60) DEF SetKeysInCache, End
  <2> QED
    BY <1>8, <2>2, <2>3, <2>4 DEF SetKeysInCache
<1>9. ASSUME NEW c \in Calls, Invalidate(c) PROVE ReadInv'
  BY <1>9 DEF Invalidate, ClearCache, End
<1>10. ASSUME NEW c \in Calls, Decrypt(c) PROVE ReadInv'
  BY <1>10 DEF Decrypt, End
<1>11. ASSUME NEW c \in Calls, SendAccepted(c) PROVE ReadInv'
  BY <1>11 DEF SendAccepted, End
<1>12. ASSUME NEW c \in Calls, SendRefused(c) PROVE ReadInv'
  <2>1. CASE retried[c]
    BY <1>12, <2>1, SMTT(60) DEF SendRefused, End
  <2>2. CASE ~retried[c]
    BY <1>12, <2>2 DEF SendRefused
  <2> QED
    BY <2>1, <2>2
<1>13. ASSUME NEW c \in Calls, SendFails(c) PROVE ReadInv'
  BY <1>13 DEF SendFails, End
<1>14. ASSUME NEW c \in Calls, NEW newKey \in BOOLEAN, UpdateThread(c, newKey)
      PROVE ReadInv'
  BY <1>14 DEF UpdateThread, Updated, NewVersion, Rotations
<1>15. ASSUME NEW c \in Calls, DeleteThread(c) PROVE ReadInv'
  BY <1>15 DEF DeleteThread, Deleted
<1>16. ASSUME NEW newKey \in BOOLEAN, OtherUpdates(newKey) PROVE ReadInv'
  BY <1>16 DEF OtherUpdates, Updated, NewVersion, Rotations
<1>17. ASSUME OtherSends PROVE ReadInv'
  BY <1>17 DEF OtherSends
<1>18. ASSUME OtherDeletes PROVE ReadInv'
  BY <1>18 DEF OtherDeletes, Deleted
<1>19. ASSUME ProcessConnectedEvent PROVE ReadInv'
  BY <1>19 DEF ProcessConnectedEvent, ClearCache
<1>20. ASSUME UNCHANGED vars PROVE ReadInv'
  BY <1>20 DEF vars
<1> HIDE DEF ReadInv, TypeOK, ControlOK, Placed, Operations, OldThreads, NotAhead,
    KeysSuffice, MembersCanRead
<1>21. QED
  BY <1>1, <1>2, <1>3, <1>4, <1>5, <1>6, <1>7, <1>8, <1>9, <1>10, <1>11, <1>12, <1>13,
      <1>14, <1>15, <1>16, <1>17, <1>18, <1>19, <1>20 DEF Next

(* The flags of calls stay flags.                                          *)
LEMMA FlagsStep == FlagsOK /\ [Next]_vars => FlagsOK'
<1> SUFFICES ASSUME FlagsOK, [Next]_vars PROVE FlagsOK'
  OBVIOUS
<1> USE DEF FlagsOK, Set, Goto, server, cached, local
<1>1. ASSUME NEW c \in Calls, SendMessage(c) PROVE FlagsOK'
  BY <1>1 DEF SendMessage, Start
<1>2. ASSUME NEW c \in Calls, GetMessage(c) PROVE FlagsOK'
  BY <1>2 DEF GetMessage, Start
<1>3. ASSUME NEW c \in Calls, ReadThread(c) PROVE FlagsOK'
  BY <1>3 DEF ReadThread, Start
<1>4. ASSUME NEW c \in Calls, ProcessNotificationEvent(c) PROVE FlagsOK'
  BY <1>4 DEF ProcessNotificationEvent
<1>5. ASSUME NEW c \in Calls, GetModuleKeys(c) PROVE FlagsOK'
  BY <1>5 DEF GetModuleKeys
<1>6. ASSUME NEW c \in Calls, Fetch(c) PROVE FlagsOK'
  BY <1>6 DEF Fetch
<1>7. ASSUME NEW c \in Calls, FetchFails(c) PROVE FlagsOK'
  BY <1>7 DEF FetchFails, End
<1>8. ASSUME NEW c \in Calls, SetKeysInCache(c) PROVE FlagsOK'
  BY <1>8 DEF SetKeysInCache, End, Continue
<1>9. ASSUME NEW c \in Calls, Invalidate(c) PROVE FlagsOK'
  BY <1>9 DEF Invalidate, ClearCache, End
<1>10. ASSUME NEW c \in Calls, Decrypt(c) PROVE FlagsOK'
  BY <1>10 DEF Decrypt, End
<1>11. ASSUME NEW c \in Calls, SendAccepted(c) PROVE FlagsOK'
  BY <1>11 DEF SendAccepted, End
<1>12. ASSUME NEW c \in Calls, SendRefused(c) PROVE FlagsOK'
  BY <1>12 DEF SendRefused, End
<1>13. ASSUME NEW c \in Calls, SendFails(c) PROVE FlagsOK'
  BY <1>13 DEF SendFails, End
<1>14. ASSUME NEW c \in Calls, NEW newKey \in BOOLEAN, UpdateThread(c, newKey)
      PROVE FlagsOK'
  BY <1>14 DEF UpdateThread, Updated, NewVersion, Rotations
<1>15. ASSUME NEW c \in Calls, DeleteThread(c) PROVE FlagsOK'
  BY <1>15 DEF DeleteThread, Deleted
<1>16. ASSUME NEW newKey \in BOOLEAN, OtherUpdates(newKey) PROVE FlagsOK'
  BY <1>16 DEF OtherUpdates, Updated, NewVersion, Rotations
<1>17. ASSUME OtherSends PROVE FlagsOK'
  BY <1>17 DEF OtherSends
<1>18. ASSUME OtherDeletes PROVE FlagsOK'
  BY <1>18 DEF OtherDeletes, Deleted
<1>19. ASSUME ProcessConnectedEvent PROVE FlagsOK'
  BY <1>19 DEF ProcessConnectedEvent, ClearCache
<1>20. ASSUME UNCHANGED vars PROVE FlagsOK'
  BY <1>20 DEF vars
<1> HIDE DEF FlagsOK
<1>21. QED
  BY <1>1, <1>2, <1>3, <1>4, <1>5, <1>6, <1>7, <1>8, <1>9, <1>10, <1>11, <1>12, <1>13,
      <1>14, <1>15, <1>16, <1>17, <1>18, <1>19, <1>20 DEF Next

(* Every step keeps SendInv: the second attempt has read the thread after  *)
(* the first was refused (Fetch), and whoever replaces the key since marks *)
(* the call (UpdateThread, OtherUpdates).                                  *)
LEMMA SendInvStep == SendInv /\ [Next]_vars => SendInv'
<1> SUFFICES ASSUME SendInv, [Next]_vars PROVE RetriesFresh' /\ RefusedOnlyByRotation'
  BY ReadInvStep, FlagsStep DEF SendInv
<1> USE DEF SendInv, FlagsOK, RetriesFresh, RefusedOnlyByRotation, ReadInv, TypeOK,
    ControlOK, Placed, Threads, Set, Goto, server, cached, local
<1>1. ASSUME NEW c \in Calls, SendMessage(c)
      PROVE RetriesFresh' /\ RefusedOnlyByRotation'
  BY <1>1 DEF SendMessage, Start
<1>2. ASSUME NEW c \in Calls, GetMessage(c)
      PROVE RetriesFresh' /\ RefusedOnlyByRotation'
  BY <1>2 DEF GetMessage, Start
<1>3. ASSUME NEW c \in Calls, ReadThread(c)
      PROVE RetriesFresh' /\ RefusedOnlyByRotation'
  BY <1>3 DEF ReadThread, Start
<1>4. ASSUME NEW c \in Calls, ProcessNotificationEvent(c)
      PROVE RetriesFresh' /\ RefusedOnlyByRotation'
  BY <1>4 DEF ProcessNotificationEvent
<1>5. ASSUME NEW c \in Calls, GetModuleKeys(c)
      PROVE RetriesFresh' /\ RefusedOnlyByRotation'
  BY <1>5 DEF GetModuleKeys
<1>6. ASSUME NEW c \in Calls, Fetch(c) PROVE RetriesFresh' /\ RefusedOnlyByRotation'
  BY <1>6 DEF Fetch
<1>7. ASSUME NEW c \in Calls, FetchFails(c)
      PROVE RetriesFresh' /\ RefusedOnlyByRotation'
  BY <1>7 DEF FetchFails, End
<1>8. ASSUME NEW c \in Calls, SetKeysInCache(c)
      PROVE RetriesFresh' /\ RefusedOnlyByRotation'
  BY <1>8 DEF SetKeysInCache, End, Continue
<1>9. ASSUME NEW c \in Calls, Invalidate(c)
      PROVE RetriesFresh' /\ RefusedOnlyByRotation'
  BY <1>9 DEF Invalidate, ClearCache, End
<1>10. ASSUME NEW c \in Calls, Decrypt(c) PROVE RetriesFresh' /\ RefusedOnlyByRotation'
  BY <1>10 DEF Decrypt, End
<1>11. ASSUME NEW c \in Calls, SendAccepted(c)
      PROVE RetriesFresh' /\ RefusedOnlyByRotation'
  BY <1>11 DEF SendAccepted, End
<1>12. ASSUME NEW c \in Calls, SendRefused(c)
      PROVE RetriesFresh' /\ RefusedOnlyByRotation'
  BY <1>12 DEF SendRefused, End
<1>13. ASSUME NEW c \in Calls, SendFails(c)
      PROVE RetriesFresh' /\ RefusedOnlyByRotation'
  BY <1>13 DEF SendFails, End
<1>14. ASSUME NEW c \in Calls, NEW newKey \in BOOLEAN, UpdateThread(c, newKey)
      PROVE RetriesFresh' /\ RefusedOnlyByRotation'
  BY <1>14 DEF UpdateThread, Updated, NewVersion, Rotations
<1>15. ASSUME NEW c \in Calls, DeleteThread(c)
      PROVE RetriesFresh' /\ RefusedOnlyByRotation'
  BY <1>15 DEF DeleteThread, Deleted
<1>16. ASSUME NEW newKey \in BOOLEAN, OtherUpdates(newKey)
      PROVE RetriesFresh' /\ RefusedOnlyByRotation'
  BY <1>16 DEF OtherUpdates, Updated, NewVersion, Rotations
<1>17. ASSUME OtherSends PROVE RetriesFresh' /\ RefusedOnlyByRotation'
  BY <1>17 DEF OtherSends
<1>18. ASSUME OtherDeletes PROVE RetriesFresh' /\ RefusedOnlyByRotation'
  BY <1>18 DEF OtherDeletes, Deleted
<1>19. ASSUME ProcessConnectedEvent PROVE RetriesFresh' /\ RefusedOnlyByRotation'
  BY <1>19 DEF ProcessConnectedEvent, ClearCache
<1>20. ASSUME UNCHANGED vars PROVE RetriesFresh' /\ RefusedOnlyByRotation'
  BY <1>20 DEF vars
<1> HIDE DEF SendInv, FlagsOK, RetriesFresh, RefusedOnlyByRotation, ReadInv, TypeOK,
    ControlOK, Placed
<1>21. QED
  BY <1>1, <1>2, <1>3, <1>4, <1>5, <1>6, <1>7, <1>8, <1>9, <1>10, <1>11, <1>12, <1>13,
      <1>14, <1>15, <1>16, <1>17, <1>18, <1>19, <1>20 DEF Next

(* Every step keeps CatchingUp.  An update puts its notification under     *)
(* way; a notification taken up and an answer (ProcessNotificationEvent,   *)
(* Fetch) are still under way; what is written last is the newest version  *)
(* and stays in the cache (SetKeysInCache), unless it is removed: then     *)
(* nothing outdated is left, or raced says so (ClearCache).                *)
LEMMA CatchingUpStep == CacheInv /\ [Next]_vars => CatchingUp'
<1> SUFFICES ASSUME CacheInv, [Next]_vars PROVE CatchingUp'
  OBVIOUS
<1> USE CacheAssumption DEF CacheInv, CatchingUp, Outdated, OutdatedUnderWay, NewestUnderWay,
    ReadInv, TypeOK, ControlOK, Placed, OldThreads, NotAhead, Threads, Set, Goto, server,
    cached, local
<1>1. ASSUME NEW c \in Calls, SendMessage(c) PROVE CatchingUp'
  BY <1>1 DEF SendMessage, Start
<1>2. ASSUME NEW c \in Calls, GetMessage(c) PROVE CatchingUp'
  BY <1>2 DEF GetMessage, Start
<1>3. ASSUME NEW c \in Calls, ReadThread(c) PROVE CatchingUp'
  BY <1>3 DEF ReadThread, Start
<1>4. ASSUME NEW c \in Calls, ProcessNotificationEvent(c) PROVE CatchingUp'
  BY <1>4 DEF ProcessNotificationEvent
<1>5. ASSUME NEW c \in Calls, GetModuleKeys(c) PROVE CatchingUp'
  BY <1>5 DEF GetModuleKeys
<1>6. ASSUME NEW c \in Calls, Fetch(c) PROVE CatchingUp'
  BY <1>6 DEF Fetch
<1>7. ASSUME NEW c \in Calls, FetchFails(c) PROVE CatchingUp'
  BY <1>7 DEF FetchFails, End
<1>8. ASSUME NEW c \in Calls, SetKeysInCache(c) PROVE CatchingUp'
  <2>1. /\ snap[c] \in Threads /\ snap[c].version <= thread.version
        /\ cache' = CacheSet(snap[c]) /\ raced' = (raced /\ cache'.version # thread.version)
        /\ UNCHANGED <<thread, events>>
    BY <1>8 DEF SetKeysInCache
  <2>2. /\ pc'[c] # "set"
        /\ \A d \in Calls \ {c} : pc'[d] = pc[d] /\ snap'[d] = snap[d]
    BY <1>8 DEF SetKeysInCache, Continue, End
  <2>3. CASE snap[c].version = thread.version
    BY <2>1, <2>3 DEF CacheSet
  <2>4. CASE snap[c].version < thread.version
    <3>1. OutdatedUnderWay
      BY <1>8, <2>4 DEF SetKeysInCache
    <3>2. CASE cache # None /\ cache.version = thread.version
      BY <2>1, <2>4, <3>2 DEF CacheSet
    <3>3. CASE NewestUnderWay
      BY <2>1, <2>2, <2>4, <3>3
    <3>4. CASE raced
      BY <2>1, <2>4, <3>4 DEF CacheSet
    <3> QED
      BY <2>1, <3>1, <3>2, <3>3, <3>4
  <2>5. snap[c].version = thread.version \/ snap[c].version < thread.version
    <3>1. thread \in Threads
      OBVIOUS
    <3> QED
      BY ONLY <2>1, <3>1 DEF Threads
  <2> HIDE DEF CatchingUp
  <2> QED
    BY <2>3, <2>4, <2>5
<1>9. ASSUME NEW c \in Calls, Invalidate(c) PROVE CatchingUp'
  BY <1>9 DEF Invalidate, ClearCache, End
<1>10. ASSUME NEW c \in Calls, Decrypt(c) PROVE CatchingUp'
  BY <1>10 DEF Decrypt, End
<1>11. ASSUME NEW c \in Calls, SendAccepted(c) PROVE CatchingUp'
  BY <1>11 DEF SendAccepted, End
<1>12. ASSUME NEW c \in Calls, SendRefused(c) PROVE CatchingUp'
  BY <1>12 DEF SendRefused, End
<1>13. ASSUME NEW c \in Calls, SendFails(c) PROVE CatchingUp'
  BY <1>13 DEF SendFails, End
<1>14. ASSUME NEW c \in Calls, NEW newKey \in BOOLEAN, UpdateThread(c, newKey) PROVE CatchingUp'
  BY <1>14 DEF UpdateThread, Updated, NewVersion
<1>15. ASSUME NEW c \in Calls, DeleteThread(c) PROVE CatchingUp'
  BY <1>15 DEF DeleteThread, Deleted
<1>16. ASSUME NEW newKey \in BOOLEAN, OtherUpdates(newKey) PROVE CatchingUp'
  BY <1>16 DEF OtherUpdates, Updated, NewVersion
<1>17. ASSUME OtherSends PROVE CatchingUp'
  BY <1>17 DEF OtherSends
<1>18. ASSUME OtherDeletes PROVE CatchingUp'
  BY <1>18 DEF OtherDeletes, Deleted
<1>19. ASSUME ProcessConnectedEvent PROVE CatchingUp'
  BY <1>19 DEF ProcessConnectedEvent, ClearCache
<1>20. ASSUME UNCHANGED vars PROVE CatchingUp'
  BY <1>20 DEF vars
<1> HIDE DEF CacheInv, CatchingUp, ReadInv, TypeOK
<1>21. QED
  BY <1>1, <1>2, <1>3, <1>4, <1>5, <1>6, <1>7, <1>8, <1>9, <1>10, <1>11, <1>12, <1>13,
      <1>14, <1>15, <1>16, <1>17, <1>18, <1>19, <1>20 DEF Next

(* Types, and: getMessage, listMessages and the handling of notifications  *)
(* never fail for want of a key or of the thread's resource id, whatever   *)
(* the cache held and however calls and updates interleave.                *)
THEOREM MembersCanReadAlways == Spec => []MembersCanReadInv
<1>1. Init => ReadInv
  BY InitReadInv
<1>2. ReadInv => MembersCanReadInv
  BY DEF ReadInv, MembersCanReadInv
<1> QED
  BY <1>1, <1>2, ReadInvStep, PTL DEF Spec

(* sendMessage ends with InvalidThreadKey only when the key was replaced   *)
(* while it ran: one refused attempt is always made up for by newer keys.  *)
THEOREM RefusedOnlyByRotationAlways == Spec => []RefusedOnlyByRotation
<1>1. Init => SendInv
  BY InitReadInv DEF Init, SendInv, FlagsOK, RetriesFresh, RefusedOnlyByRotation
<1>2. SendInv => RefusedOnlyByRotation
  BY DEF SendInv
<1> QED
  BY <1>1, <1>2, SendInvStep, PTL DEF Spec

(* A subscriber's cache entry is outdated only while the newest version is *)
(* on its way to it, however many updates, answers and notifications       *)
(* overtake each other, unless an invalidation overtook one of them.       *)
THEOREM OutdatedIsCaughtUpAlways == Spec => []OutdatedIsCaughtUp
<1>1. Init => CacheInv
  BY InitReadInv DEF Init, CacheInv, CatchingUp, Outdated, OutdatedUnderWay
<1>2. CacheInv /\ [Next]_vars => CacheInv'
  BY ReadInvStep, CatchingUpStep DEF CacheInv
<1>3. CacheInv => OutdatedIsCaughtUp
  BY DEF CacheInv, CatchingUp, OutdatedIsCaughtUp, Outdated, ReadInv, TypeOK, Threads
<1> QED
  BY <1>1, <1>2, <1>3, PTL DEF Spec
=============================================================================
