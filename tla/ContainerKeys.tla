--------------------------- MODULE ContainerKeys ---------------------------
(***************************************************************************)
(* Who is given which key of a container.  A container (a Thread; Stores,  *)
(* Kvdbs and Inboxes are updated in the same way) has members and a        *)
(* current key; updateThread reads the container, decides with             *)
(* UsersKeysResolver whether a new key is needed and who lacks keys, and   *)
(* sends the new members together with the keys encrypted for them.        *)
(* Several members do this at the same time.                               *)
(*                                                                         *)
(* The server is external: it stores the container, gives to each user the *)
(* keys that were encrypted for that user, lets members only read and      *)
(* update, and refuses an update whose version is not the version of the   *)
(* container unless the update is forced.  Keys are numbered in the order  *)
(* they become current.  A key is held in format 1 (of earlier releases)   *)
(* or in format 2.                                                         *)
(***************************************************************************)
EXTENDS Naturals, FiniteSets

CONSTANTS
  Users,
  Updates,     (* The calls of updateThread that run at the same time.     *)
  LastVersion, (* Bound: the last version of the container.                *)
  Nothing

ASSUME KeysAssumption == LastVersion \in Nat /\ Nothing \notin Users

VARIABLES
  version, members, keyId,  (* The container at the server.                *)
  given,        (* The keys encrypted for each user.                       *)
  upgraded,     (* Those of them that are in format 2.                     *)
  lastKey,      (* The last key that became current.                       *)
  sent,         (* The keys that messages at the server are encrypted with.*)
  overwritten,  (* A forced update replaced a version it had not seen.     *)
  at,           (* Where each call is.                                     *)
  user, ver,    (* Who makes the call, and the version passed to it.       *)
  seen          (* The container as the call has read it.                  *)

container == <<version, members, keyId, given, upgraded, lastKey, overwritten>>
calls == <<at, user, ver, seen>>
keyVars == <<container, sent, calls>>

Keys == Nat \ {0}
Snapshots == [version : Nat, members : SUBSET Users, keyId : Keys,
              keys : SUBSET Keys, v2 : SUBSET Keys]

(* What the server answers to user u.                                      *)
ThreadGet(u) == [version |-> version, members |-> members, keyId |-> keyId,
                 keys |-> given[u], v2 |-> upgraded[u]]

-----------------------------------------------------------------------------

(* _createThreadEx gives one new key to all members.  A container of an    *)
(* earlier release has its key in format 1.                                *)
KeysInit ==
  /\ version = 1 /\ keyId = 1 /\ lastKey = 1
  /\ members \in SUBSET Users \ {{}}
  /\ given = [u \in Users |-> IF u \in members THEN {1} ELSE {}]
  /\ upgraded \in {given, [u \in Users |-> {}]}
  /\ sent = {}
  /\ overwritten = 0
  /\ at = [c \in Updates |-> "idle"]
  /\ user = [c \in Updates |-> Nothing]
  /\ ver = [c \in Updates |-> 0]
  /\ seen = [c \in Updates |-> Nothing]

(* A message is accepted by the server: it is encrypted with the current   *)
(* key by a member who has it (see ThreadKeyCache for how it gets there).  *)
MessageSent(u) ==
  /\ u \in members /\ keyId \in given[u]
  /\ sent' = sent \cup {keyId}
  /\ UNCHANGED <<container, calls>>

-----------------------------------------------------------------------------
(* updateThread.                                                           *)

(* The call returns or throws.                                             *)
EndUpdate(c) ==
  /\ at' = [at EXCEPT ![c] = "idle"]
  /\ user' = [user EXCEPT ![c] = Nothing]
  /\ ver' = [ver EXCEPT ![c] = 0]
  /\ seen' = [seen EXCEPT ![c] = Nothing]

(* The application calls it with a version it has seen before.             *)
CallUpdateThread(c, u, v) ==
  /\ at[c] = "idle" /\ v <= version
  /\ at' = [at EXCEPT ![c] = "get"]
  /\ user' = [user EXCEPT ![c] = u]
  /\ ver' = [ver EXCEPT ![c] = v]
  /\ UNCHANGED <<container, sent, seen>>

MayUpdate(u) == u \in members /\ keyId \in given[u]

(* The request threadGet; findEncKeyByKeyId throws for a member without    *)
(* the current key.                                                        *)
UpdateGet(c) ==
  /\ at[c] = "get" /\ MayUpdate(user[c])
  /\ at' = [at EXCEPT ![c] = "update"]
  /\ seen' = [seen EXCEPT ![c] = ThreadGet(user[c])]
  /\ UNCHANGED <<container, sent, user, ver>>

UpdateGetFails(c) ==
  /\ at[c] = "get" /\ ~MayUpdate(user[c])
  /\ EndUpdate(c)
  /\ UNCHANGED <<container, sent>>

(* Mutants of DoNeedNewKey, UsersToAddKey and KeysFor.                     *)
DoNeedNewKeyOnlyForced(s, newMembers, force) == force
UsersToAddKeyOnlyAdded(s, newMembers) == newMembers \ s.members
KeysForOnlyCurrent(u, toAdd, s, newMembers, newKey) ==
  IF u \in newMembers THEN {newKey} ELSE {}

(* UsersKeysResolver::init: a new key is needed when a member is removed;  *)
(* with a current key of format 1 the keys are given to all members again, *)
(* in format 2, otherwise to the members who are added.                    *)
DoNeedNewKey(s, newMembers, force) == s.members \ newMembers # {} \/ force
UsersToAddKey(s, newMembers) ==
  IF s.keyId \notin s.v2 THEN newMembers ELSE newMembers \ s.members

(* The keys the update carries for user u: prepareMissingKeysForNewUsers   *)
(* for the keys the caller has, and prepareKeysList for a new one.         *)
KeysFor(u, toAdd, s, newMembers, newKey) ==
  (IF u \in toAdd THEN s.keys ELSE {}) \cup
  (IF newKey # s.keyId /\ u \in newMembers THEN {newKey} ELSE {})

(* The update is accepted.                                                 *)
UpdateAccepted(c, newMembers, forceGenerateNewKey, force) ==
  LET s == seen[c]
      needNewKey == DoNeedNewKey(s, newMembers, forceGenerateNewKey)
      newKey == IF needNewKey THEN lastKey + 1 ELSE s.keyId
      toAdd == UsersToAddKey(s, newMembers)
  IN /\ at[c] = "update" /\ user[c] \in members
     /\ force \/ ver[c] = version
     /\ version < LastVersion /\ version' = version + 1
     /\ members' = newMembers
     /\ keyId' = newKey
     /\ lastKey' = IF needNewKey THEN newKey ELSE lastKey
     /\ given' = [u \in Users |-> given[u] \cup KeysFor(u, toAdd, s, newMembers, newKey)]
     /\ upgraded' = [u \in Users |-> upgraded[u] \cup KeysFor(u, toAdd, s, newMembers, newKey)]
     /\ overwritten' = IF ver[c] = version THEN overwritten ELSE 1
     /\ EndUpdate(c)
     /\ UNCHANGED sent

UpdateRejected(c) ==
  /\ at[c] = "update"
  /\ user[c] \notin members \/ ver[c] # version
  /\ EndUpdate(c)
  /\ UNCHANGED <<container, sent>>

KeysNext ==
  \/ \E u \in Users : MessageSent(u)
  \/ \E c \in Updates :
       \/ \E u \in Users, v \in 1 .. version : CallUpdateThread(c, u, v)
       \/ UpdateGet(c) \/ UpdateGetFails(c)
       \/ \E newMembers \in SUBSET Users \ {{}}, newKey, force \in BOOLEAN :
            UpdateAccepted(c, newMembers, newKey, force)
       \/ UpdateRejected(c)

KeysSpec == KeysInit /\ [][KeysNext]_keyVars

-----------------------------------------------------------------------------

KeysTypeOK ==
  /\ version \in Nat /\ keyId \in Keys /\ lastKey \in Keys
  /\ members \in SUBSET Users
  /\ given \in [Users -> SUBSET Keys] /\ upgraded \in [Users -> SUBSET Keys]
  /\ sent \in SUBSET Keys
  /\ overwritten \in {0, 1}
  /\ at \in [Updates -> {"idle", "get", "update"}]
  /\ user \in [Updates -> Users \cup {Nothing}]
  /\ ver \in [Updates -> Nat]
  /\ seen \in [Updates -> Snapshots \cup {Nothing}]

(* A user who was removed from a container has not got its current key,    *)
(* and so can not read what is sent from now on: however the updates of    *)
(* several members interleave, as long as none is forced over another.     *)
OnlyMembersHoldCurrentKey ==
  overwritten = 0 => \A u \in Users : keyId \in given[u] => u \in members

(* Whoever is a member, from the start or added later, has the keys of all *)
(* messages that were ever sent.                                           *)
MembersHoldSentKeys ==
  overwritten = 0 => \A u \in members : sent \subseteq given[u]

(* The members agree on the format of the current key, and so on the       *)
(* format in which they send messages.                                     *)
KeyFormatAgreed ==
  overwritten = 0 =>
    \A u, w \in members : keyId \in upgraded[u] <=> keyId \in upgraded[w]
=============================================================================
