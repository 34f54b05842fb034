--------------------------- MODULE ThreadKeyCache ---------------------------
(***************************************************************************)
(* The keys one ThreadApiImpl uses for the messages of one thread, and its *)
(* ContainerKeyCache.  Calls of the application and notifications run at   *)
(* the same time: each reads the cache, asks the server when the cache     *)
(* does not do, writes the cache and goes on with the keys it has found,   *)
(* while the thread is updated, by this user or by another member.         *)
(*                                                                         *)
(* The user is a member all the time.  By ContainerKeys a member holds all *)
(* keys up to the current one, so that the keys in an answer of the server *)
(* are 1 .. keyId; and all of them are in format 2 as soon as the thread   *)
(* has been updated by this release, that is in schema 5.  Messages have   *)
(* format 5 when they are encrypted with a key of format 2, otherwise      *)
(* format 4; a message of format 5 names the resource id of its thread,    *)
(* which a thread has since it is in schema 5.                             *)
(***************************************************************************)
EXTENDS Naturals, FiniteSets

CONSTANTS
  Calls,       (* The calls and notifications handled at the same time.    *)
  Subscribed,  (* Whether the user is subscribed for thread events.        *)
  MaxVersion,  (* Bound: the last version of the thread.                   *)
  None

ASSUME CacheAssumption ==
  /\ MaxVersion \in Nat /\ Subscribed \in BOOLEAN
  /\ None \notin [version : Nat, keyId : Nat, schema : {4, 5}]

VARIABLES
  thread,    (* The thread at the server: version, current key and schema. *)
  deleted,   (* The thread was deleted.                                    *)
  messages,  (* The messages of the thread at the server.                  *)
  cache,     (* The entry of the thread in _keyCache, or None.             *)
  raced,     (* History: the cache was emptied with older keys on their    *)
             (* way to it, and has not had the newest since.               *)
  events,    (* Notifications on their way; None stands for threadDeleted. *)
  pc, op,    (* Where each call is, and which one it is.                   *)
  snap,      (* The keys the call uses: the thread as it was read.         *)
  need,      (* The messages the call decrypts.                            *)
  retried,   (* sendMessage has asked for the newest keys.                 *)
  rotated,   (* The current key was replaced since sendMessage started.    *)
  outcome    (* How the last operation of the call ended.                  *)

server == <<thread, deleted, messages>>
cached == <<cache, raced>>
local == <<snap, need, retried>>
vars == <<server, cached, events, pc, op, local, rotated, outcome>>

Threads == [version : Nat, keyId : Nat, schema : {4, 5}]
Messages == [key : Nat, format : {4, 5}]
Outcomes == {"none", "unreadable", "invalidKey"}

Set(f, c, x) == [f EXCEPT ![c] = x]
Goto(c, label) == pc' = Set(pc, c, label)
Continue(c, label) == Goto(c, label) /\ UNCHANGED <<op, local, rotated, outcome>>

(* The call returns or throws; what it had on its stack is gone.           *)
End(c, result) ==
  /\ Goto(c, "idle")
  /\ outcome' = Set(outcome, c, result)
  /\ op' = Set(op, c, "none")
  /\ snap' = Set(snap, c, None)
  /\ need' = Set(need, c, {})
  /\ retried' = Set(retried, c, FALSE)
  /\ rotated' = Set(rotated, c, rotated[c] /\ result = "invalidKey")

-----------------------------------------------------------------------------

(* A new thread, or one of an earlier release.                             *)
Init ==
  /\ \E schema \in {4, 5} : thread = [version |-> 1, keyId |-> 1, schema |-> schema]
  /\ deleted = FALSE /\ messages = {} /\ events = {}
  /\ cache = None /\ raced = FALSE
  /\ pc = [c \in Calls |-> "idle"] /\ op = [c \in Calls |-> "none"]
  /\ snap = [c \in Calls |-> None] /\ need = [c \in Calls |-> {}]
  /\ retried = [c \in Calls |-> FALSE] /\ rotated = [c \in Calls |-> FALSE]
  /\ outcome = [c \in Calls |-> "none"]

Start(c, operation, label, required) ==
  /\ pc[c] = "idle"
  /\ Goto(c, label)
  /\ op' = Set(op, c, operation)
  /\ need' = Set(need, c, required)
  /\ rotated' = Set(rotated, c, FALSE)
  /\ outcome' = Set(outcome, c, "none")
  /\ UNCHANGED <<server, cached, events, snap, retried>>

(* sendMessage; and updateMessage, once it has read the message.           *)
SendMessage(c) == Start(c, "send", "keys", {})

(* getMessage, once it has read the message, or a notification with one.   *)
GetMessage(c) == \E m \in messages : Start(c, "get", "keys", {m})

(* getThread, listThreads and listMessages.                                *)
ReadThread(c) == Start(c, "read", "fetch", {})

(* A notification is handled on one of the threads of the Executor, so     *)
(* they overtake each other.                                               *)
ProcessNotificationEvent(c) ==
  \E e \in events :
    /\ pc[c] = "idle"
    /\ events' = events \ {e}
    /\ Goto(c, IF e = None THEN "invalidate" ELSE "set")
    /\ op' = Set(op, c, "event")
    /\ snap' = Set(snap, c, e)
    /\ UNCHANGED <<server, cached, need, retried, rotated, outcome>>

-----------------------------------------------------------------------------
(* ContainerKeyCache and ModuleBaseApi.                                    *)

(* The schema of the thread that a message needs (getMessageDecryptionKeys).*)
MinimumSchema(m) == IF m.format = 5 THEN 5 ELSE 4

(* Mutant of HasKeys: the schema is not compared.                          *)
HasKeysAnySchema(entry, required) == \A m \in required : m.key <= entry.keyId

(* getKeys: the entry has all required keys and, when keys are required,   *)
(* at least the schema that is needed.                                     *)
HasKeys(entry, required) ==
  \A m \in required : m.key <= entry.keyId /\ entry.schema >= MinimumSchema(m)

GetModuleKeys(c) ==
  /\ pc[c] = "keys"
  /\ \/ /\ cache # None /\ HasKeys(cache, need[c])
        /\ snap' = Set(snap, c, cache)
        /\ Goto(c, IF op[c] = "send" THEN "send" ELSE "decrypt")
     \/ /\ ~(cache # None /\ HasKeys(cache, need[c]))
        /\ Goto(c, "fetch")
        /\ UNCHANGED snap
  /\ UNCHANGED <<server, cached, events, op, need, retried, rotated, outcome>>

(* The server answers threadGet, threadList or threadMessagesGet.          *)
Fetch(c) ==
  /\ pc[c] = "fetch" /\ ~deleted
  /\ snap' = Set(snap, c, thread)
  /\ need' = IF op[c] = "read" THEN Set(need, c, messages) ELSE need
  /\ Goto(c, "set")
  /\ UNCHANGED <<server, cached, events, op, retried, rotated, outcome>>

FetchFails(c) ==
  /\ pc[c] = "fetch" /\ deleted
  /\ End(c, "none")
  /\ UNCHANGED <<server, cached, events>>

(* Mutant of CacheSet: an older version replaces a newer one.              *)
CacheSetAlways(entry) == entry

(* ContainerKeyCache::set keeps the entry it has when that is newer.       *)
CacheSet(entry) ==
  IF cache # None /\ cache.version > entry.version THEN cache ELSE entry

SetKeysInCache(c) ==
  /\ pc[c] = "set"
  /\ cache' = CacheSet(snap[c])
  /\ raced' = (raced /\ cache'.version # thread.version)
  /\ \/ op[c] = "send" /\ Continue(c, "send")
     \/ op[c] \in {"get", "read"} /\ Continue(c, "decrypt")
     \/ op[c] = "event" /\ End(c, "none")
  /\ UNCHANGED <<server, events>>

(* The thread as it was at an earlier version.                             *)
Outdated(entry) == entry # None /\ entry.version < thread.version

(* An outdated entry is going to be written to the cache.                  *)
OutdatedUnderWay ==
  \/ \E e \in events : Outdated(e)
  \/ \E c \in Calls : pc[c] = "set" /\ Outdated(snap[c])

ClearCache ==
  /\ cache' = None
  /\ raced' = (raced \/ OutdatedUnderWay)

Invalidate(c) ==
  /\ pc[c] = "invalidate"
  /\ ClearCache
  /\ End(c, "none")
  /\ UNCHANGED <<server, events>>

(* processConnectedEvent: the session was established again.               *)
ProcessConnectedEvent ==
  /\ ClearCache
  /\ UNCHANGED <<server, events, pc, op, local, rotated, outcome>>

-----------------------------------------------------------------------------
(* Messages.                                                               *)

(* A message is decrypted with its key, and validated with the resource id *)
(* of its thread.                                                          *)
Readable(m, keys) == m.key <= keys.keyId /\ (m.format = 5 => keys.schema = 5)

Decrypt(c) ==
  /\ pc[c] = "decrypt"
  /\ End(c, IF \A m \in need[c] : Readable(m, snap[c]) THEN "none" ELSE "unreadable")
  /\ UNCHANGED <<server, cached, events>>

(* sendMessageRequest: the server accepts the current key only.            *)
SendAccepted(c) ==
  /\ pc[c] = "send" /\ ~deleted /\ snap[c].keyId = thread.keyId
  /\ messages' = messages \cup {[key |-> snap[c].keyId, format |-> snap[c].schema]}
  /\ End(c, "none")
  /\ UNCHANGED <<thread, deleted, cached, events>>

(* Mutant of SendRefused: the second attempt asks the cache again.         *)
SendRefusedCached(c) ==
  /\ pc[c] = "send" /\ ~deleted /\ snap[c].keyId # thread.keyId
  /\ \/ retried[c] /\ End(c, "invalidKey")
     \/ /\ ~retried[c]
        /\ retried' = Set(retried, c, TRUE)
        /\ Goto(c, "keys")
        /\ UNCHANGED <<op, snap, need, rotated, outcome>>
  /\ UNCHANGED <<server, cached, events>>

(* InvalidThreadKeyException: the first one makes sendMessage ask for the  *)
(* newest keys, the second one goes to the application.                    *)
SendRefused(c) ==
  /\ pc[c] = "send" /\ ~deleted /\ snap[c].keyId # thread.keyId
  /\ \/ retried[c] /\ End(c, "invalidKey")
     \/ /\ ~retried[c]
        /\ retried' = Set(retried, c, TRUE)
        /\ Goto(c, "fetch")
        /\ UNCHANGED <<op, snap, need, rotated, outcome>>
  /\ UNCHANGED <<server, cached, events>>

SendFails(c) ==
  /\ pc[c] = "send" /\ deleted
  /\ End(c, "none")
  /\ UNCHANGED <<server, cached, events>>

-----------------------------------------------------------------------------
(* Updates and deletion, and what the server tells subscribers.            *)

(* Data of a thread are always written in schema 5.                        *)
NewVersion(newKey) ==
  [version |-> thread.version + 1, schema |-> 5,
   keyId |-> IF newKey THEN thread.keyId + 1 ELSE thread.keyId]

Updated(newKey) ==
  /\ ~deleted /\ thread.version < MaxVersion
  /\ thread' = NewVersion(newKey)
  /\ events' = events \cup (IF Subscribed THEN {NewVersion(newKey)} ELSE {})
  /\ UNCHANGED <<deleted, messages>>

Deleted ==
  /\ ~deleted
  /\ deleted' = TRUE
  /\ events' = events \cup (IF Subscribed THEN {None} ELSE {})
  /\ UNCHANGED <<thread, messages>>

Rotations(newKey) ==
  rotated' = [c \in Calls |-> rotated[c] \/ (newKey /\ op[c] = "send")]

(* Another member, who has read the present thread, sends a message.       *)
OtherSends ==
  /\ ~deleted
  /\ messages' = messages \cup {[key |-> thread.keyId, format |-> thread.schema]}
  /\ UNCHANGED <<thread, deleted, cached, events, pc, op, local, rotated, outcome>>

(* The server accepts an update of another member.                         *)
OtherUpdates(newKey) ==
  /\ Updated(newKey)
  /\ Rotations(newKey)
  /\ UNCHANGED <<cached, pc, op, local, outcome>>

OtherDeletes ==
  /\ Deleted
  /\ UNCHANGED <<cached, pc, op, local, rotated, outcome>>

(* updateThread from the moment the server accepts the update.             *)
UpdateThread(c, newKey) ==
  /\ pc[c] = "idle"
  /\ Updated(newKey)
  /\ Goto(c, "invalidate")
  /\ op' = Set(op, c, "update")
  /\ Rotations(newKey)
  /\ UNCHANGED <<cached, local, outcome>>

(* deleteThread from the moment the thread is deleted.                     *)
DeleteThread(c) ==
  /\ pc[c] = "idle"
  /\ Deleted
  /\ Goto(c, "invalidate")
  /\ op' = Set(op, c, "delete")
  /\ UNCHANGED <<cached, local, rotated, outcome>>

-----------------------------------------------------------------------------

Next ==
  \/ \E c \in Calls :
       \/ SendMessage(c) \/ GetMessage(c) \/ ReadThread(c) \/ ProcessNotificationEvent(c)
       \/ GetModuleKeys(c) \/ Fetch(c) \/ FetchFails(c) \/ SetKeysInCache(c)
       \/ Invalidate(c) \/ Decrypt(c)
       \/ SendAccepted(c) \/ SendRefused(c) \/ SendFails(c)
       \/ \E newKey \in BOOLEAN : UpdateThread(c, newKey)
       \/ DeleteThread(c)
  \/ \E newKey \in BOOLEAN : OtherUpdates(newKey)
  \/ OtherSends
  \/ OtherDeletes
  \/ ProcessConnectedEvent

Spec == Init /\ [][Next]_vars

-----------------------------------------------------------------------------

TypeOK ==
  /\ thread \in Threads /\ deleted \in BOOLEAN
  /\ messages \in SUBSET Messages
  /\ cache \in Threads \cup {None} /\ raced \in BOOLEAN
  /\ events \in SUBSET (Threads \cup {None})
  /\ pc \in [Calls -> {"idle", "keys", "fetch", "set", "decrypt", "send", "invalidate"}]
  /\ snap \in [Calls -> Threads \cup {None}]
  /\ \A c \in Calls : pc[c] \in {"set", "decrypt", "send"} => snap[c] # None
  /\ need \in [Calls -> SUBSET Messages]
  /\ outcome \in [Calls -> Outcomes]

(* A message can always be read: whatever the cache held when the call     *)
(* looked, the keys it ends up with include the key of the message, and    *)
(* come from a thread in the schema the message was written for.           *)
MembersCanRead == \A c \in Calls : outcome[c] # "unreadable"

(* Types, and readable messages.                                           *)
MembersCanReadInv == TypeOK /\ MembersCanRead

(* sendMessage reports InvalidThreadKey only when the current key was      *)
(* replaced while the call was running: an outdated entry of the cache,    *)
(* from before the call or written during it, is never the reason.         *)
RefusedOnlyByRotation ==
  \A c \in Calls : outcome[c] = "invalidKey" => rotated[c]

(* The newest version of the thread is going to be written to the cache.   *)
NewestUnderWay ==
  \/ \E e \in events : e # None /\ e.version = thread.version
  \/ \E c \in Calls : pc[c] = "set" /\ snap[c].version = thread.version

(* A subscriber's cache falls behind the thread only for a while: as long  *)
(* as its entry is outdated the newest version is on its way to it, in a   *)
(* notification or in an answer, though they overtake each other and       *)
(* several updates may be under way.  Whatever is handled last, the entry  *)
(* is then the newest one.  The exception is an invalidation that          *)
(* overtakes an answer or a notification read before the last update.      *)
OutdatedIsCaughtUp ==
  Subscribed /\ ~raced /\ Outdated(cache) => NewestUnderWay
=============================================================================
