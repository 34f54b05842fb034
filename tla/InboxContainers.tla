--------------------------- MODULE InboxContainers ---------------------------
(***************************************************************************)
(* An Inbox at the server is three containers: the Inbox with its members  *)
(* and keys, a Store for the files of its entries and a Thread for the     *)
(* entries themselves.  createInbox, updateInbox, deleteInbox and          *)
(* deleteEntry are sequences of requests to the three of them, made by     *)
(* several clients at the same time; a request or its answer may be lost,  *)
(* which ends the call.                                                    *)
(*                                                                         *)
(* The callers are managers who stay members; Users are the others.  The   *)
(* keys of the Store and of the Thread are left out (ContainerKeys), and   *)
(* how the files of an entry are uploaded (Uploads).                       *)
(***************************************************************************)
EXTENDS Integers, FiniteSets, Sequences

CONSTANTS
  Clients,
  Users,
  Entries,
  FileCount,    (* The files of an entry.                                  *)
  MaxVersion,   (* Bound: versions of the Inbox.                           *)
  MaxFaults     (* Bound: requests and answers that are lost.              *)

ASSUME InboxAssumption == {FileCount, MaxFaults} \subseteq Nat /\ MaxVersion \in Nat \ {0}

VARIABLES
  inbox,    (* state, version, members, key, and who holds each key.       *)
  store,    (* state, version, members, files.                             *)
  thread,   (* state, version, members, and the messages with their keys.  *)
  call,     (* The call of each client.                                    *)
  faults,   (* Losses so far.                                              *)
  mixed,    (* Two calls of updateInbox ran at the same time.              *)
  forced    (* A forced update replaced a version it had not seen.         *)

server == <<inbox, store, thread>>
vars == <<inbox, store, thread, call, faults, mixed, forced>>

Files == Entries \X (1..FileCount)
Idle == [op |-> "none", step |-> "none"]

Start(c, args) == call' = [call EXCEPT ![c] = args]
End(c) == Start(c, Idle)
At(c, step) == call[c].step = step
Step(c, step) == [call[c] EXCEPT !.step = step]

Updating == {c \in Clients : call[c].op = "updateInbox"}

Live(container) == container.state = "live"

-----------------------------------------------------------------------------
(* A request: ok is whether the server does it, done its effect; then is   *)
(* how the call goes on.  A refused request ends it, and so does a lost    *)
(* one, or a lost answer.                                                  *)

Request(c, ok, done, then) ==
  \/ /\ faults' = faults
     /\ IF ok THEN done /\ Start(c, then) ELSE UNCHANGED server /\ End(c)
  \/ /\ faults < MaxFaults /\ faults' = faults + 1
     /\ (ok /\ done) \/ UNCHANGED server
     /\ End(c)

-----------------------------------------------------------------------------
(* createInbox: the Store and the Thread first.                            *)

CreateInbox(c, users) ==
  /\ call[c] = Idle
  /\ inbox.state = "none" /\ store.state = "none" /\ \A d \in Clients : call[d] = Idle
  /\ Start(c, [op |-> "createInbox", step |-> "createStore", users |-> users])
  /\ UNCHANGED <<server, faults, mixed, forced>>

CreateStoreEx(c) ==
  /\ At(c, "createStore")
  /\ Request(c, TRUE,
             /\ store' = [state |-> "live", version |-> 1, members |-> call[c].users, files |-> {}]
             /\ UNCHANGED <<inbox, thread>>,
             Step(c, "createThread"))
  /\ UNCHANGED <<mixed, forced>>

CreateThreadEx(c) ==
  /\ At(c, "createThread")
  /\ Request(c, TRUE,
             /\ thread' = [state |-> "live", version |-> 1, members |-> call[c].users,
                           messages |-> << >>]
             /\ UNCHANGED <<inbox, store>>,
             Step(c, "create"))
  /\ UNCHANGED <<mixed, forced>>

InboxCreate(c) ==
  /\ At(c, "create")
  /\ Request(c, TRUE,
             /\ inbox' = [state |-> "live", version |-> 1, members |-> call[c].users,
                          key |-> 1, holders |-> <<call[c].users>>]
             /\ UNCHANGED <<store, thread>>,
             Idle)
  /\ UNCHANGED <<mixed, forced>>

-----------------------------------------------------------------------------
(* updateInbox.                                                            *)

\* Called with the version the application has seen; the Inbox is read.
UpdateInbox(c, users, version, force) ==
  /\ call[c] = Idle /\ Live(inbox)
  /\ version <= inbox.version /\ inbox.version < MaxVersion
  /\ Start(c, [op |-> "updateInbox", step |-> "update", users |-> users, version |-> version,
               force |-> force, read |-> inbox, seen |-> 0])
  /\ mixed' = (mixed \/ Updating # {})
  /\ UNCHANGED <<server, faults, forced>>

\* Wrong: an added user gets the current key only.
UpdatedKeysCurrent(read, users) ==
  LET rotate == read.members \ users # {}
      all    == [inbox.holders EXCEPT ![read.key] = @ \cup users]
  IN [key     |-> IF rotate THEN Len(all) + 1 ELSE read.key,
      holders |-> IF rotate THEN Append(all, users) ELSE all]

\* The keys: a new one when a user is removed, and all that were read for the added ones.
UpdatedKeys(read, users) ==
  LET rotate == read.members \ users # {}
      all    == [k \in DOMAIN inbox.holders |->
                   inbox.holders[k] \cup (IF k \in DOMAIN read.holders THEN users \ read.members
                                          ELSE {})]
  IN [key     |-> IF rotate THEN Len(all) + 1 ELSE read.key,
      holders |-> IF rotate THEN Append(all, users) ELSE all]

\* inboxUpdate, with the check of the version unless force is given.
InboxUpdate(c) ==
  /\ At(c, "update")
  /\ LET a  == call[c]
         ok == Live(inbox) /\ inbox.version < MaxVersion /\ (a.force \/ a.version = inbox.version)
         k  == UpdatedKeys(a.read, a.users)
     IN /\ Request(c, ok,
                   /\ inbox' = [state |-> "live", version |-> inbox.version + 1,
                                members |-> a.users, key |-> k.key, holders |-> k.holders]
                   /\ UNCHANGED <<store, thread>>,
                   Step(c, "getStore"))
        /\ forced' = (forced \/ (ok /\ a.read.version # inbox.version))
  /\ UNCHANGED mixed

\* A container is read to be updated with the version it has now.
Seen(c, step, container, next) ==
  /\ At(c, step)
  /\ call' = [call EXCEPT ![c] = IF Live(container)
                                 THEN [@ EXCEPT !.step = next, !.seen = container.version] ELSE Idle]
  /\ UNCHANGED <<server, faults, mixed, forced>>

GetStoreEx(c)  == Seen(c, "getStore", store, "updateStore")
GetThreadEx(c) == Seen(c, "getThread", thread, "updateThread")

MayUpdate(c, container) ==
  Live(container) /\ (call[c].force \/ call[c].seen = container.version)

\* Wrong: the members of the container stay.
UpdatedVersion(c, container) == [container EXCEPT !.version = @ + 1]

Updated(c, container) ==
  [container EXCEPT !.version = @ + 1, !.members = call[c].users]

UpdateStore(c) ==
  /\ At(c, "updateStore")
  /\ Request(c, MayUpdate(c, store),
             store' = Updated(c, store) /\ UNCHANGED <<inbox, thread>>,
             Step(c, "getThread"))
  /\ UNCHANGED <<mixed, forced>>

UpdateThread(c) ==
  /\ At(c, "updateThread")
  /\ Request(c, MayUpdate(c, thread),
             thread' = Updated(c, thread) /\ UNCHANGED <<inbox, store>>,
             Idle)
  /\ UNCHANGED <<mixed, forced>>

-----------------------------------------------------------------------------
(* deleteInbox: the Inbox first.                                           *)

\* Wrong: the Store first.
DeleteInboxStoreFirst(c) ==
  /\ call[c] = Idle /\ Live(inbox)
  /\ Start(c, [op |-> "deleteInbox", step |-> "deleteStore"])
  /\ UNCHANGED <<server, faults, mixed, forced>>

DeleteInbox(c) ==
  /\ call[c] = Idle /\ Live(inbox)
  /\ Start(c, [op |-> "deleteInbox", step |-> "delete"])
  /\ UNCHANGED <<server, faults, mixed, forced>>

InboxDelete(c) ==
  /\ At(c, "delete")
  /\ Request(c, Live(inbox),
             inbox' = [inbox EXCEPT !.state = "deleted"] /\ UNCHANGED <<store, thread>>,
             Step(c, "deleteStore"))
  /\ UNCHANGED <<mixed, forced>>

DeleteStore(c) ==
  /\ At(c, "deleteStore")
  /\ Request(c, Live(store),
             store' = [store EXCEPT !.state = "deleted", !.files = {}] /\ UNCHANGED <<inbox, thread>>,
             Step(c, "deleteThread"))
  /\ UNCHANGED <<mixed, forced>>

\* Wrong: the Thread is forgotten.
DeleteThreadForgotten(c) ==
  /\ At(c, "deleteThread")
  /\ Request(c, Live(thread), UNCHANGED server, Idle)
  /\ UNCHANGED <<mixed, forced>>

DeleteThread(c) ==
  /\ At(c, "deleteThread")
  /\ Request(c, Live(thread),
             thread' = [thread EXCEPT !.state = "deleted", !.messages = << >>]
               /\ UNCHANGED <<inbox, store>>,
             Idle)
  /\ UNCHANGED <<mixed, forced>>

-----------------------------------------------------------------------------
(* Entries.                                                                *)

Messages == DOMAIN thread.messages

\* sendEntry reads the public view, with the key of the Inbox.
SendEntry(c, e) ==
  /\ call[c] = Idle /\ Live(inbox)
  /\ e \notin Messages /\ \A d \in Clients : call[d].op = "sendEntry" => call[d].entry # e
  /\ \A i \in 1..FileCount : <<e, i>> \notin store.files
  /\ Start(c, [op |-> "sendEntry", step |-> "send", entry |-> e, key |-> inbox.key])
  /\ UNCHANGED <<server, faults, mixed, forced>>

\* inboxSend: the server puts the files into the Store and the message into the Thread.
InboxSend(c) ==
  /\ At(c, "send")
  /\ LET e == call[c].entry
     IN Request(c, Live(inbox) /\ Live(store) /\ Live(thread),
                /\ store' = [store EXCEPT !.files = @ \cup {<<e, i>> : i \in 1..FileCount}]
                /\ thread' = [thread EXCEPT !.messages =
                     [d \in DOMAIN @ \cup {e} |-> IF d = e THEN call[c].key ELSE @[d]]]
                /\ UNCHANGED inbox,
                Idle)
  /\ UNCHANGED <<mixed, forced>>

\* deleteEntry reads the message for the list of its files.
DeleteEntry(c, e) ==
  /\ call[c] = Idle /\ Live(thread) /\ e \in Messages
  /\ Start(c, [op |-> "deleteEntry", step |-> "deleteFile", entry |-> e, file |-> 1])
  /\ UNCHANGED <<server, faults, mixed, forced>>

\* deleteMessageAndFiles: one file after the other.
DeleteFile(c) ==
  /\ At(c, "deleteFile") /\ call[c].file <= FileCount
  /\ LET f == <<call[c].entry, call[c].file>>
     IN Request(c, f \in store.files,
                store' = [store EXCEPT !.files = @ \ {f}] /\ UNCHANGED <<inbox, thread>>,
                [call[c] EXCEPT !.file = @ + 1])
  /\ UNCHANGED <<mixed, forced>>

\* Wrong: the message stays.
DeleteMessageForgotten(c) ==
  /\ At(c, "deleteFile") /\ call[c].file > FileCount
  /\ Request(c, TRUE, UNCHANGED server, Idle)
  /\ UNCHANGED <<mixed, forced>>

DeleteMessage(c) ==
  /\ At(c, "deleteFile") /\ call[c].file > FileCount
  /\ LET e == call[c].entry
     IN Request(c, e \in Messages,
                /\ thread' = [thread EXCEPT !.messages = [d \in DOMAIN @ \ {e} |-> @[d]]]
                /\ UNCHANGED <<inbox, store>>,
                Idle)
  /\ UNCHANGED <<mixed, forced>>

-----------------------------------------------------------------------------
Init ==
  /\ inbox = [state |-> "none", version |-> 0, members |-> {}, key |-> 0, holders |-> << >>]
  /\ store = [state |-> "none", version |-> 0, members |-> {}, files |-> {}]
  /\ thread = [state |-> "none", version |-> 0, members |-> {}, messages |-> << >>]
  /\ call = [c \in Clients |-> Idle]
  /\ faults = 0 /\ mixed = FALSE /\ forced = FALSE

Next ==
  \E c \in Clients :
    \/ \E users \in SUBSET Users : CreateInbox(c, users)
    \/ CreateStoreEx(c)
    \/ CreateThreadEx(c)
    \/ InboxCreate(c)
    \/ \E users \in SUBSET Users, version \in 1..MaxVersion, force \in BOOLEAN :
         UpdateInbox(c, users, version, force)
    \/ InboxUpdate(c)
    \/ GetStoreEx(c)
    \/ UpdateStore(c)
    \/ GetThreadEx(c)
    \/ UpdateThread(c)
    \/ DeleteInbox(c)
    \/ InboxDelete(c)
    \/ DeleteStore(c)
    \/ DeleteThread(c)
    \/ \E e \in Entries : SendEntry(c, e) \/ DeleteEntry(c, e)
    \/ InboxSend(c)
    \/ DeleteFile(c)
    \/ DeleteMessage(c)

Spec == Init /\ [][Next]_vars

-----------------------------------------------------------------------------
Quiet == \A c \in Clients : call[c] = Idle

\* The variables have their types, and files and messages are of existing containers.
TypeOK ==
  /\ \A x \in {inbox, store, thread} :
       x.state \in {"none", "live", "deleted"} /\ x.version \in Nat /\ x.members \subseteq Users
  /\ inbox.version <= MaxVersion /\ inbox.key \in 0..Len(inbox.holders)
  /\ store.files \subseteq Files /\ (store.files # {} => Live(store))
  /\ Messages \subseteq Entries /\ (Messages # {} => Live(thread))
  /\ faults \in 0..MaxFaults

\* Whatever is lost and whoever else is at work: an Inbox that exists has its
\* Store and its Thread, since createInbox makes it last and deleteInbox removes it first.
InboxIsWhole == Live(inbox) => Live(store) /\ Live(thread)

\* The variables have their types, and an Inbox that exists has its Store and its
\* Thread at every point of createInbox and deleteInbox.
InboxInv == TypeOK /\ InboxIsWhole

\* A Store or a Thread is left without its Inbox only when a request was lost:
\* overlapping calls of deleteInbox and updateInbox leave none.
NoOrphans == Quiet /\ faults = 0 => inbox.state = store.state /\ store.state = thread.state

\* After updateInbox the three containers have the same members, unless a
\* request was lost or two updates ran at the same time.
MembersAgree ==
  Live(inbox) /\ Quiet /\ faults = 0 /\ ~mixed =>
    inbox.members = store.members /\ store.members = thread.members

\* A user of the Inbox can read all of its entries, also those sent with a key that was
\* replaced between the reading of the public view and inboxSend.
EntriesReadable ==
  Live(inbox) /\ ~forced =>
    \A e \in Messages : inbox.members \subseteq inbox.holders[thread.messages[e]]

\* An entry has all of its files unless a deleteEntry is at work on it or a request was
\* lost, however many clients delete the entry or the Inbox.
EntriesWhole ==
  faults = 0 /\ Live(inbox) =>
    \A e \in Messages :
      \/ \E c \in Clients : call[c].op = "deleteEntry" /\ call[c].entry = e
      \/ \A i \in 1..FileCount : <<e, i>> \in store.files

=============================================================================
