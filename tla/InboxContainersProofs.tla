----------------------- MODULE InboxContainersProofs -----------------------
(***************************************************************************)
(* Proofs about InboxContainers, for any clients, users and entries, any   *)
(* number of files of an entry, of versions of the Inbox and of lost       *)
(* requests and answers.                                                   *)
(***************************************************************************)
EXTENDS InboxContainers, TLAPS

States == {"none", "live", "deleted"}

(* An Inbox, and the calls.  The step of a call tells which call it is.    *)
Inboxes == [state : States, version : Nat, members : SUBSET Users, key : Nat,
            holders : Seq(SUBSET Users)]

Stores == [state : States, version : Nat, members : SUBSET Users, files : SUBSET Files]

Threads(messages) ==
  [state : States, version : Nat, members : SUBSET Users, messages : {messages}]

CreateSteps == {"createStore", "createThread", "create"}
UpdateSteps == {"update", "getStore", "updateStore", "getThread", "updateThread"}
DeleteSteps == {"delete", "deleteStore", "deleteThread"}

Creates == [op : {"createInbox"}, step : CreateSteps, users : SUBSET Users]
Updates == [op : {"updateInbox"}, step : UpdateSteps, users : SUBSET Users, version : Nat,
            force : BOOLEAN, read : Inboxes, seen : Nat]
Deletes == [op : {"deleteInbox"}, step : DeleteSteps]
Sends   == [op : {"sendEntry"}, step : {"send"}, entry : Entries, key : Nat]
Removes == [op : {"deleteEntry"}, step : {"deleteFile"}, entry : Entries, file : Nat \ {0}]
Calls   == {Idle} \cup Creates \cup Updates \cup Deletes \cup Sends \cup Removes

Shapes ==
  /\ inbox \in Inboxes
  /\ store \in Stores
  /\ thread \in Threads(thread.messages)
  /\ Messages \subseteq Entries
  /\ call \in [Clients -> Calls]
  /\ faults \in 0 .. MaxFaults

(* The containers come into being in one order and go in another.          *)
Order ==
  /\ inbox.state = "none" => store.state # "deleted" /\ Messages = {} /\ store.files = {}
  /\ store.state = "none" => inbox.state = "none" /\ thread.state = "none"
  /\ thread.state = "none" => inbox.state = "none"
  /\ store.state = "deleted" => inbox.state = "deleted"
  /\ thread.state = "deleted" => store.state = "deleted"
  /\ store.files # {} => Live(store)
  /\ Messages # {} => Live(thread)

(* createInbox is alone, and has made what its step says.                  *)
Making ==
  \A c \in Clients : call[c].op = "createInbox" =>
    /\ inbox.state = "none" /\ \A d \in Clients \ {c} : call[d] = Idle
    /\ IF At(c, "createStore") THEN store.state = "none"
       ELSE Live(store) /\ store.members = call[c].users
    /\ IF At(c, "create") THEN Live(thread) /\ thread.members = call[c].users
       ELSE thread.state = "none"

(* deleteInbox has deleted what its step says.                             *)
Unmaking ==
  \A c \in Clients :
    /\ At(c, "deleteStore") \/ At(c, "deleteThread") => inbox.state = "deleted"
    /\ At(c, "deleteThread") => store.state = "deleted"

(* The key of an Inbox, also of one that was read, is one it has.          *)
KeyKnown ==
  /\ inbox.version <= MaxVersion
  /\ inbox.key <= Len(inbox.holders) /\ (inbox.state # "none" => inbox.key >= 1)
  /\ \A c \in Clients : call[c].op = "updateInbox" =>
       call[c].read.key \in 1 .. Len(call[c].read.holders)
       /\ Len(call[c].read.holders) <= Len(inbox.holders)

(* The inductive invariant behind InboxInv.                                *)
ContainersInv == Shapes /\ Order /\ Making /\ Unmaking /\ KeyKnown

(* Without a loss, whatever is half made or half deleted is in the hands   *)
(* of a call that goes on with it.                                         *)
InHand ==
  faults = 0 =>
    /\ inbox.state = "none" /\ store.state # "none" =>
         \E c \in Clients : call[c].op = "createInbox"
    /\ inbox.state = "deleted" /\ store.state # "deleted" =>
         \E c \in Clients : At(c, "deleteStore")
    /\ store.state = "deleted" /\ thread.state # "deleted" =>
         \E c \in Clients : At(c, "deleteThread")

(* How far the members have got, when there is one updateInbox at most.    *)
Agreed == inbox.members = store.members /\ store.members = thread.members

InStep ==
  Live(inbox) /\ faults = 0 /\ ~mixed =>
    /\ \A c, d \in Updating : c = d
    /\ Updating = {} => Agreed
    /\ \A c \in Updating :
         /\ At(c, "update") => Agreed
         /\ At(c, "getStore") \/ At(c, "updateStore") =>
              inbox.members = call[c].users /\ store.members = thread.members
         /\ At(c, "updateStore") => call[c].seen = store.version
         /\ At(c, "getThread") \/ At(c, "updateThread") =>
              inbox.members = call[c].users /\ store.members = call[c].users
         /\ At(c, "updateThread") => call[c].seen = thread.version

(* Who holds which key.  An update that did not replace a version unseen   *)
(* has read the Inbox it replaces.                                         *)
KeysHeld ==
  /\ ~forced => \A k \in DOMAIN inbox.holders : inbox.members \subseteq inbox.holders[k]
  /\ \A e \in Messages : thread.messages[e] \in DOMAIN inbox.holders
  /\ \A c \in Clients : call[c].op = "sendEntry" => call[c].key \in DOMAIN inbox.holders
  /\ \A c \in Clients : At(c, "update") =>
       /\ call[c].read.version <= inbox.version
       /\ call[c].read.version = inbox.version =>
            call[c].read.members = inbox.members /\ call[c].read.holders = inbox.holders

(* An entry is sent by one call, and is not there before.                  *)
Sending ==
  \A c \in Clients : call[c].op = "sendEntry" =>
    /\ call[c].entry \notin Messages
    /\ \A d \in Clients : call[d].op = "sendEntry" /\ call[d].entry = call[c].entry => c = d

(* The calls that have deleted files of an entry.                          *)
Half(e) == {c \in Clients : /\ call[c].op = "deleteEntry" /\ call[c].entry = e
                            /\ call[c].file > 1}

(* Of the calls that delete an entry one at most has deleted files, all    *)
(* the ones before the one it is at; the others find the first one gone.   *)
FilesAt(e) ==
  /\ e \notin Messages => \A i \in 1 .. FileCount : <<e, i>> \notin store.files
  /\ \A c \in Half(e) :
       /\ e \in Messages /\ call[c].file <= FileCount + 1
       /\ \A i \in 1 .. FileCount : <<e, i>> \in store.files <=> i >= call[c].file
  /\ \A c, d \in Half(e) : c = d
  /\ e \in Messages => \/ \A i \in 1 .. FileCount : <<e, i>> \in store.files
                       \/ Half(e) # {}

FilesOf == faults = 0 /\ Live(inbox) => \A e \in Entries : FilesAt(e)

-----------------------------------------------------------------------------

(* The step of a call tells which call it is.                              *)
LEMMA Tells ==
  ASSUME NEW x \in Calls
  PROVE  /\ x.step \in CreateSteps <=> x.op = "createInbox"
         /\ x.step \in UpdateSteps <=> x.op = "updateInbox"
         /\ x.step \in DeleteSteps <=> x.op = "deleteInbox"
         /\ x.step = "send" <=> x.op = "sendEntry"
         /\ x.step = "deleteFile" <=> x.op = "deleteEntry"
         /\ x.op = "createInbox" => x \in Creates
         /\ x.op = "updateInbox" => x \in Updates
         /\ x.op = "deleteInbox" => x \in Deletes
         /\ x.op = "sendEntry" => x \in Sends
         /\ x.op = "deleteEntry" => x \in Removes
         /\ x.op = "none" <=> x = Idle
  BY DEF Calls, Idle, Creates, Updates, Deletes, Sends, Removes, CreateSteps,
     UpdateSteps, DeleteSteps

(* The fields of the calls.                                                *)
LEMMA Fields ==
  /\ \A x \in Creates : x \in Calls /\ x.op = "createInbox" /\ x.step \in CreateSteps
                        /\ x.users \in SUBSET Users
  /\ \A x \in Updates : x \in Calls /\ x.op = "updateInbox" /\ x.step \in UpdateSteps
                        /\ x.users \in SUBSET Users /\ x.version \in Nat /\ x.force \in BOOLEAN
                        /\ x.read \in Inboxes /\ x.seen \in Nat
  /\ \A x \in Deletes : x \in Calls /\ x.op = "deleteInbox" /\ x.step \in DeleteSteps
  /\ \A x \in Sends : x \in Calls /\ x.op = "sendEntry" /\ x.step = "send"
                      /\ x.entry \in Entries /\ x.key \in Nat
  /\ \A x \in Removes : x \in Calls /\ x.op = "deleteEntry" /\ x.step = "deleteFile"
                        /\ x.entry \in Entries /\ x.file \in Nat \ {0}
  /\ Idle \in Calls /\ Idle.op = "none" /\ Idle.step = "none"
  BY DEF Calls, Idle, Creates, Updates, Deletes, Sends, Removes

(* A call that goes on keeps its arguments.                                *)
LEMMA Going ==
  /\ \A x \in Creates : \A s \in CreateSteps :
       LET y == [x EXCEPT !.step = s] IN y \in Creates /\ y.step = s /\ y.users = x.users
  /\ \A x \in Updates : \A s \in UpdateSteps :
       LET y == [x EXCEPT !.step = s]
       IN  /\ y \in Updates /\ y.step = s /\ y.users = x.users /\ y.read = x.read
           /\ y.force = x.force /\ y.version = x.version /\ y.seen = x.seen
  /\ \A x \in Deletes : \A s \in DeleteSteps :
       LET y == [x EXCEPT !.step = s] IN y \in Deletes /\ y.step = s
  /\ \A x \in Removes :
       LET y == [x EXCEPT !.file = @ + 1]
       IN  y \in Removes /\ y.entry = x.entry /\ y.file = x.file + 1
  BY DEF Creates, Updates, Deletes, Removes

(* The step of a call, whoever makes it.                                   *)
Others(c) == \A d \in Clients : d # c => call'[d] = call[d]
Goes(c, x) == x \in Calls /\ call' \in [Clients -> Calls] /\ call'[c] = x /\ Others(c)
Lost == faults < MaxFaults /\ faults' = faults + 1
Stays == faults' = faults
Kept == inbox' = inbox /\ store' = store /\ thread' = thread
Marks == mixed' = mixed /\ forced' = forced

(* A step of a call leaves the others alone.                               *)
LEMMA Gone ==
  ASSUME Shapes, NEW c \in Clients, NEW x \in Calls, call' = [call EXCEPT ![c] = x]
  PROVE  Goes(c, x)
  BY DEF Shapes, Goes, Others

(* What comes of a request: it is refused or lost, or done with the answer *)
(* lost, or done and answered.                                             *)
Answered(c, ok, done, then) ==
  \/ Goes(c, Idle) /\ Kept /\ ((~ok /\ Stays) \/ Lost)
  \/ Goes(c, Idle) /\ Lost /\ ok /\ done
  \/ Goes(c, then) /\ Stays /\ ok /\ done

(* Request, whatever is asked for: four outcomes.                          *)
LEMMA Answers ==
  ASSUME Shapes, NEW c \in Clients, NEW STATE ok, NEW ACTION done, NEW STATE then,
         then \in Calls, Request(c, ok, done, then)
  PROVE  Answered(c, ok, done, then)
  BY Gone, Fields DEF Request, Answered, Start, End, Kept, Stays, Lost, server

(* What updateStore leaves.                                                *)
LEMMA StoreUpdated ==
  ASSUME NEW users \in SUBSET Users, NEW x \in Stores
  PROVE  LET y == [x EXCEPT !.version = @ + 1, !.members = users]
         IN  /\ y \in Stores /\ y.state = x.state /\ y.members = users
             /\ y.version = x.version + 1 /\ y.files = x.files
<1> DEFINE z == [x EXCEPT !.version = @ + 1]
           y == [z EXCEPT !.members = users]
<1>1. z \in Stores /\ z.state = x.state /\ z.version = x.version + 1 /\ z.files = x.files
  BY DEF Stores
<1>2. [x EXCEPT !.version = @ + 1, !.members = users] = y
  OBVIOUS
<1> HIDE DEF z
<1>3. /\ y \in Stores /\ y.state = x.state /\ y.members = users
      /\ y.version = x.version + 1 /\ y.files = x.files
  BY <1>1 DEF Stores
<1> HIDE DEF y
<1> QED BY <1>2, <1>3

(* What updateThread leaves.                                               *)
LEMMA ThreadUpdated ==
  ASSUME NEW users \in SUBSET Users, thread \in Threads(thread.messages)
  PROVE  LET y == [thread EXCEPT !.version = @ + 1, !.members = users]
         IN  /\ y \in Threads(thread.messages) /\ y.state = thread.state /\ y.members = users
             /\ y.version = thread.version + 1 /\ y.messages = thread.messages
<1> DEFINE z == [thread EXCEPT !.version = @ + 1]
           y == [z EXCEPT !.members = users]
<1>1. /\ z \in Threads(thread.messages) /\ z.state = thread.state
      /\ z.version = thread.version + 1 /\ z.messages = thread.messages
  BY DEF Threads
<1>2. [thread EXCEPT !.version = @ + 1, !.members = users] = y
  OBVIOUS
<1> HIDE DEF z
<1>3. /\ y \in Threads(thread.messages) /\ y.state = thread.state /\ y.members = users
      /\ y.version = thread.version + 1 /\ y.messages = thread.messages
  BY <1>1 DEF Threads
<1> HIDE DEF y
<1> QED BY <1>2, <1>3

(* The call of deleteEntry, one file further.                              *)
NextFile(c) == [call[c] EXCEPT !.file = @ + 1]

(* The next step of a call.                                                *)
LEMMA Steps ==
  ASSUME NEW c \in Clients
  PROVE  /\ call[c] \in Creates => \A s \in CreateSteps :
              Step(c, s) \in Creates /\ Step(c, s).step = s /\ Step(c, s).users = call[c].users
         /\ call[c] \in Updates => \A s \in UpdateSteps :
              /\ Step(c, s) \in Updates /\ Step(c, s).step = s
              /\ Step(c, s).users = call[c].users /\ Step(c, s).version = call[c].version
              /\ Step(c, s).force = call[c].force /\ Step(c, s).read = call[c].read
              /\ Step(c, s).seen = call[c].seen
         /\ call[c] \in Deletes => \A s \in DeleteSteps :
              Step(c, s) \in Deletes /\ Step(c, s).step = s
  BY Going DEF Step

-----------------------------------------------------------------------------
(* What each action does to the fields of the containers.                  *)

(* The Store is made with the users of the call.                           *)
LEMMA DoesCreateStoreEx ==
  ASSUME Shapes, NEW c \in Clients, CreateStoreEx(c)
  PROVE  /\ Answered(c, TRUE,
               /\ store' \in Stores /\ Live(store)' /\ store'.members = call[c].users
               /\ store'.files = {}
               /\ inbox' = inbox /\ thread' = thread,
               Step(c, "createThread"))
         /\ call[c] \in Creates /\ At(c, "createStore")
         /\ Step(c, "createThread") \in Creates /\ Step(c, "createThread").step = "createThread"
         /\ Step(c, "createThread").users = call[c].users
         /\ Marks
<1>1. call[c] \in Creates /\ call[c] \in Calls
  BY Tells DEF Shapes, CreateStoreEx, At, CreateSteps
<1>2. /\ Step(c, "createThread") \in Creates /\ Step(c, "createThread").step = "createThread"
      /\ Step(c, "createThread").users = call[c].users
  BY <1>1, Steps DEF CreateSteps
<1>3. Step(c, "createThread") \in Calls
  BY <1>2, Fields
<1>4. Answered(c, TRUE,
               /\ store' = [state |-> "live", version |-> 1, members |-> call[c].users, files |-> {}]
               /\ UNCHANGED <<inbox, thread>>,
               Step(c, "createThread"))
  BY <1>3, Answers DEF CreateStoreEx
<1>5. ASSUME /\ store' = [state |-> "live", version |-> 1, members |-> call[c].users, files |-> {}]
             /\ UNCHANGED <<inbox, thread>>
      PROVE  /\ store' \in Stores /\ Live(store)' /\ store'.members = call[c].users
             /\ store'.files = {}
             /\ inbox' = inbox /\ thread' = thread
  BY <1>1, <1>5, Fields DEF Shapes, States, Stores, Live
<1> QED BY <1>1, <1>2, <1>4, <1>5 DEF Answered, CreateStoreEx, Marks

(* The Thread is made with the users of the call.                          *)
LEMMA DoesCreateThreadEx ==
  ASSUME Shapes, NEW c \in Clients, CreateThreadEx(c)
  PROVE  /\ Answered(c, TRUE,
               /\ thread' \in Threads(<< >>) /\ Live(thread)' /\ thread'.members = call[c].users
               /\ thread'.messages = << >>
               /\ inbox' = inbox /\ store' = store,
               Step(c, "create"))
         /\ call[c] \in Creates /\ At(c, "createThread")
         /\ Step(c, "create") \in Creates /\ Step(c, "create").step = "create"
         /\ Step(c, "create").users = call[c].users
         /\ Marks
<1>1. call[c] \in Creates /\ call[c] \in Calls
  BY Tells DEF Shapes, CreateThreadEx, At, CreateSteps
<1>2. /\ Step(c, "create") \in Creates /\ Step(c, "create").step = "create"
      /\ Step(c, "create").users = call[c].users
  BY <1>1, Steps DEF CreateSteps
<1>3. Step(c, "create") \in Calls
  BY <1>2, Fields
<1>4. Answered(c, TRUE,
               /\ thread' = [state |-> "live", version |-> 1, members |-> call[c].users,
                             messages |-> << >>]
               /\ UNCHANGED <<inbox, store>>,
               Step(c, "create"))
  BY <1>3, Answers DEF CreateThreadEx
<1>5. ASSUME /\ thread' = [state |-> "live", version |-> 1, members |-> call[c].users,
                           messages |-> << >>]
             /\ UNCHANGED <<inbox, store>>
      PROVE  /\ thread' \in Threads(<< >>) /\ Live(thread)' /\ thread'.members = call[c].users
             /\ thread'.messages = << >>
             /\ inbox' = inbox /\ store' = store
  BY <1>1, <1>5, Fields DEF Shapes, States, Threads, Live
<1> QED BY <1>1, <1>2, <1>4, <1>5 DEF Answered, CreateThreadEx, Marks

(* The Inbox is made with the users of the call and one key, which they    *)
(* hold.                                                                   *)
LEMMA DoesInboxCreate ==
  ASSUME Shapes, NEW c \in Clients, InboxCreate(c)
  PROVE  /\ Answered(c, TRUE,
               /\ inbox' \in Inboxes /\ Live(inbox)' /\ inbox'.version = 1
               /\ inbox'.members = call[c].users /\ inbox'.key = 1
               /\ inbox'.holders = <<call[c].users>>
               /\ store' = store /\ thread' = thread,
               Idle)
         /\ call[c] \in Creates /\ At(c, "create")
         /\ Marks
<1>1. call[c] \in Creates /\ call[c] \in Calls
  BY Tells DEF Shapes, InboxCreate, At, CreateSteps
<1>3. Idle \in Calls
  BY Fields
<1>4. Answered(c, TRUE,
               /\ inbox' = [state |-> "live", version |-> 1, members |-> call[c].users,
                            key |-> 1, holders |-> <<call[c].users>>]
               /\ UNCHANGED <<store, thread>>,
               Idle)
  BY <1>3, Answers DEF InboxCreate
<1>5. ASSUME /\ inbox' = [state |-> "live", version |-> 1, members |-> call[c].users,
                          key |-> 1, holders |-> <<call[c].users>>]
             /\ UNCHANGED <<store, thread>>
      PROVE  /\ inbox' \in Inboxes /\ Live(inbox)' /\ inbox'.version = 1
             /\ inbox'.members = call[c].users /\ inbox'.key = 1
             /\ inbox'.holders = <<call[c].users>>
             /\ store' = store /\ thread' = thread
  BY <1>1, <1>5, Fields DEF Shapes, States, Inboxes, Live
<1> QED BY <1>1, <1>4, <1>5 DEF Answered, InboxCreate, Marks

(* The Store gets the users of the call and its next version.              *)
LEMMA DoesUpdateStore ==
  ASSUME Shapes, NEW c \in Clients, UpdateStore(c)
  PROVE  /\ Answered(c, MayUpdate(c, store),
               /\ store' \in Stores /\ store'.state = store.state /\ store'.members = call[c].users
               /\ store'.version = store.version + 1 /\ store'.files = store.files
               /\ inbox' = inbox /\ thread' = thread,
               Step(c, "getThread"))
         /\ call[c] \in Updates /\ At(c, "updateStore")
         /\ Step(c, "getThread") \in Updates /\ Step(c, "getThread").step = "getThread"
         /\ Step(c, "getThread").users = call[c].users
         /\ Step(c, "getThread").version = call[c].version
         /\ Step(c, "getThread").force = call[c].force
         /\ Step(c, "getThread").read = call[c].read
         /\ Step(c, "getThread").seen = call[c].seen
         /\ Marks
<1>1. call[c] \in Updates /\ call[c] \in Calls
  BY Tells DEF Shapes, UpdateStore, At, UpdateSteps
<1>2. /\ Step(c, "getThread") \in Updates /\ Step(c, "getThread").step = "getThread"
      /\ Step(c, "getThread").users = call[c].users
      /\ Step(c, "getThread").version = call[c].version
      /\ Step(c, "getThread").force = call[c].force
      /\ Step(c, "getThread").read = call[c].read
      /\ Step(c, "getThread").seen = call[c].seen
  BY <1>1, Steps DEF UpdateSteps
<1>3. Step(c, "getThread") \in Calls
  BY <1>2, Fields
<1>4. Answered(c, MayUpdate(c, store),
               store' = Updated(c, store) /\ UNCHANGED <<inbox, thread>>,
               Step(c, "getThread"))
  BY <1>3, Answers DEF UpdateStore
<1>0. call[c].users \in SUBSET Users
  BY <1>1, Fields
<1>5. ASSUME store' = Updated(c, store) /\ UNCHANGED <<inbox, thread>>
      PROVE  /\ store' \in Stores /\ store'.state = store.state /\ store'.members = call[c].users
             /\ store'.version = store.version + 1 /\ store'.files = store.files
             /\ inbox' = inbox /\ thread' = thread
  BY <1>0, <1>1, <1>5, StoreUpdated DEF Shapes, States, Updated
<1> QED BY <1>1, <1>2, <1>4, <1>5 DEF Answered, UpdateStore, Marks

(* The Thread gets the users of the call and its next version.             *)
LEMMA DoesUpdateThread ==
  ASSUME Shapes, NEW c \in Clients, UpdateThread(c)
  PROVE  /\ Answered(c, MayUpdate(c, thread),
               /\ thread' \in Threads(thread.messages) /\ thread'.state = thread.state
               /\ thread'.members = call[c].users /\ thread'.version = thread.version + 1
               /\ thread'.messages = thread.messages
               /\ inbox' = inbox /\ store' = store,
               Idle)
         /\ call[c] \in Updates /\ At(c, "updateThread")
         /\ Marks
<1>1. call[c] \in Updates /\ call[c] \in Calls
  BY Tells DEF Shapes, UpdateThread, At, UpdateSteps
<1>3. Idle \in Calls
  BY Fields
<1>4. Answered(c, MayUpdate(c, thread),
               thread' = Updated(c, thread) /\ UNCHANGED <<inbox, store>>,
               Idle)
  BY <1>3, Answers DEF UpdateThread
<1>0. call[c].users \in SUBSET Users
  BY <1>1, Fields
<1>5. ASSUME thread' = Updated(c, thread) /\ UNCHANGED <<inbox, store>>
      PROVE  /\ thread' \in Threads(thread.messages) /\ thread'.state = thread.state
             /\ thread'.members = call[c].users /\ thread'.version = thread.version + 1
             /\ thread'.messages = thread.messages
             /\ inbox' = inbox /\ store' = store
  BY <1>0, <1>1, <1>5, ThreadUpdated DEF Shapes, States, Updated
<1> QED BY <1>1, <1>4, <1>5 DEF Answered, UpdateThread, Marks

(* The Inbox is deleted.                                                   *)
LEMMA DoesInboxDelete ==
  ASSUME Shapes, NEW c \in Clients, InboxDelete(c)
  PROVE  /\ Answered(c, Live(inbox),
               /\ inbox' \in Inboxes /\ inbox'.state = "deleted" /\ inbox'.version = inbox.version
               /\ inbox'.members = inbox.members /\ inbox'.key = inbox.key
               /\ inbox'.holders = inbox.holders
               /\ store' = store /\ thread' = thread,
               Step(c, "deleteStore"))
         /\ call[c] \in Deletes /\ At(c, "delete")
         /\ Step(c, "deleteStore") \in Deletes /\ Step(c, "deleteStore").step = "deleteStore"
         /\ Marks
<1>1. call[c] \in Deletes /\ call[c] \in Calls
  BY Tells DEF Shapes, InboxDelete, At, DeleteSteps
<1>2. /\ Step(c, "deleteStore") \in Deletes /\ Step(c, "deleteStore").step = "deleteStore"
  BY <1>1, Steps DEF DeleteSteps
<1>3. Step(c, "deleteStore") \in Calls
  BY <1>2, Fields
<1>4. Answered(c, Live(inbox),
               inbox' = [inbox EXCEPT !.state = "deleted"] /\ UNCHANGED <<store, thread>>,
               Step(c, "deleteStore"))
  BY <1>3, Answers DEF InboxDelete
<1>5. ASSUME inbox' = [inbox EXCEPT !.state = "deleted"] /\ UNCHANGED <<store, thread>>
      PROVE  /\ inbox' \in Inboxes /\ inbox'.state = "deleted" /\ inbox'.version = inbox.version
             /\ inbox'.members = inbox.members /\ inbox'.key = inbox.key
             /\ inbox'.holders = inbox.holders
             /\ store' = store /\ thread' = thread
  BY <1>1, <1>5, Fields DEF Shapes, States, Inboxes
<1> QED BY <1>1, <1>2, <1>4, <1>5 DEF Answered, InboxDelete, Marks

(* The Store is deleted with its files.                                    *)
LEMMA DoesDeleteStore ==
  ASSUME Shapes, NEW c \in Clients, DeleteStore(c)
  PROVE  /\ Answered(c, Live(store),
               /\ store' \in Stores /\ store'.state = "deleted" /\ store'.files = {}
               /\ inbox' = inbox /\ thread' = thread,
               Step(c, "deleteThread"))
         /\ call[c] \in Deletes /\ At(c, "deleteStore")
         /\ Step(c, "deleteThread") \in Deletes /\ Step(c, "deleteThread").step = "deleteThread"
         /\ Marks
<1>1. call[c] \in Deletes /\ call[c] \in Calls
  BY Tells DEF Shapes, DeleteStore, At, DeleteSteps
<1>2. /\ Step(c, "deleteThread") \in Deletes /\ Step(c, "deleteThread").step = "deleteThread"
  BY <1>1, Steps DEF DeleteSteps
<1>3. Step(c, "deleteThread") \in Calls
  BY <1>2, Fields
<1>4. Answered(c, Live(store),
               /\ store' = [store EXCEPT !.state = "deleted", !.files = {}]
               /\ UNCHANGED <<inbox, thread>>,
               Step(c, "deleteThread"))
  BY <1>3, Answers DEF DeleteStore
<1>5. ASSUME /\ store' = [store EXCEPT !.state = "deleted", !.files = {}]
             /\ UNCHANGED <<inbox, thread>>
      PROVE  /\ store' \in Stores /\ store'.state = "deleted" /\ store'.files = {}
             /\ inbox' = inbox /\ thread' = thread
  BY <1>1, <1>5, Fields DEF Shapes, States, Stores
<1> QED BY <1>1, <1>2, <1>4, <1>5 DEF Answered, DeleteStore, Marks

(* The Thread is deleted with its messages.                                *)
LEMMA DoesDeleteThread ==
  ASSUME Shapes, NEW c \in Clients, DeleteThread(c)
  PROVE  /\ Answered(c, Live(thread),
               /\ thread' \in Threads(<< >>) /\ thread'.state = "deleted" /\ thread'.messages = << >>
               /\ inbox' = inbox /\ store' = store,
               Idle)
         /\ call[c] \in Deletes /\ At(c, "deleteThread")
         /\ Marks
<1>1. call[c] \in Deletes /\ call[c] \in Calls
  BY Tells DEF Shapes, DeleteThread, At, DeleteSteps
<1>3. Idle \in Calls
  BY Fields
<1>4. Answered(c, Live(thread),
               /\ thread' = [thread EXCEPT !.state = "deleted", !.messages = << >>]
               /\ UNCHANGED <<inbox, store>>,
               Idle)
  BY <1>3, Answers DEF DeleteThread
<1>5. ASSUME /\ thread' = [thread EXCEPT !.state = "deleted", !.messages = << >>]
             /\ UNCHANGED <<inbox, store>>
      PROVE  /\ thread' \in Threads(<< >>) /\ thread'.state = "deleted" /\ thread'.messages = << >>
             /\ inbox' = inbox /\ store' = store
  BY <1>1, <1>5, Fields DEF Shapes, States, Threads
<1> QED BY <1>1, <1>4, <1>5 DEF Answered, DeleteThread, Marks

(* The files of the entry and its message, with the key the call has read, *)
(* are added.                                                              *)
LEMMA DoesInboxSend ==
  ASSUME Shapes, NEW c \in Clients, InboxSend(c)
  PROVE  /\ Answered(c, Live(inbox) /\ Live(store) /\ Live(thread),
               /\ store' \in Stores /\ store'.state = store.state /\ store'.members = store.members
               /\ store'.version = store.version
               /\ store'.files = store.files \cup {<<call[c].entry, i>> : i \in 1..FileCount}
               /\ thread' \in Threads(thread'.messages) /\ thread'.state = thread.state
               /\ thread'.members = thread.members /\ thread'.version = thread.version
               /\ Messages' = Messages \cup {call[c].entry}
               /\ thread'.messages[call[c].entry] = call[c].key
               /\ \A d \in Messages : d # call[c].entry => thread'.messages[d] = thread.messages[d]
               /\ inbox' = inbox,
               Idle)
         /\ call[c] \in Sends /\ At(c, "send")
         /\ Marks
<1>1. call[c] \in Sends /\ call[c] \in Calls
  BY Tells DEF Shapes, InboxSend, At
<1>3. Idle \in Calls
  BY Fields
<1>4. Answered(c, Live(inbox) /\ Live(store) /\ Live(thread),
               /\ store' = [store EXCEPT !.files = @ \cup {<<call[c].entry, i>> : i \in 1..FileCount}]
               /\ thread' = [thread EXCEPT !.messages =
                    [d \in DOMAIN @ \cup {call[c].entry} |->
                      IF d = call[c].entry THEN call[c].key ELSE @[d]]]
               /\ UNCHANGED inbox,
               Idle)
  BY <1>3, Answers DEF InboxSend
<1>5. ASSUME /\ store' = [store EXCEPT !.files = @ \cup {<<call[c].entry, i>> : i \in 1..FileCount}]
             /\ thread' = [thread EXCEPT !.messages =
                  [d \in DOMAIN @ \cup {call[c].entry} |->
                    IF d = call[c].entry THEN call[c].key ELSE @[d]]]
             /\ UNCHANGED inbox
      PROVE  /\ store' \in Stores /\ store'.state = store.state /\ store'.members = store.members
             /\ store'.version = store.version
             /\ store'.files = store.files \cup {<<call[c].entry, i>> : i \in 1..FileCount}
             /\ thread' \in Threads(thread'.messages) /\ thread'.state = thread.state
             /\ thread'.members = thread.members /\ thread'.version = thread.version
             /\ Messages' = Messages \cup {call[c].entry}
             /\ thread'.messages[call[c].entry] = call[c].key
             /\ \A d \in Messages : d # call[c].entry => thread'.messages[d] = thread.messages[d]
             /\ inbox' = inbox
  BY <1>1, <1>5, Fields DEF Shapes, States, Stores, Threads, Files, Messages
<1> QED BY <1>1, <1>4, <1>5 DEF Answered, InboxSend, Marks

(* The file is deleted.                                                    *)
LEMMA DoesDeleteFile ==
  ASSUME Shapes, NEW c \in Clients, DeleteFile(c)
  PROVE  /\ Answered(c, <<call[c].entry, call[c].file>> \in store.files,
               /\ store' \in Stores /\ store'.state = store.state /\ store'.members = store.members
               /\ store'.version = store.version
               /\ store'.files = store.files \ {<<call[c].entry, call[c].file>>}
               /\ inbox' = inbox /\ thread' = thread,
               NextFile(c))
         /\ call[c] \in Removes /\ At(c, "deleteFile")
         /\ NextFile(c) \in Removes
         /\ NextFile(c).entry = call[c].entry
         /\ NextFile(c).file = call[c].file + 1
         /\ Marks
<1>1. call[c] \in Removes /\ call[c] \in Calls
  BY Tells DEF Shapes, DeleteFile, At
<1>2. /\ NextFile(c) \in Removes
      /\ NextFile(c).entry = call[c].entry
      /\ NextFile(c).file = call[c].file + 1
  BY <1>1, Going DEF NextFile
<1>3. NextFile(c) \in Calls
  BY <1>2, Fields
<1>4. Answered(c, <<call[c].entry, call[c].file>> \in store.files,
               /\ store' = [store EXCEPT !.files = @ \ {<<call[c].entry, call[c].file>>}]
               /\ UNCHANGED <<inbox, thread>>,
               NextFile(c))
  BY <1>3, Answers DEF DeleteFile, NextFile
<1>5. ASSUME /\ store' = [store EXCEPT !.files = @ \ {<<call[c].entry, call[c].file>>}]
             /\ UNCHANGED <<inbox, thread>>
      PROVE  /\ store' \in Stores /\ store'.state = store.state /\ store'.members = store.members
             /\ store'.version = store.version
             /\ store'.files = store.files \ {<<call[c].entry, call[c].file>>}
             /\ inbox' = inbox /\ thread' = thread
  BY <1>1, <1>5, Fields DEF Shapes, States, Stores, Files
<1> QED BY <1>1, <1>2, <1>4, <1>5 DEF Answered, DeleteFile, Marks

(* The message is deleted.                                                 *)
LEMMA DoesDeleteMessage ==
  ASSUME Shapes, NEW c \in Clients, DeleteMessage(c)
  PROVE  /\ Answered(c, call[c].entry \in Messages,
               /\ thread' \in Threads(thread'.messages) /\ thread'.state = thread.state
               /\ thread'.members = thread.members /\ thread'.version = thread.version
               /\ Messages' = Messages \ {call[c].entry}
               /\ \A d \in Messages' : thread'.messages[d] = thread.messages[d]
               /\ inbox' = inbox /\ store' = store,
               Idle)
         /\ call[c] \in Removes /\ At(c, "deleteFile")
         /\ Marks
<1>1. call[c] \in Removes /\ call[c] \in Calls
  BY Tells DEF Shapes, DeleteMessage, At
<1>3. Idle \in Calls
  BY Fields
<1>4. Answered(c, call[c].entry \in Messages,
               /\ thread' = [thread EXCEPT !.messages = [d \in DOMAIN @ \ {call[c].entry} |-> @[d]]]
               /\ UNCHANGED <<inbox, store>>,
               Idle)
  BY <1>3, Answers DEF DeleteMessage
<1>5. ASSUME /\ thread' = [thread EXCEPT !.messages = [d \in DOMAIN @ \ {call[c].entry} |-> @[d]]]
             /\ UNCHANGED <<inbox, store>>
      PROVE  /\ thread' \in Threads(thread'.messages) /\ thread'.state = thread.state
             /\ thread'.members = thread.members /\ thread'.version = thread.version
             /\ Messages' = Messages \ {call[c].entry}
             /\ \A d \in Messages' : thread'.messages[d] = thread.messages[d]
             /\ inbox' = inbox /\ store' = store
  BY <1>1, <1>5, Fields DEF Shapes, States, Threads, Messages
<1> QED BY <1>1, <1>4, <1>5 DEF Answered, DeleteMessage, Marks

(* UpdatedKeys only adds: each key keeps its holders, the added users get  *)
(* the keys that were read, and a new key goes to all users.               *)
LEMMA KeysUpdated ==
  ASSUME inbox \in Inboxes, NEW read \in Inboxes, NEW users \in SUBSET Users
  PROVE  LET k == UpdatedKeys(read, users)
             n == Len(inbox.holders)
         IN  /\ k.holders \in Seq(SUBSET Users) /\ k.key \in Nat
             /\ \A i \in 1 .. n : k.holders[i] = inbox.holders[i] \cup
                    (IF i \in DOMAIN read.holders THEN users \ read.members ELSE {})
             /\ \/ /\ read.members \ users # {} /\ k.key = n + 1 /\ Len(k.holders) = n + 1
                   /\ k.holders[n + 1] = users
                \/ read.members \subseteq users /\ k.key = read.key /\ Len(k.holders) = n
<1> DEFINE n == Len(inbox.holders)
           all == [i \in DOMAIN inbox.holders |-> inbox.holders[i] \cup
                    (IF i \in DOMAIN read.holders THEN users \ read.members ELSE {})]
           k == UpdatedKeys(read, users)
<1>1. inbox.holders \in Seq(SUBSET Users) /\ read.members \subseteq Users /\ read.key \in Nat
  BY DEF Inboxes
<1>2. n \in Nat /\ DOMAIN inbox.holders = 1 .. n
  BY <1>1
<1>3. \A i \in 1 .. n : inbox.holders[i] \subseteq Users
  BY <1>1, <1>2
<1>4. all \in [1 .. n -> SUBSET Users]
  BY <1>1, <1>2, <1>3
<1>5. all \in Seq(SUBSET Users) /\ Len(all) = n
  BY <1>2, <1>4
<1>6. \A i \in 1 .. n : all[i] = inbox.holders[i] \cup
                    (IF i \in DOMAIN read.holders THEN users \ read.members ELSE {})
  BY <1>2
<1>7. k.key = (IF read.members \ users # {} THEN Len(all) + 1 ELSE read.key)
      /\ k.holders = (IF read.members \ users # {} THEN Append(all, users) ELSE all)
  BY DEF UpdatedKeys
<1> HIDE DEF all, k
<1>8. CASE read.members \ users # {}
  <2>1. k.holders = Append(all, users) /\ k.key = n + 1
    BY <1>5, <1>7, <1>8
  <2>2. k.holders \in Seq(SUBSET Users) /\ Len(k.holders) = n + 1
        /\ k.holders[n + 1] = users /\ \A i \in 1 .. n : k.holders[i] = all[i]
    BY <2>1, <1>2, <1>5
  <2> QED BY <2>1, <2>2, <1>2, <1>6, <1>8 DEF k
<1>9. CASE read.members \subseteq users
  BY <1>1, <1>5, <1>6, <1>7, <1>9 DEF k
<1> QED BY <1>8, <1>9

(* inboxUpdate is accepted, and the keys it leaves.                        *)
Accepted(c) ==
  Live(inbox) /\ inbox.version < MaxVersion /\ (call[c].force \/ call[c].version = inbox.version)
Keys(c) == UpdatedKeys(call[c].read, call[c].users)

(* The Inbox gets the users and the keys of the call and its next version; *)
(* forced is set when the call had read another version.                   *)
LEMMA DoesInboxUpdate ==
  ASSUME Shapes, NEW c \in Clients, InboxUpdate(c)
  PROVE  /\ Answered(c, Accepted(c),
               /\ inbox' \in Inboxes /\ Live(inbox)' /\ inbox'.version = inbox.version + 1
               /\ inbox'.members = call[c].users /\ inbox'.key = Keys(c).key
               /\ inbox'.holders = Keys(c).holders
               /\ store' = store /\ thread' = thread,
               Step(c, "getStore"))
         /\ call[c] \in Updates /\ At(c, "update")
         /\ Step(c, "getStore") \in Updates /\ Step(c, "getStore").step = "getStore"
         /\ Step(c, "getStore").users = call[c].users
         /\ Step(c, "getStore").read = call[c].read
         /\ mixed' = mixed
         /\ forced' = (forced \/ (Accepted(c) /\ call[c].read.version # inbox.version))
<1>1. call[c] \in Updates
  BY Tells DEF Shapes, InboxUpdate, At, UpdateSteps
<1>2. /\ Step(c, "getStore") \in Updates /\ Step(c, "getStore").step = "getStore"
      /\ Step(c, "getStore").users = call[c].users
      /\ Step(c, "getStore").read = call[c].read
  BY <1>1, Steps DEF UpdateSteps
<1>3. Step(c, "getStore") \in Calls
  BY <1>2, Fields
<1>4. Answered(c, Accepted(c),
               /\ inbox' = [state |-> "live", version |-> inbox.version + 1,
                            members |-> call[c].users, key |-> Keys(c).key,
                            holders |-> Keys(c).holders]
               /\ UNCHANGED <<store, thread>>,
               Step(c, "getStore"))
  BY <1>3, Answers DEF InboxUpdate, Accepted, Keys
<1>5. Keys(c).key \in Nat /\ Keys(c).holders \in Seq(SUBSET Users) /\ call[c].users \in SUBSET Users
      /\ inbox.version \in Nat
  BY <1>1, KeysUpdated, Fields DEF Shapes, Keys, Inboxes
<1>6. ASSUME inbox' = [state |-> "live", version |-> inbox.version + 1,
                       members |-> call[c].users, key |-> Keys(c).key,
                       holders |-> Keys(c).holders]
      PROVE  /\ inbox' \in Inboxes /\ Live(inbox)' /\ inbox'.version = inbox.version + 1
             /\ inbox'.members = call[c].users /\ inbox'.key = Keys(c).key
             /\ inbox'.holders = Keys(c).holders
  BY <1>5, <1>6 DEF Inboxes, Live, States
<1> QED BY <1>1, <1>2, <1>4, <1>6 DEF Answered, InboxUpdate, Accepted

(* A container is read, with the version it has.                           *)
LEMMA DoesSeen ==
  ASSUME Shapes, NEW c \in Clients, NEW step \in UpdateSteps, NEW container,
         container.version \in Nat, NEW next \in UpdateSteps, Seen(c, step, container, next)
  PROVE  /\ Kept /\ Stays /\ Marks /\ call[c] \in Updates /\ At(c, step)
         /\ \/ Goes(c, Idle) /\ ~Live(container)
            \/ /\ Goes(c, call'[c]) /\ call'[c] \in Updates /\ Live(container)
               /\ call'[c].step = next /\ call'[c].seen = container.version
               /\ call'[c].users = call[c].users /\ call'[c].read = call[c].read
<1>1. call[c] \in Updates
  BY Tells DEF Shapes, Seen, At
<1>2. Kept /\ Stays /\ Marks /\ At(c, step)
  BY DEF Seen, Kept, Stays, Marks, server
<1> DEFINE x == [call[c] EXCEPT !.step = next, !.seen = container.version]
<1>3. /\ x \in Updates /\ x.step = next /\ x.seen = container.version
      /\ x.users = call[c].users /\ x.read = call[c].read
  BY <1>1 DEF Updates
<1>4. x \in Calls /\ Idle \in Calls
  BY <1>3, Fields
<1>5. call' = [call EXCEPT ![c] = IF Live(container) THEN x ELSE Idle]
  BY DEF Seen
<1> HIDE DEF x
<1>6. CASE Live(container)
  BY <1>1, <1>2, <1>3, <1>4, <1>5, <1>6, Gone DEF Goes
<1>7. CASE ~Live(container)
  BY <1>1, <1>2, <1>4, <1>5, <1>7, Gone
<1> QED BY <1>6, <1>7

(* createInbox begins when there is nothing yet.                           *)
LEMMA DoesCreateInbox ==
  ASSUME Shapes, NEW c \in Clients, NEW users \in SUBSET Users, CreateInbox(c, users)
  PROVE  /\ Kept /\ Stays /\ Marks /\ Goes(c, call'[c]) /\ call'[c] \in Creates
         /\ call'[c].step = "createStore" /\ call'[c].users = users
         /\ inbox.state = "none" /\ store.state = "none" /\ \A d \in Clients : call[d] = Idle
<1> DEFINE x == [op |-> "createInbox", step |-> "createStore", users |-> users]
<1>1. x \in Creates /\ x.step = "createStore" /\ x.users = users
  BY DEF Creates, CreateSteps
<1>2. x \in Calls
  BY <1>1, Fields
<1>3. call' = [call EXCEPT ![c] = x]
  BY DEF CreateInbox, Start
<1> HIDE DEF x
<1>4. Goes(c, x)
  BY <1>2, <1>3, Gone
<1> QED BY <1>1, <1>4 DEF CreateInbox, Goes, Kept, Stays, Marks, server

(* updateInbox begins with the Inbox as it is.                             *)
LEMMA DoesUpdateInbox ==
  ASSUME Shapes, NEW c \in Clients, NEW users \in SUBSET Users,
         NEW version \in 1 .. MaxVersion, NEW force \in BOOLEAN,
         UpdateInbox(c, users, version, force)
  PROVE  /\ Kept /\ Stays /\ Goes(c, call'[c]) /\ call[c] = Idle /\ call'[c] \in Updates
         /\ call'[c].step = "update" /\ call'[c].read = inbox /\ Live(inbox)
         /\ mixed' = (mixed \/ Updating # {}) /\ forced' = forced
<1> DEFINE x == [op |-> "updateInbox", step |-> "update", users |-> users, version |-> version,
                 force |-> force, read |-> inbox, seen |-> 0]
<1>1. x \in Updates /\ x.step = "update" /\ x.read = inbox
  BY InboxAssumption DEF Updates, UpdateSteps, Shapes
<1>2. x \in Calls
  BY <1>1, Fields
<1>3. call' = [call EXCEPT ![c] = x]
  BY DEF UpdateInbox, Start
<1> HIDE DEF x
<1>4. Goes(c, x)
  BY <1>2, <1>3, Gone
<1> QED BY <1>1, <1>4 DEF UpdateInbox, Goes, Kept, Stays, server

(* deleteInbox begins on an Inbox that exists.                             *)
LEMMA DoesDeleteInbox ==
  ASSUME Shapes, NEW c \in Clients, DeleteInbox(c)
  PROVE  /\ Kept /\ Stays /\ Marks /\ Goes(c, call'[c]) /\ call[c] = Idle
         /\ call'[c] \in Deletes /\ call'[c].step = "delete" /\ Live(inbox)
<1> DEFINE x == [op |-> "deleteInbox", step |-> "delete"]
<1>1. x \in Deletes /\ x.step = "delete"
  BY DEF Deletes, DeleteSteps
<1>2. x \in Calls
  BY <1>1, Fields
<1>3. call' = [call EXCEPT ![c] = x]
  BY DEF DeleteInbox, Start
<1> HIDE DEF x
<1>4. Goes(c, x)
  BY <1>2, <1>3, Gone
<1> QED BY <1>1, <1>4 DEF DeleteInbox, Goes, Kept, Stays, Marks, server

(* sendEntry begins with a fresh entry and the current key.                *)
LEMMA DoesSendEntry ==
  ASSUME Shapes, NEW c \in Clients, NEW e \in Entries, SendEntry(c, e)
  PROVE  /\ Kept /\ Stays /\ Marks /\ Goes(c, call'[c]) /\ call[c] = Idle
         /\ call'[c] \in Sends /\ call'[c].entry = e /\ call'[c].key = inbox.key /\ Live(inbox)
         /\ e \notin Messages
         /\ \A d \in Clients : call[d].op = "sendEntry" => call[d].entry # e
<1> DEFINE x == [op |-> "sendEntry", step |-> "send", entry |-> e, key |-> inbox.key]
<1>1. x \in Sends /\ x.entry = e /\ x.key = inbox.key
  BY DEF Sends, Shapes, Inboxes
<1>2. x \in Calls
  BY <1>1, Fields
<1>3. call' = [call EXCEPT ![c] = x]
  BY DEF SendEntry, Start
<1> HIDE DEF x
<1>4. Goes(c, x)
  BY <1>2, <1>3, Gone
<1> QED BY <1>1, <1>4 DEF SendEntry, Goes, Kept, Stays, Marks, server

(* deleteEntry begins with the first file.                                 *)
LEMMA DoesDeleteEntry ==
  ASSUME Shapes, NEW c \in Clients, NEW e \in Entries, DeleteEntry(c, e)
  PROVE  /\ Kept /\ Stays /\ Marks /\ Goes(c, call'[c]) /\ call[c] = Idle
         /\ call'[c] \in Removes /\ call'[c].entry = e /\ call'[c].file = 1
         /\ Live(thread) /\ e \in Messages
<1> DEFINE x == [op |-> "deleteEntry", step |-> "deleteFile", entry |-> e, file |-> 1]
<1>1. x \in Removes /\ x.entry = e /\ x.file = 1
  BY DEF Removes
<1>2. x \in Calls
  BY <1>1, Fields
<1>3. call' = [call EXCEPT ![c] = x]
  BY DEF DeleteEntry, Start
<1> HIDE DEF x
<1>4. Goes(c, x)
  BY <1>2, <1>3, Gone
<1> QED BY <1>1, <1>4 DEF DeleteEntry, Goes, Kept, Stays, Marks, server

-----------------------------------------------------------------------------
(* ContainersInv.                                                          *)

(* Every step keeps the types.                                             *)
LEMMA ShapesKept ==
  ASSUME Shapes, [Next]_vars
  PROVE  Shapes'
<1>0. CASE UNCHANGED vars
  BY <1>0 DEF vars, Shapes, Messages
<1>1. ASSUME NEW c \in Clients, NEW users \in SUBSET Users, CreateInbox(c, users)
      PROVE  Shapes'
  <2>1. Kept /\ Stays /\ call' \in [Clients -> Calls]
    BY <1>1, DoesCreateInbox DEF Goes
  <2> QED BY <2>1 DEF Kept, Stays, Shapes, Messages
<1>2. ASSUME NEW c \in Clients, CreateStoreEx(c)
      PROVE  Shapes'
  BY <1>2, DoesCreateStoreEx, Fields, InboxAssumption DEF Answered, Goes, Kept, Stays,
     Lost, Shapes, Messages
<1>3. ASSUME NEW c \in Clients, CreateThreadEx(c)
      PROVE  Shapes'
  BY <1>3, DoesCreateThreadEx, Fields, InboxAssumption DEF Answered, Goes, Kept,
     Stays, Lost, Shapes, Messages
<1>4. ASSUME NEW c \in Clients, InboxCreate(c)
      PROVE  Shapes'
  BY <1>4, DoesInboxCreate, Fields, InboxAssumption DEF Answered, Goes, Kept, Stays,
     Lost, Shapes, Messages
<1>5. ASSUME NEW c \in Clients, NEW users \in SUBSET Users,
             NEW version \in 1 .. MaxVersion, NEW force \in BOOLEAN, UpdateInbox(c, users, version, force)
      PROVE  Shapes'
  <2>1. Kept /\ Stays /\ call' \in [Clients -> Calls]
    BY <1>5, DoesUpdateInbox DEF Goes
  <2> QED BY <2>1 DEF Kept, Stays, Shapes, Messages
<1>6. ASSUME NEW c \in Clients, InboxUpdate(c)
      PROVE  Shapes'
  BY <1>6, DoesInboxUpdate, Fields, InboxAssumption DEF Answered, Goes, Kept, Stays,
     Lost, Shapes, Messages
<1>7. ASSUME NEW c \in Clients, GetStoreEx(c)
      PROVE  Shapes'
  <2>1. Seen(c, "getStore", store, "updateStore") /\ store.version \in Nat
    BY <1>7 DEF GetStoreEx, Shapes, Stores
  <2>2. Kept /\ Stays /\ call' \in [Clients -> Calls]
    BY <2>1, DoesSeen DEF UpdateSteps, Goes
  <2> QED BY <2>2 DEF Kept, Stays, Shapes, Messages
<1>8. ASSUME NEW c \in Clients, UpdateStore(c)
      PROVE  Shapes'
  BY <1>8, DoesUpdateStore, Fields, InboxAssumption DEF Answered, Goes, Kept, Stays,
     Lost, Shapes, Messages
<1>9. ASSUME NEW c \in Clients, GetThreadEx(c)
      PROVE  Shapes'
  <2>1. Seen(c, "getThread", thread, "updateThread") /\ thread.version \in Nat
    BY <1>9 DEF GetThreadEx, Shapes, Threads
  <2>2. Kept /\ Stays /\ call' \in [Clients -> Calls]
    BY <2>1, DoesSeen DEF UpdateSteps, Goes
  <2> QED BY <2>2 DEF Kept, Stays, Shapes, Messages
<1>10. ASSUME NEW c \in Clients, UpdateThread(c)
      PROVE  Shapes'
  BY <1>10, DoesUpdateThread, Fields, InboxAssumption DEF Answered, Goes, Kept, Stays,
     Lost, Shapes, Messages
<1>11. ASSUME NEW c \in Clients, DeleteInbox(c)
      PROVE  Shapes'
  <2>1. Kept /\ Stays /\ call' \in [Clients -> Calls]
    BY <1>11, DoesDeleteInbox DEF Goes
  <2> QED BY <2>1 DEF Kept, Stays, Shapes, Messages
<1>12. ASSUME NEW c \in Clients, InboxDelete(c)
      PROVE  Shapes'
  BY <1>12, DoesInboxDelete, Fields, InboxAssumption DEF Answered, Goes, Kept, Stays,
     Lost, Shapes, Messages
<1>13. ASSUME NEW c \in Clients, DeleteStore(c)
      PROVE  Shapes'
  BY <1>13, DoesDeleteStore, Fields, InboxAssumption DEF Answered, Goes, Kept, Stays,
     Lost, Shapes, Messages
<1>14. ASSUME NEW c \in Clients, DeleteThread(c)
      PROVE  Shapes'
  BY <1>14, DoesDeleteThread, Fields, InboxAssumption DEF Answered, Goes, Kept, Stays,
     Lost, Shapes, Messages
<1>15. ASSUME NEW c \in Clients, NEW e \in Entries, SendEntry(c, e)
      PROVE  Shapes'
  <2>1. Kept /\ Stays /\ call' \in [Clients -> Calls]
    BY <1>15, DoesSendEntry DEF Goes
  <2> QED BY <2>1 DEF Kept, Stays, Shapes, Messages
<1>16. ASSUME NEW c \in Clients, NEW e \in Entries, DeleteEntry(c, e)
      PROVE  Shapes'
  <2>1. Kept /\ Stays /\ call' \in [Clients -> Calls]
    BY <1>16, DoesDeleteEntry DEF Goes
  <2> QED BY <2>1 DEF Kept, Stays, Shapes, Messages
<1>17. ASSUME NEW c \in Clients, InboxSend(c)
      PROVE  Shapes'
  BY <1>17, DoesInboxSend, Fields, InboxAssumption DEF Answered, Goes, Kept, Stays,
     Lost, Shapes, Messages
<1>18. ASSUME NEW c \in Clients, DeleteFile(c)
      PROVE  Shapes'
  <2>1. call' \in [Clients -> Calls]
    BY <1>18, DoesDeleteFile DEF Answered, Goes
  <2>4. faults' \in 0 .. MaxFaults
    <3>1. Stays \/ Lost
      BY <1>18, DoesDeleteFile DEF Answered
    <3> QED BY <3>1, InboxAssumption DEF Stays, Lost, Shapes
  <2>2. inbox' = inbox /\ thread' = thread
    BY <1>18, DoesDeleteFile DEF Answered, Kept
  <2>3. store' \in Stores
    BY <1>18, DoesDeleteFile DEF Answered, Kept, Shapes
  <2> QED BY <2>1, <2>2, <2>3, <2>4 DEF Shapes, Messages
<1>19. ASSUME NEW c \in Clients, DeleteMessage(c)
      PROVE  Shapes'
  BY <1>19, DoesDeleteMessage, Fields, InboxAssumption DEF Answered, Goes, Kept,
     Stays, Lost, Shapes, Messages
<1> QED
  BY <1>0, <1>1, <1>2, <1>3, <1>4, <1>5, <1>6, <1>7, <1>8, <1>9, <1>10, <1>11, <1>12,
     <1>13, <1>14, <1>15, <1>16, <1>17, <1>18, <1>19 DEF Next

(* Every step keeps the order of the containers: only createInbox, alone,  *)
(* makes one, and only a deleteInbox that has deleted the Inbox deletes    *)
(* the others.                                                             *)
LEMMA OrderKept ==
  ASSUME ContainersInv, [Next]_vars
  PROVE  Order'
<1>0. CASE UNCHANGED vars
  BY <1>0 DEF vars, ContainersInv, Order, Messages, Live
<1>1. ASSUME NEW c \in Clients, NEW users \in SUBSET Users, CreateInbox(c, users)
      PROVE  Order'
  BY <1>1, DoesCreateInbox, Fields DEF Answered, Goes, Others, Kept, Live,
     ContainersInv, Order, Shapes, States, Stores, Threads, Inboxes, Messages, Making,
     Unmaking, At, Accepted
<1>2. ASSUME NEW c \in Clients, CreateStoreEx(c)
      PROVE  Order'
  BY <1>2, DoesCreateStoreEx, Fields DEF Answered, Goes, Others, Kept, Live,
     ContainersInv, Order, Shapes, States, Stores, Threads, Inboxes, Messages, Making,
     Unmaking, At, Accepted
<1>3. ASSUME NEW c \in Clients, CreateThreadEx(c)
      PROVE  Order'
  BY <1>3, DoesCreateThreadEx, Fields DEF Answered, Goes, Others, Kept, Live,
     ContainersInv, Order, Shapes, States, Stores, Threads, Inboxes, Messages, Making,
     Unmaking, At, Accepted
<1>4. ASSUME NEW c \in Clients, InboxCreate(c)
      PROVE  Order'
  BY <1>4, DoesInboxCreate, Fields DEF Answered, Goes, Others, Kept, Live,
     ContainersInv, Order, Shapes, States, Stores, Threads, Inboxes, Messages, Making,
     Unmaking, At, Accepted
<1>5. ASSUME NEW c \in Clients, NEW users \in SUBSET Users,
             NEW version \in 1 .. MaxVersion, NEW force \in BOOLEAN, UpdateInbox(c, users, version, force)
      PROVE  Order'
  BY <1>5, DoesUpdateInbox, Fields DEF Answered, Goes, Others, Kept, Live,
     ContainersInv, Order, Shapes, States, Stores, Threads, Inboxes, Messages, Making,
     Unmaking, At, Accepted
<1>6. ASSUME NEW c \in Clients, InboxUpdate(c)
      PROVE  Order'
  BY <1>6, DoesInboxUpdate, Fields DEF Answered, Goes, Others, Kept, Live,
     ContainersInv, Order, Shapes, States, Stores, Threads, Inboxes, Messages, Making,
     Unmaking, At, Accepted
<1>7. ASSUME NEW c \in Clients, GetStoreEx(c)
      PROVE  Order'
  <2>1. Seen(c, "getStore", store, "updateStore") /\ store.version \in Nat
    BY <1>7 DEF GetStoreEx, ContainersInv, Shapes, Stores
  <2>2. /\ Kept /\ Stays /\ Marks /\ call[c] \in Updates /\ At(c, "getStore")
        /\ \/ Goes(c, Idle) /\ ~Live(store)
           \/ /\ Goes(c, call'[c]) /\ call'[c] \in Updates /\ Live(store)
              /\ call'[c].step = "updateStore" /\ call'[c].seen = store.version
              /\ call'[c].users = call[c].users /\ call'[c].read = call[c].read
    BY <2>1, DoesSeen DEF ContainersInv, UpdateSteps
  <2> QED
    BY <2>2, Tells, Fields DEF Goes, Others, Kept, Stays, Marks, ContainersInv,
       Order, Messages, Live
<1>8. ASSUME NEW c \in Clients, UpdateStore(c)
      PROVE  Order'
  BY <1>8, DoesUpdateStore, Fields DEF Answered, Goes, Others, Kept, Live,
     ContainersInv, Order, Shapes, States, Stores, Threads, Inboxes, Messages, Making,
     Unmaking, At, Accepted
<1>9. ASSUME NEW c \in Clients, GetThreadEx(c)
      PROVE  Order'
  <2>1. Seen(c, "getThread", thread, "updateThread") /\ thread.version \in Nat
    BY <1>9 DEF GetThreadEx, ContainersInv, Shapes, Threads
  <2>2. /\ Kept /\ Stays /\ Marks /\ call[c] \in Updates /\ At(c, "getThread")
        /\ \/ Goes(c, Idle) /\ ~Live(thread)
           \/ /\ Goes(c, call'[c]) /\ call'[c] \in Updates /\ Live(thread)
              /\ call'[c].step = "updateThread" /\ call'[c].seen = thread.version
              /\ call'[c].users = call[c].users /\ call'[c].read = call[c].read
    BY <2>1, DoesSeen DEF ContainersInv, UpdateSteps
  <2> QED
    BY <2>2, Tells, Fields DEF Goes, Others, Kept, Stays, Marks, ContainersInv,
       Order, Messages, Live
<1>10. ASSUME NEW c \in Clients, UpdateThread(c)
      PROVE  Order'
  BY <1>10, DoesUpdateThread, Fields DEF Answered, Goes, Others, Kept, Live,
     ContainersInv, Order, Shapes, States, Stores, Threads, Inboxes, Messages, Making,
     Unmaking, At, Accepted
<1>11. ASSUME NEW c \in Clients, DeleteInbox(c)
      PROVE  Order'
  BY <1>11, DoesDeleteInbox, Fields DEF Answered, Goes, Others, Kept, Live,
     ContainersInv, Order, Shapes, States, Stores, Threads, Inboxes, Messages, Making,
     Unmaking, At, Accepted
<1>12. ASSUME NEW c \in Clients, InboxDelete(c)
      PROVE  Order'
  BY <1>12, DoesInboxDelete, Fields DEF Answered, Goes, Others, Kept, Live,
     ContainersInv, Order, Shapes, States, Stores, Threads, Inboxes, Messages, Making,
     Unmaking, At, Accepted
<1>13. ASSUME NEW c \in Clients, DeleteStore(c)
      PROVE  Order'
  BY <1>13, DoesDeleteStore, Fields DEF Answered, Goes, Others, Kept, Live,
     ContainersInv, Order, Shapes, States, Stores, Threads, Inboxes, Messages, Making,
     Unmaking, At, Accepted
<1>14. ASSUME NEW c \in Clients, DeleteThread(c)
      PROVE  Order'
  BY <1>14, DoesDeleteThread, Fields DEF Answered, Goes, Others, Kept, Live,
     ContainersInv, Order, Shapes, States, Stores, Threads, Inboxes, Messages, Making,
     Unmaking, At, Accepted
<1>15. ASSUME NEW c \in Clients, NEW e \in Entries, SendEntry(c, e)
      PROVE  Order'
  BY <1>15, DoesSendEntry, Fields DEF Answered, Goes, Others, Kept, Live,
     ContainersInv, Order, Shapes, States, Stores, Threads, Inboxes, Messages, Making,
     Unmaking, At, Accepted
<1>16. ASSUME NEW c \in Clients, NEW e \in Entries, DeleteEntry(c, e)
      PROVE  Order'
  BY <1>16, DoesDeleteEntry, Fields DEF Answered, Goes, Others, Kept, Live,
     ContainersInv, Order, Shapes, States, Stores, Threads, Inboxes, Messages, Making,
     Unmaking, At, Accepted
<1>17. ASSUME NEW c \in Clients, InboxSend(c)
      PROVE  Order'
  BY <1>17, DoesInboxSend, Fields DEF Answered, Goes, Others, Kept, Live,
     ContainersInv, Order, Shapes, States, Stores, Threads, Inboxes, Messages, Making,
     Unmaking, At, Accepted
<1>18. ASSUME NEW c \in Clients, DeleteFile(c)
      PROVE  Order'
  BY <1>18, DoesDeleteFile, Fields DEF Answered, Goes, Others, Kept, Live,
     ContainersInv, Order, Shapes, States, Stores, Threads, Inboxes, Messages, Making,
     Unmaking, At, Accepted
<1>19. ASSUME NEW c \in Clients, DeleteMessage(c)
      PROVE  Order'
  BY <1>19, DoesDeleteMessage, Fields DEF Answered, Goes, Others, Kept, Live,
     ContainersInv, Order, Shapes, States, Stores, Threads, Inboxes, Messages, Making,
     Unmaking, At, Accepted
<1> QED
  BY <1>0, <1>1, <1>2, <1>3, <1>4, <1>5, <1>6, <1>7, <1>8, <1>9, <1>10, <1>11, <1>12,
     <1>13, <1>14, <1>15, <1>16, <1>17, <1>18, <1>19 DEF Next

(* No call begins while createInbox is at work, since all of them need an  *)
(* Inbox or a message.                                                     *)
LEMMA MakingKept ==
  ASSUME ContainersInv, [Next]_vars
  PROVE  Making'
<1>0. CASE UNCHANGED vars
  BY <1>0 DEF vars, ContainersInv, Making, Live, At
<1>1. ASSUME NEW c \in Clients, NEW users \in SUBSET Users, CreateInbox(c, users)
      PROVE  Making'
  BY <1>1, DoesCreateInbox, Fields, Tells DEF Answered, Goes, Others, Kept, Live,
     ContainersInv, Making, At, Shapes, CreateSteps, Order
<1>2. ASSUME NEW c \in Clients, CreateStoreEx(c)
      PROVE  Making'
  BY <1>2, DoesCreateStoreEx, Fields, Tells DEF Answered, Goes, Others, Kept, Live,
     ContainersInv, Making, At, Accepted, Shapes, CreateSteps, UpdateSteps,
     DeleteSteps, Idle
<1>3. ASSUME NEW c \in Clients, CreateThreadEx(c)
      PROVE  Making'
  BY <1>3, DoesCreateThreadEx, Fields, Tells DEF Answered, Goes, Others, Kept, Live,
     ContainersInv, Making, At, Accepted, Shapes, CreateSteps, UpdateSteps,
     DeleteSteps, Idle
<1>4. ASSUME NEW c \in Clients, InboxCreate(c)
      PROVE  Making'
  BY <1>4, DoesInboxCreate, Fields, Tells DEF Answered, Goes, Others, Kept, Live,
     ContainersInv, Making, At, Accepted, Shapes, CreateSteps, UpdateSteps,
     DeleteSteps, Idle
<1>5. ASSUME NEW c \in Clients, NEW users \in SUBSET Users,
             NEW version \in 1 .. MaxVersion, NEW force \in BOOLEAN, UpdateInbox(c, users, version, force)
      PROVE  Making'
  BY <1>5, DoesUpdateInbox, Fields, Tells DEF Answered, Goes, Others, Kept, Live,
     ContainersInv, Making, At, Accepted, Shapes, CreateSteps, UpdateSteps,
     DeleteSteps, Idle
<1>6. ASSUME NEW c \in Clients, InboxUpdate(c)
      PROVE  Making'
  BY <1>6, DoesInboxUpdate, Fields, Tells DEF Answered, Goes, Others, Kept, Live,
     ContainersInv, Making, At, Accepted, Shapes, CreateSteps, UpdateSteps,
     DeleteSteps, Idle
<1>7. ASSUME NEW c \in Clients, GetStoreEx(c)
      PROVE  Making'
  <2>1. Seen(c, "getStore", store, "updateStore") /\ store.version \in Nat
    BY <1>7 DEF GetStoreEx, ContainersInv, Shapes, Stores
  <2>2. /\ Kept /\ Stays /\ Marks /\ call[c] \in Updates /\ At(c, "getStore")
        /\ \/ Goes(c, Idle) /\ ~Live(store)
           \/ /\ Goes(c, call'[c]) /\ call'[c] \in Updates /\ Live(store)
              /\ call'[c].step = "updateStore" /\ call'[c].seen = store.version
              /\ call'[c].users = call[c].users /\ call'[c].read = call[c].read
    BY <2>1, DoesSeen DEF ContainersInv, UpdateSteps
  <2> QED
    BY <2>2, Tells, Fields DEF Goes, Others, Kept, Stays, Marks, ContainersInv,
       Making, Live, At, Shapes, CreateSteps, UpdateSteps, DeleteSteps
<1>8. ASSUME NEW c \in Clients, UpdateStore(c)
      PROVE  Making'
  BY <1>8, DoesUpdateStore, Fields, Tells DEF Answered, Goes, Others, Kept, Live,
     ContainersInv, Making, At, Accepted, Shapes, CreateSteps, UpdateSteps,
     DeleteSteps, Idle
<1>9. ASSUME NEW c \in Clients, GetThreadEx(c)
      PROVE  Making'
  <2>1. Seen(c, "getThread", thread, "updateThread") /\ thread.version \in Nat
    BY <1>9 DEF GetThreadEx, ContainersInv, Shapes, Threads
  <2>2. /\ Kept /\ Stays /\ Marks /\ call[c] \in Updates /\ At(c, "getThread")
        /\ \/ Goes(c, Idle) /\ ~Live(thread)
           \/ /\ Goes(c, call'[c]) /\ call'[c] \in Updates /\ Live(thread)
              /\ call'[c].step = "updateThread" /\ call'[c].seen = thread.version
              /\ call'[c].users = call[c].users /\ call'[c].read = call[c].read
    BY <2>1, DoesSeen DEF ContainersInv, UpdateSteps
  <2> QED
    BY <2>2, Tells, Fields DEF Goes, Others, Kept, Stays, Marks, ContainersInv,
       Making, Live, At, Shapes, CreateSteps, UpdateSteps, DeleteSteps
<1>10. ASSUME NEW c \in Clients, UpdateThread(c)
      PROVE  Making'
  BY <1>10, DoesUpdateThread, Fields, Tells DEF Answered, Goes, Others, Kept, Live,
     ContainersInv, Making, At, Accepted, Shapes, CreateSteps, UpdateSteps,
     DeleteSteps, Idle
<1>11. ASSUME NEW c \in Clients, DeleteInbox(c)
      PROVE  Making'
  BY <1>11, DoesDeleteInbox, Fields, Tells DEF Answered, Goes, Others, Kept, Live,
     ContainersInv, Making, At, Accepted, Shapes, CreateSteps, UpdateSteps,
     DeleteSteps, Idle
<1>12. ASSUME NEW c \in Clients, InboxDelete(c)
      PROVE  Making'
  BY <1>12, DoesInboxDelete, Fields, Tells DEF Answered, Goes, Others, Kept, Live,
     ContainersInv, Making, At, Accepted, Shapes, CreateSteps, UpdateSteps,
     DeleteSteps, Idle
<1>13. ASSUME NEW c \in Clients, DeleteStore(c)
      PROVE  Making'
  BY <1>13, DoesDeleteStore, Fields, Tells DEF Answered, Goes, Others, Kept, Live,
     ContainersInv, Making, At, Accepted, Shapes, CreateSteps, UpdateSteps,
     DeleteSteps, Idle
<1>14. ASSUME NEW c \in Clients, DeleteThread(c)
      PROVE  Making'
  BY <1>14, DoesDeleteThread, Fields, Tells DEF Answered, Goes, Others, Kept, Live,
     ContainersInv, Making, At, Accepted, Shapes, CreateSteps, UpdateSteps,
     DeleteSteps, Idle
<1>15. ASSUME NEW c \in Clients, NEW e \in Entries, SendEntry(c, e)
      PROVE  Making'
  BY <1>15, DoesSendEntry, Fields, Tells DEF Answered, Goes, Others, Kept, Live,
     ContainersInv, Making, At, Accepted, Shapes, CreateSteps, UpdateSteps,
     DeleteSteps, Idle
<1>16. ASSUME NEW c \in Clients, NEW e \in Entries, DeleteEntry(c, e)
      PROVE  Making'
  BY <1>16, DoesDeleteEntry, Fields, Tells DEF Answered, Goes, Others, Kept, Live,
     ContainersInv, Making, At, Shapes, CreateSteps, Order
<1>17. ASSUME NEW c \in Clients, InboxSend(c)
      PROVE  Making'
  BY <1>17, DoesInboxSend, Fields, Tells DEF Answered, Goes, Others, Kept, Live,
     ContainersInv, Making, At, Accepted, Shapes, CreateSteps, UpdateSteps,
     DeleteSteps, Idle
<1>18. ASSUME NEW c \in Clients, DeleteFile(c)
      PROVE  Making'
  <2>1. /\ inbox' = inbox /\ thread' = thread /\ store'.state = store.state
        /\ store'.members = store.members /\ store'.version = store.version /\ Marks
        /\ call[c] \in Removes /\ call' \in [Clients -> Calls] /\ Others(c)
        /\ call'[c] = Idle \/ call'[c] \in Removes
        /\ Stays \/ Lost
    BY <1>18, DoesDeleteFile DEF ContainersInv, Answered, Goes, Kept
  <2> QED
    BY <2>1, Tells, Fields DEF Others, Stays, Lost, Marks, ContainersInv, Making,
       Live, At, Shapes, CreateSteps, UpdateSteps, DeleteSteps
<1>19. ASSUME NEW c \in Clients, DeleteMessage(c)
      PROVE  Making'
  BY <1>19, DoesDeleteMessage, Fields, Tells DEF Answered, Goes, Others, Kept, Live,
     ContainersInv, Making, At, Accepted, Shapes, CreateSteps, UpdateSteps,
     DeleteSteps, Idle
<1> QED
  BY <1>0, <1>1, <1>2, <1>3, <1>4, <1>5, <1>6, <1>7, <1>8, <1>9, <1>10, <1>11, <1>12,
     <1>13, <1>14, <1>15, <1>16, <1>17, <1>18, <1>19 DEF Next

(* A deleted container stays deleted.                                      *)
LEMMA UnmakingKept ==
  ASSUME ContainersInv, [Next]_vars
  PROVE  Unmaking'
<1>0. CASE UNCHANGED vars
  BY <1>0 DEF vars, ContainersInv, Unmaking, Live, At
<1>1. ASSUME NEW c \in Clients, NEW users \in SUBSET Users, CreateInbox(c, users)
      PROVE  Unmaking'
  BY <1>1, DoesCreateInbox, Fields, Tells DEF Answered, Goes, Others, Kept, Live,
     ContainersInv, Unmaking, At, Accepted, Shapes, CreateSteps, UpdateSteps,
     DeleteSteps
<1>2. ASSUME NEW c \in Clients, CreateStoreEx(c)
      PROVE  Unmaking'
  BY <1>2, DoesCreateStoreEx, Fields, Tells DEF Answered, Goes, Others, Kept, Live,
     ContainersInv, Making, Unmaking, At, Shapes, CreateSteps, Idle
<1>3. ASSUME NEW c \in Clients, CreateThreadEx(c)
      PROVE  Unmaking'
  BY <1>3, DoesCreateThreadEx, Fields, Tells DEF Answered, Goes, Others, Kept, Live,
     ContainersInv, Unmaking, At, Accepted, Shapes, CreateSteps, UpdateSteps,
     DeleteSteps
<1>4. ASSUME NEW c \in Clients, InboxCreate(c)
      PROVE  Unmaking'
  BY <1>4, DoesInboxCreate, Fields, Tells DEF Answered, Goes, Others, Kept, Live,
     ContainersInv, Making, Unmaking, At, Shapes, CreateSteps, Idle
<1>5. ASSUME NEW c \in Clients, NEW users \in SUBSET Users,
             NEW version \in 1 .. MaxVersion, NEW force \in BOOLEAN, UpdateInbox(c, users, version, force)
      PROVE  Unmaking'
  BY <1>5, DoesUpdateInbox, Fields, Tells DEF Answered, Goes, Others, Kept, Live,
     ContainersInv, Unmaking, At, Accepted, Shapes, CreateSteps, UpdateSteps,
     DeleteSteps
<1>6. ASSUME NEW c \in Clients, InboxUpdate(c)
      PROVE  Unmaking'
  BY <1>6, DoesInboxUpdate, Fields, Tells DEF Answered, Goes, Others, Kept, Live,
     ContainersInv, Unmaking, At, Accepted, Shapes, CreateSteps, UpdateSteps,
     DeleteSteps
<1>7. ASSUME NEW c \in Clients, GetStoreEx(c)
      PROVE  Unmaking'
  <2>1. Seen(c, "getStore", store, "updateStore") /\ store.version \in Nat
    BY <1>7 DEF GetStoreEx, ContainersInv, Shapes, Stores
  <2>2. /\ Kept /\ Stays /\ Marks /\ call[c] \in Updates /\ At(c, "getStore")
        /\ \/ Goes(c, Idle) /\ ~Live(store)
           \/ /\ Goes(c, call'[c]) /\ call'[c] \in Updates /\ Live(store)
              /\ call'[c].step = "updateStore" /\ call'[c].seen = store.version
              /\ call'[c].users = call[c].users /\ call'[c].read = call[c].read
    BY <2>1, DoesSeen DEF ContainersInv, UpdateSteps
  <2> QED
    BY <2>2, Tells, Fields DEF Goes, Others, Kept, Stays, Marks, ContainersInv,
       Unmaking, Live, At, Shapes, CreateSteps, UpdateSteps
<1>8. ASSUME NEW c \in Clients, UpdateStore(c)
      PROVE  Unmaking'
  BY <1>8, DoesUpdateStore, Fields, Tells DEF Answered, Goes, Others, Kept, Live,
     ContainersInv, Unmaking, At, Accepted, Shapes, CreateSteps, UpdateSteps,
     DeleteSteps
<1>9. ASSUME NEW c \in Clients, GetThreadEx(c)
      PROVE  Unmaking'
  <2>1. Seen(c, "getThread", thread, "updateThread") /\ thread.version \in Nat
    BY <1>9 DEF GetThreadEx, ContainersInv, Shapes, Threads
  <2>2. /\ Kept /\ Stays /\ Marks /\ call[c] \in Updates /\ At(c, "getThread")
        /\ \/ Goes(c, Idle) /\ ~Live(thread)
           \/ /\ Goes(c, call'[c]) /\ call'[c] \in Updates /\ Live(thread)
              /\ call'[c].step = "updateThread" /\ call'[c].seen = thread.version
              /\ call'[c].users = call[c].users /\ call'[c].read = call[c].read
    BY <2>1, DoesSeen DEF ContainersInv, UpdateSteps
  <2> QED
    BY <2>2, Tells, Fields DEF Goes, Others, Kept, Stays, Marks, ContainersInv,
       Unmaking, Live, At, Shapes, CreateSteps, UpdateSteps
<1>10. ASSUME NEW c \in Clients, UpdateThread(c)
      PROVE  Unmaking'
  BY <1>10, DoesUpdateThread, Fields, Tells DEF Answered, Goes, Others, Kept, Live,
     ContainersInv, Unmaking, At, Accepted, Shapes, CreateSteps, UpdateSteps,
     DeleteSteps
<1>11. ASSUME NEW c \in Clients, DeleteInbox(c)
      PROVE  Unmaking'
  BY <1>11, DoesDeleteInbox, Fields, Tells DEF Answered, Goes, Others, Kept, Live,
     ContainersInv, Unmaking, At, Accepted, Shapes, CreateSteps, UpdateSteps,
     DeleteSteps
<1>12. ASSUME NEW c \in Clients, InboxDelete(c)
      PROVE  Unmaking'
  BY <1>12, DoesInboxDelete, Fields, Tells DEF Answered, Goes, Others, Kept, Live,
     ContainersInv, Unmaking, At, Accepted, Shapes, CreateSteps, UpdateSteps,
     DeleteSteps
<1>13. ASSUME NEW c \in Clients, DeleteStore(c)
      PROVE  Unmaking'
  BY <1>13, DoesDeleteStore, Fields, Tells DEF Answered, Goes, Others, Kept, Live,
     ContainersInv, Unmaking, At, Accepted, Shapes, CreateSteps, UpdateSteps,
     DeleteSteps
<1>14. ASSUME NEW c \in Clients, DeleteThread(c)
      PROVE  Unmaking'
  BY <1>14, DoesDeleteThread, Fields, Tells DEF Answered, Goes, Others, Kept, Live,
     ContainersInv, Unmaking, At, Accepted, Shapes, CreateSteps, UpdateSteps,
     DeleteSteps
<1>15. ASSUME NEW c \in Clients, NEW e \in Entries, SendEntry(c, e)
      PROVE  Unmaking'
  BY <1>15, DoesSendEntry, Fields, Tells DEF Answered, Goes, Others, Kept, Live,
     ContainersInv, Unmaking, At, Accepted, Shapes, CreateSteps, UpdateSteps,
     DeleteSteps
<1>16. ASSUME NEW c \in Clients, NEW e \in Entries, DeleteEntry(c, e)
      PROVE  Unmaking'
  BY <1>16, DoesDeleteEntry, Fields, Tells DEF Answered, Goes, Others, Kept, Live,
     ContainersInv, Unmaking, At, Accepted, Shapes, CreateSteps, UpdateSteps,
     DeleteSteps
<1>17. ASSUME NEW c \in Clients, InboxSend(c)
      PROVE  Unmaking'
  BY <1>17, DoesInboxSend, Fields, Tells DEF Answered, Goes, Others, Kept, Live,
     ContainersInv, Unmaking, At, Accepted, Shapes, CreateSteps, UpdateSteps,
     DeleteSteps
<1>18. ASSUME NEW c \in Clients, DeleteFile(c)
      PROVE  Unmaking'
  <2>1. /\ inbox' = inbox /\ thread' = thread /\ store'.state = store.state
        /\ store'.members = store.members /\ store'.version = store.version /\ Marks
        /\ call[c] \in Removes /\ call' \in [Clients -> Calls] /\ Others(c)
        /\ call'[c] = Idle \/ call'[c] \in Removes
        /\ Stays \/ Lost
    BY <1>18, DoesDeleteFile DEF ContainersInv, Answered, Goes, Kept
  <2> QED
    BY <2>1, Tells, Fields DEF Others, Stays, Lost, Marks, ContainersInv, Unmaking,
       Live, At, Shapes, CreateSteps, UpdateSteps, DeleteSteps
<1>19. ASSUME NEW c \in Clients, DeleteMessage(c)
      PROVE  Unmaking'
  BY <1>19, DoesDeleteMessage, Fields, Tells DEF Answered, Goes, Others, Kept, Live,
     ContainersInv, Unmaking, At, Accepted, Shapes, CreateSteps, UpdateSteps,
     DeleteSteps
<1> QED
  BY <1>0, <1>1, <1>2, <1>3, <1>4, <1>5, <1>6, <1>7, <1>8, <1>9, <1>10, <1>11, <1>12,
     <1>13, <1>14, <1>15, <1>16, <1>17, <1>18, <1>19 DEF Next

(* Keys are only added, and the current one is the new one or the one that *)
(* was read.                                                               *)
LEMMA KeyKnownKept ==
  ASSUME ContainersInv, [Next]_vars
  PROVE  KeyKnown'
<1>0. CASE UNCHANGED vars
  BY <1>0 DEF vars, ContainersInv, KeyKnown
<1>1. ASSUME NEW c \in Clients, NEW users \in SUBSET Users, CreateInbox(c, users)
      PROVE  KeyKnown'
  BY <1>1, DoesCreateInbox, Fields, Tells DEF Answered, Goes, Others, Kept, Live,
     ContainersInv, KeyKnown, Accepted, Making, At
<1>2. ASSUME NEW c \in Clients, CreateStoreEx(c)
      PROVE  KeyKnown'
  BY <1>2, DoesCreateStoreEx, Fields, Tells DEF Answered, Goes, Others, Kept, Live,
     ContainersInv, KeyKnown, Accepted, Making, At
<1>3. ASSUME NEW c \in Clients, CreateThreadEx(c)
      PROVE  KeyKnown'
  BY <1>3, DoesCreateThreadEx, Fields, Tells DEF Answered, Goes, Others, Kept, Live,
     ContainersInv, KeyKnown, Accepted, Making, At
<1>4. ASSUME NEW c \in Clients, InboxCreate(c)
      PROVE  KeyKnown'
  <2>1. \A d \in Clients : call'[d].op # "updateInbox"
    BY <1>4, DoesInboxCreate, Fields, Tells DEF Answered, Goes, Others, ContainersInv,
       Making, Shapes, At, CreateSteps
  <2>2. \/ inbox' = inbox
        \/ inbox'.version = 1 /\ inbox'.key = 1 /\ inbox'.holders = <<call[c].users>>
    BY <1>4, DoesInboxCreate DEF ContainersInv, Answered, Kept
  <2>3. CASE inbox' = inbox
    BY <2>1, <2>3 DEF ContainersInv, KeyKnown
  <2>4. CASE inbox'.version = 1 /\ inbox'.key = 1 /\ inbox'.holders = <<call[c].users>>
    <3>1. Len(inbox'.holders) = 1
      BY <2>4
    <3> QED BY <2>1, <2>4, <3>1, InboxAssumption DEF KeyKnown
  <2> QED BY <2>2, <2>3, <2>4
<1>5. ASSUME NEW c \in Clients, NEW users \in SUBSET Users,
             NEW version \in 1 .. MaxVersion, NEW force \in BOOLEAN, UpdateInbox(c, users, version, force)
      PROVE  KeyKnown'
  <2>1. /\ inbox' = inbox /\ call'[c].read = inbox /\ Live(inbox) /\ Others(c)
    BY <1>5, DoesUpdateInbox DEF ContainersInv, Kept, Goes
  <2>2. inbox.key \in 1 .. Len(inbox.holders) /\ Len(inbox.holders) \in Nat
    BY <2>1 DEF ContainersInv, KeyKnown, Live, Shapes, Inboxes
  <2> QED BY <2>1, <2>2 DEF ContainersInv, KeyKnown, Others
<1>6. ASSUME NEW c \in Clients, InboxUpdate(c)
      PROVE  KeyKnown'
  <2>1. /\ call[c] \in Updates /\ Others(c)
        /\ call'[c] = Idle \/ call'[c].read = call[c].read
        /\ \/ inbox' = inbox
           \/ /\ Live(inbox) /\ inbox.version < MaxVersion /\ inbox'.version = inbox.version + 1
              /\ inbox'.key = Keys(c).key /\ inbox'.holders = Keys(c).holders
    BY <1>6, DoesInboxUpdate DEF ContainersInv, Answered, Kept, Goes, Accepted
  <2>2. /\ inbox \in Inboxes /\ call[c].users \in SUBSET Users /\ call[c].read \in Inboxes
        /\ call[c].op = "updateInbox" /\ inbox.version \in Nat /\ Len(inbox.holders) \in Nat
    BY <2>1, Fields DEF ContainersInv, Shapes, Inboxes
  <2>3. /\ Len(call[c].read.holders) \in Nat /\ call[c].read.key \in 1 .. Len(inbox.holders)
    BY <2>1, <2>2 DEF ContainersInv, KeyKnown, Inboxes
  <2>4. /\ Keys(c).key \in 1 .. Len(Keys(c).holders)
        /\ Len(Keys(c).holders) \in {Len(inbox.holders), Len(inbox.holders) + 1}
    <3> DEFINE k == Keys(c)
               n == Len(inbox.holders)
    <3>1. \/ k.key = n + 1 /\ Len(k.holders) = n + 1
          \/ k.key = call[c].read.key /\ Len(k.holders) = n
      BY <2>2, KeysUpdated DEF Keys
    <3> QED BY <3>1, <2>2, <2>3
  <2>5. inbox'.version <= MaxVersion
    BY <2>1, <2>2, InboxAssumption DEF ContainersInv, KeyKnown
  <2>6. /\ inbox'.key <= Len(inbox'.holders) /\ (inbox'.state # "none" => inbox'.key >= 1)
        /\ Len(inbox.holders) <= Len(inbox'.holders) /\ Len(inbox'.holders) \in Nat
    BY <2>1, <2>2, <2>4 DEF ContainersInv, KeyKnown
  <2>7. ASSUME NEW d \in Clients, call'[d].op = "updateInbox"
        PROVE  /\ call'[d].read.key \in 1 .. Len(call'[d].read.holders)
               /\ Len(call'[d].read.holders) <= Len(inbox'.holders)
    <3>1. call[d].op = "updateInbox" /\ call'[d].read = call[d].read
      BY <2>1, <2>2, <2>7, Fields DEF Others
    <3>2. call[d].read \in Inboxes
      BY <3>1, Tells, Fields DEF ContainersInv, Shapes
    <3>3. Len(call[d].read.holders) \in Nat
      BY <3>2 DEF Inboxes
    <3> QED BY <3>1, <3>3, <2>2, <2>6 DEF ContainersInv, KeyKnown
  <2> QED BY <2>5, <2>6, <2>7 DEF KeyKnown
<1>7. ASSUME NEW c \in Clients, GetStoreEx(c)
      PROVE  KeyKnown'
  <2>1. Seen(c, "getStore", store, "updateStore") /\ store.version \in Nat
    BY <1>7 DEF GetStoreEx, ContainersInv, Shapes, Stores
  <2>2. /\ Kept /\ Stays /\ Marks /\ call[c] \in Updates /\ At(c, "getStore")
        /\ \/ Goes(c, Idle) /\ ~Live(store)
           \/ /\ Goes(c, call'[c]) /\ call'[c] \in Updates /\ Live(store)
              /\ call'[c].step = "updateStore" /\ call'[c].seen = store.version
              /\ call'[c].users = call[c].users /\ call'[c].read = call[c].read
    BY <2>1, DoesSeen DEF ContainersInv, UpdateSteps
  <2> QED
    BY <2>2, Tells, Fields DEF Goes, Others, Kept, Stays, Marks, ContainersInv,
       KeyKnown
<1>8. ASSUME NEW c \in Clients, UpdateStore(c)
      PROVE  KeyKnown'
  BY <1>8, DoesUpdateStore, Fields, Tells DEF Answered, Goes, Others, Kept, Live,
     ContainersInv, KeyKnown, Accepted, Making, At
<1>9. ASSUME NEW c \in Clients, GetThreadEx(c)
      PROVE  KeyKnown'
  <2>1. Seen(c, "getThread", thread, "updateThread") /\ thread.version \in Nat
    BY <1>9 DEF GetThreadEx, ContainersInv, Shapes, Threads
  <2>2. /\ Kept /\ Stays /\ Marks /\ call[c] \in Updates /\ At(c, "getThread")
        /\ \/ Goes(c, Idle) /\ ~Live(thread)
           \/ /\ Goes(c, call'[c]) /\ call'[c] \in Updates /\ Live(thread)
              /\ call'[c].step = "updateThread" /\ call'[c].seen = thread.version
              /\ call'[c].users = call[c].users /\ call'[c].read = call[c].read
    BY <2>1, DoesSeen DEF ContainersInv, UpdateSteps
  <2> QED
    BY <2>2, Tells, Fields DEF Goes, Others, Kept, Stays, Marks, ContainersInv,
       KeyKnown
<1>10. ASSUME NEW c \in Clients, UpdateThread(c)
      PROVE  KeyKnown'
  BY <1>10, DoesUpdateThread, Fields, Tells DEF Answered, Goes, Others, Kept, Live,
     ContainersInv, KeyKnown, Accepted, Making, At
<1>11. ASSUME NEW c \in Clients, DeleteInbox(c)
      PROVE  KeyKnown'
  BY <1>11, DoesDeleteInbox, Fields, Tells DEF Answered, Goes, Others, Kept, Live,
     ContainersInv, KeyKnown, Accepted, Making, At
<1>12. ASSUME NEW c \in Clients, InboxDelete(c)
      PROVE  KeyKnown'
  BY <1>12, DoesInboxDelete, Fields, Tells DEF Answered, Goes, Others, Kept, Live,
     ContainersInv, KeyKnown, Accepted, Making, At
<1>13. ASSUME NEW c \in Clients, DeleteStore(c)
      PROVE  KeyKnown'
  BY <1>13, DoesDeleteStore, Fields, Tells DEF Answered, Goes, Others, Kept, Live,
     ContainersInv, KeyKnown, Accepted, Making, At
<1>14. ASSUME NEW c \in Clients, DeleteThread(c)
      PROVE  KeyKnown'
  BY <1>14, DoesDeleteThread, Fields, Tells DEF Answered, Goes, Others, Kept, Live,
     ContainersInv, KeyKnown, Accepted, Making, At
<1>15. ASSUME NEW c \in Clients, NEW e \in Entries, SendEntry(c, e)
      PROVE  KeyKnown'
  BY <1>15, DoesSendEntry, Fields, Tells DEF Answered, Goes, Others, Kept, Live,
     ContainersInv, KeyKnown, Accepted, Making, At
<1>16. ASSUME NEW c \in Clients, NEW e \in Entries, DeleteEntry(c, e)
      PROVE  KeyKnown'
  BY <1>16, DoesDeleteEntry, Fields, Tells DEF Answered, Goes, Others, Kept, Live,
     ContainersInv, KeyKnown, Accepted, Making, At
<1>17. ASSUME NEW c \in Clients, InboxSend(c)
      PROVE  KeyKnown'
  BY <1>17, DoesInboxSend, Fields, Tells DEF Answered, Goes, Others, Kept, Live,
     ContainersInv, KeyKnown, Accepted, Making, At
<1>18. ASSUME NEW c \in Clients, DeleteFile(c)
      PROVE  KeyKnown'
  <2>1. /\ inbox' = inbox /\ thread' = thread /\ store'.state = store.state
        /\ store'.members = store.members /\ store'.version = store.version /\ Marks
        /\ call[c] \in Removes /\ call' \in [Clients -> Calls] /\ Others(c)
        /\ call'[c] = Idle \/ call'[c] \in Removes
        /\ Stays \/ Lost
    BY <1>18, DoesDeleteFile DEF ContainersInv, Answered, Goes, Kept
  <2> QED BY <2>1, Tells, Fields DEF Others, Stays, Lost, Marks, ContainersInv, KeyKnown
<1>19. ASSUME NEW c \in Clients, DeleteMessage(c)
      PROVE  KeyKnown'
  BY <1>19, DoesDeleteMessage, Fields, Tells DEF Answered, Goes, Others, Kept, Live,
     ContainersInv, KeyKnown, Accepted, Making, At
<1> QED
  BY <1>0, <1>1, <1>2, <1>3, <1>4, <1>5, <1>6, <1>7, <1>8, <1>9, <1>10, <1>11, <1>12,
     <1>13, <1>14, <1>15, <1>16, <1>17, <1>18, <1>19 DEF Next

(* ContainersInv is inductive.                                             *)
LEMMA ContainersKept ==
  ASSUME ContainersInv, [Next]_vars
  PROVE  ContainersInv'
  BY ShapesKept, OrderKept, MakingKept, UnmakingKept, KeyKnownKept DEF ContainersInv

(* ContainersInv holds at the start.                                       *)
LEMMA ContainersInit ==
  ASSUME Init
  PROVE  ContainersInv
<1>1. Shapes
  BY InboxAssumption, Fields DEF Init, Shapes, Inboxes, Stores, Threads, States,
     Messages
<1>2. Order /\ Making /\ Unmaking
  BY DEF Init, Order, Making, Unmaking, At, Idle, Messages, Live
<1>3. KeyKnown
  BY InboxAssumption DEF Init, KeyKnown, Idle
<1> QED BY <1>1, <1>2, <1>3 DEF ContainersInv

(* ContainersInv is an invariant.                                          *)
THEOREM ContainersAlways == Spec => []ContainersInv
  BY ContainersInit, ContainersKept, PTL DEF Spec

(* Types, and: an Inbox that exists has its Store and its Thread at every  *)
(* point of createInbox and deleteInbox, whatever is lost and however many *)
(* clients create, update and delete at the same time.                     *)
THEOREM InboxInvAlways == Spec => []InboxInv
<1>1. ContainersInv => InboxInv
  BY DEF ContainersInv, Shapes, Order, KeyKnown, InboxInv, TypeOK, InboxIsWhole,
     Inboxes, Stores, Threads, States, Live, Messages
<1> QED BY <1>1, ContainersAlways, PTL

-----------------------------------------------------------------------------
(* Half made and half deleted Inboxes.                                     *)

(* A step that neither creates nor deletes leaves half made and half       *)
(* deleted Inboxes to the call that has them.                              *)
LEMMA InHandFrame ==
  ASSUME ContainersInv, InHand, NEW c \in Clients, Others(c), Stays \/ Lost,
         inbox'.state = inbox.state, store'.state = store.state, thread'.state = thread.state,
         call[c].op # "createInbox", ~At(c, "deleteStore"), ~At(c, "deleteThread")
  PROVE  InHand'
<1>1. faults \in Nat
  BY InboxAssumption DEF ContainersInv, Shapes
<1>2. faults' = 0 => faults = 0
  BY <1>1 DEF Stays, Lost
<1> QED BY <1>2 DEF InHand, Others, At

(* Every step keeps InHand: the call that takes a container out of step    *)
(* with the Inbox goes on to the next one, since no answer is lost and     *)
(* nobody else can have deleted it.                                        *)
LEMMA InHandKept ==
  ASSUME ContainersInv, InHand, [Next]_vars
  PROVE  InHand'
<1>0. CASE UNCHANGED vars
  BY <1>0 DEF vars, InHand, At
<1>1. ASSUME NEW c \in Clients, NEW users \in SUBSET Users, CreateInbox(c, users)
      PROVE  InHand'
  BY <1>1, DoesCreateInbox, Fields, Tells, InboxAssumption DEF Answered, Goes, Others,
     Kept, Live, ContainersInv, InHand, Order, Making, Unmaking, Stays, Lost,
     Accepted, At, MayUpdate, Shapes, CreateSteps, UpdateSteps, DeleteSteps, States,
     Stores, Threads, Inboxes
<1>2. ASSUME NEW c \in Clients, CreateStoreEx(c)
      PROVE  InHand'
  BY <1>2, DoesCreateStoreEx, Fields, Tells, InboxAssumption DEF Answered, Goes,
     Others, Kept, Live, ContainersInv, InHand, Order, Making, Unmaking, Stays, Lost,
     Accepted, At, MayUpdate, Shapes, CreateSteps, UpdateSteps, DeleteSteps, States,
     Stores, Threads, Inboxes
<1>3. ASSUME NEW c \in Clients, CreateThreadEx(c)
      PROVE  InHand'
  BY <1>3, DoesCreateThreadEx, Fields, Tells, InboxAssumption DEF Answered, Goes,
     Others, Kept, Live, ContainersInv, InHand, Order, Making, Unmaking, Stays, Lost,
     Accepted, At, MayUpdate, Shapes, CreateSteps, UpdateSteps, DeleteSteps, States,
     Stores, Threads, Inboxes
<1>4. ASSUME NEW c \in Clients, InboxCreate(c)
      PROVE  InHand'
  BY <1>4, DoesInboxCreate, Fields, Tells, InboxAssumption DEF Answered, Goes, Others,
     Kept, Live, ContainersInv, InHand, Order, Making, Unmaking, Stays, Lost,
     Accepted, At, MayUpdate, Shapes, CreateSteps, UpdateSteps, DeleteSteps, States,
     Stores, Threads, Inboxes
<1>5. ASSUME NEW c \in Clients, NEW users \in SUBSET Users,
             NEW version \in 1 .. MaxVersion, NEW force \in BOOLEAN, UpdateInbox(c, users, version, force)
      PROVE  InHand'
  <2>1. /\ Others(c) /\ (Stays \/ Lost)
        /\ inbox'.state = inbox.state /\ store'.state = store.state
        /\ thread'.state = thread.state
    BY <1>5, DoesUpdateInbox DEF ContainersInv, Answered, Goes, Kept, Accepted, Live
  <2>2. call[c].op # "createInbox" /\ ~At(c, "deleteStore") /\ ~At(c, "deleteThread")
    BY <1>5, DoesUpdateInbox, Fields, Tells DEF ContainersInv, Shapes, CreateSteps,
       UpdateSteps, DeleteSteps, At
  <2> QED BY <2>1, <2>2, InHandFrame
<1>6. ASSUME NEW c \in Clients, InboxUpdate(c)
      PROVE  InHand'
  <2>1. /\ Others(c) /\ (Stays \/ Lost)
        /\ inbox'.state = inbox.state /\ store'.state = store.state
        /\ thread'.state = thread.state
    BY <1>6, DoesInboxUpdate DEF ContainersInv, Answered, Goes, Kept, Accepted, Live
  <2>2. call[c].op # "createInbox" /\ ~At(c, "deleteStore") /\ ~At(c, "deleteThread")
    BY <1>6, DoesInboxUpdate, Fields, Tells DEF ContainersInv, Shapes, CreateSteps,
       UpdateSteps, DeleteSteps, At
  <2> QED BY <2>1, <2>2, InHandFrame
<1>7. ASSUME NEW c \in Clients, GetStoreEx(c)
      PROVE  InHand'
  <2>1. Seen(c, "getStore", store, "updateStore") /\ store.version \in Nat
    BY <1>7 DEF GetStoreEx, ContainersInv, Shapes, Stores
  <2>2. /\ Kept /\ Stays /\ Marks /\ call[c] \in Updates /\ At(c, "getStore")
        /\ \/ Goes(c, Idle) /\ ~Live(store)
           \/ /\ Goes(c, call'[c]) /\ call'[c] \in Updates /\ Live(store)
              /\ call'[c].step = "updateStore" /\ call'[c].seen = store.version
              /\ call'[c].users = call[c].users /\ call'[c].read = call[c].read
    BY <2>1, DoesSeen DEF ContainersInv, UpdateSteps
  <2> QED
    BY <2>2, Tells, Fields DEF Goes, Others, Kept, Stays, Marks, ContainersInv,
       InHand, At, Live, Shapes, CreateSteps, UpdateSteps, DeleteSteps
<1>8. ASSUME NEW c \in Clients, UpdateStore(c)
      PROVE  InHand'
  <2>1. /\ Others(c) /\ (Stays \/ Lost)
        /\ inbox'.state = inbox.state /\ store'.state = store.state
        /\ thread'.state = thread.state
    BY <1>8, DoesUpdateStore DEF ContainersInv, Answered, Goes, Kept, Accepted, Live
  <2>2. call[c].op # "createInbox" /\ ~At(c, "deleteStore") /\ ~At(c, "deleteThread")
    BY <1>8, DoesUpdateStore, Fields, Tells DEF ContainersInv, Shapes, CreateSteps,
       UpdateSteps, DeleteSteps, At
  <2> QED BY <2>1, <2>2, InHandFrame
<1>9. ASSUME NEW c \in Clients, GetThreadEx(c)
      PROVE  InHand'
  <2>1. Seen(c, "getThread", thread, "updateThread") /\ thread.version \in Nat
    BY <1>9 DEF GetThreadEx, ContainersInv, Shapes, Threads
  <2>2. /\ Kept /\ Stays /\ Marks /\ call[c] \in Updates /\ At(c, "getThread")
        /\ \/ Goes(c, Idle) /\ ~Live(thread)
           \/ /\ Goes(c, call'[c]) /\ call'[c] \in Updates /\ Live(thread)
              /\ call'[c].step = "updateThread" /\ call'[c].seen = thread.version
              /\ call'[c].users = call[c].users /\ call'[c].read = call[c].read
    BY <2>1, DoesSeen DEF ContainersInv, UpdateSteps
  <2> QED
    BY <2>2, Tells, Fields DEF Goes, Others, Kept, Stays, Marks, ContainersInv,
       InHand, At, Live, Shapes, CreateSteps, UpdateSteps, DeleteSteps
<1>10. ASSUME NEW c \in Clients, UpdateThread(c)
      PROVE  InHand'
  <2>1. /\ Others(c) /\ (Stays \/ Lost)
        /\ inbox'.state = inbox.state /\ store'.state = store.state
        /\ thread'.state = thread.state
    BY <1>10, DoesUpdateThread DEF ContainersInv, Answered, Goes, Kept, Accepted, Live
  <2>2. call[c].op # "createInbox" /\ ~At(c, "deleteStore") /\ ~At(c, "deleteThread")
    BY <1>10, DoesUpdateThread, Fields, Tells DEF ContainersInv, Shapes, CreateSteps,
       UpdateSteps, DeleteSteps, At
  <2> QED BY <2>1, <2>2, InHandFrame
<1>11. ASSUME NEW c \in Clients, DeleteInbox(c)
      PROVE  InHand'
  <2>1. /\ Others(c) /\ (Stays \/ Lost)
        /\ inbox'.state = inbox.state /\ store'.state = store.state
        /\ thread'.state = thread.state
    BY <1>11, DoesDeleteInbox DEF ContainersInv, Answered, Goes, Kept, Accepted, Live
  <2>2. call[c].op # "createInbox" /\ ~At(c, "deleteStore") /\ ~At(c, "deleteThread")
    BY <1>11, DoesDeleteInbox, Fields, Tells DEF ContainersInv, Shapes, CreateSteps,
       UpdateSteps, DeleteSteps, At
  <2> QED BY <2>1, <2>2, InHandFrame
<1>12. ASSUME NEW c \in Clients, InboxDelete(c)
      PROVE  InHand'
  BY <1>12, DoesInboxDelete, Fields, Tells, InboxAssumption DEF Answered, Goes,
     Others, Kept, Live, ContainersInv, InHand, Order, Making, Unmaking, Stays, Lost,
     Accepted, At, MayUpdate, Shapes, CreateSteps, UpdateSteps, DeleteSteps, States,
     Stores, Threads, Inboxes
<1>13. ASSUME NEW c \in Clients, DeleteStore(c)
      PROVE  InHand'
  BY <1>13, DoesDeleteStore, Fields, Tells, InboxAssumption DEF Answered, Goes,
     Others, Kept, Live, ContainersInv, InHand, Order, Making, Unmaking, Stays, Lost,
     Accepted, At, MayUpdate, Shapes, CreateSteps, UpdateSteps, DeleteSteps, States,
     Stores, Threads, Inboxes
<1>14. ASSUME NEW c \in Clients, DeleteThread(c)
      PROVE  InHand'
  BY <1>14, DoesDeleteThread, Fields, Tells, InboxAssumption DEF Answered, Goes,
     Others, Kept, Live, ContainersInv, InHand, Order, Making, Unmaking, Stays, Lost,
     Accepted, At, MayUpdate, Shapes, CreateSteps, UpdateSteps, DeleteSteps, States,
     Stores, Threads, Inboxes
<1>15. ASSUME NEW c \in Clients, NEW e \in Entries, SendEntry(c, e)
      PROVE  InHand'
  <2>1. /\ Others(c) /\ (Stays \/ Lost)
        /\ inbox'.state = inbox.state /\ store'.state = store.state
        /\ thread'.state = thread.state
    BY <1>15, DoesSendEntry DEF ContainersInv, Answered, Goes, Kept, Accepted, Live
  <2>2. call[c].op # "createInbox" /\ ~At(c, "deleteStore") /\ ~At(c, "deleteThread")
    BY <1>15, DoesSendEntry, Fields, Tells DEF ContainersInv, Shapes, CreateSteps,
       UpdateSteps, DeleteSteps, At
  <2> QED BY <2>1, <2>2, InHandFrame
<1>16. ASSUME NEW c \in Clients, NEW e \in Entries, DeleteEntry(c, e)
      PROVE  InHand'
  <2>1. /\ Others(c) /\ (Stays \/ Lost)
        /\ inbox'.state = inbox.state /\ store'.state = store.state
        /\ thread'.state = thread.state
    BY <1>16, DoesDeleteEntry DEF ContainersInv, Answered, Goes, Kept, Accepted, Live
  <2>2. call[c].op # "createInbox" /\ ~At(c, "deleteStore") /\ ~At(c, "deleteThread")
    BY <1>16, DoesDeleteEntry, Fields, Tells DEF ContainersInv, Shapes, CreateSteps,
       UpdateSteps, DeleteSteps, At
  <2> QED BY <2>1, <2>2, InHandFrame
<1>17. ASSUME NEW c \in Clients, InboxSend(c)
      PROVE  InHand'
  <2>1. /\ Others(c) /\ (Stays \/ Lost)
        /\ inbox'.state = inbox.state /\ store'.state = store.state
        /\ thread'.state = thread.state
    BY <1>17, DoesInboxSend DEF ContainersInv, Answered, Goes, Kept, Accepted, Live
  <2>2. call[c].op # "createInbox" /\ ~At(c, "deleteStore") /\ ~At(c, "deleteThread")
    BY <1>17, DoesInboxSend, Fields, Tells DEF ContainersInv, Shapes, CreateSteps,
       UpdateSteps, DeleteSteps, At
  <2> QED BY <2>1, <2>2, InHandFrame
<1>18. ASSUME NEW c \in Clients, DeleteFile(c)
      PROVE  InHand'
  <2>1. /\ inbox' = inbox /\ thread' = thread /\ store'.state = store.state
        /\ store'.members = store.members /\ store'.version = store.version /\ Marks
        /\ call[c] \in Removes /\ call' \in [Clients -> Calls] /\ Others(c)
        /\ call'[c] = Idle \/ call'[c] \in Removes
        /\ Stays \/ Lost
    BY <1>18, DoesDeleteFile DEF ContainersInv, Answered, Goes, Kept
  <2> QED
    BY <2>1, Tells, Fields, InboxAssumption DEF Others, Stays, Lost, Marks,
       ContainersInv, InHand, At, Live, Shapes, CreateSteps, UpdateSteps,
       DeleteSteps
<1>19. ASSUME NEW c \in Clients, DeleteMessage(c)
      PROVE  InHand'
  <2>1. /\ Others(c) /\ (Stays \/ Lost)
        /\ inbox'.state = inbox.state /\ store'.state = store.state
        /\ thread'.state = thread.state
    BY <1>19, DoesDeleteMessage DEF ContainersInv, Answered, Goes, Kept, Accepted, Live
  <2>2. call[c].op # "createInbox" /\ ~At(c, "deleteStore") /\ ~At(c, "deleteThread")
    BY <1>19, DoesDeleteMessage, Fields, Tells DEF ContainersInv, Shapes, CreateSteps,
       UpdateSteps, DeleteSteps, At
  <2> QED BY <2>1, <2>2, InHandFrame
<1> QED
  BY <1>0, <1>1, <1>2, <1>3, <1>4, <1>5, <1>6, <1>7, <1>8, <1>9, <1>10, <1>11, <1>12,
     <1>13, <1>14, <1>15, <1>16, <1>17, <1>18, <1>19 DEF Next

(* Without a loss no Store and no Thread is left without its Inbox,        *)
(* however the calls of deleteInbox and updateInbox overlap.               *)
THEOREM NoOrphansAlways == Spec => []NoOrphans
<1>1. Init => InHand
  BY DEF Init, InHand
<1>2. ContainersInv /\ InHand => NoOrphans
  BY DEF ContainersInv, InHand, NoOrphans, Quiet, Idle, At, Order, Shapes, States,
     Stores, Threads, Inboxes
<1> QED BY <1>1, <1>2, ContainersAlways, InHandKept, PTL DEF Spec

-----------------------------------------------------------------------------
(* Members.                                                                *)

(* A step of a call other than updateInbox leaves the members as far as    *)
(* they are.                                                               *)
LEMMA InStepFrame ==
  ASSUME ContainersInv, InStep, NEW c \in Clients, Others(c), Stays \/ Lost, mixed' = mixed,
         inbox'.members = inbox.members, store'.members = store.members,
         thread'.members = thread.members, store'.version = store.version,
         thread'.version = thread.version, Live(inbox)' => Live(inbox),
         c \notin Updating, call'[c].op # "updateInbox"
  PROVE  InStep'
<1>1. faults \in Nat
  BY InboxAssumption DEF ContainersInv, Shapes
<1>2. faults' = 0 => faults = 0
  BY <1>1 DEF Stays, Lost
<1>3. \A d \in Clients : d \in Updating' <=> d \in Updating
  BY DEF Updating, Others
<1>4. \A d \in Updating : call'[d] = call[d]
  BY DEF Updating, Others
<1>5. Updating' = Updating
  BY <1>3 DEF Updating
<1>6. Agreed' <=> Agreed
  BY DEF Agreed
<1> QED BY <1>2, <1>4, <1>5, <1>6 DEF InStep, At

(* While mixed is not set, the call of updateInbox that takes a step is    *)
(* the only one, and all containers exist.                                 *)
LEMMA InStepAlone ==
  ASSUME ContainersInv, InStep, NEW c \in Updating, Others(c), Stays \/ Lost, mixed' = mixed,
         inbox' = inbox, Live(inbox)', faults' = 0, ~mixed'
  PROVE  /\ Live(inbox) /\ Live(store) /\ Live(thread) /\ faults = 0 /\ ~mixed /\ Stays
         /\ \A d \in Updating' : d = c
<1>1. faults \in Nat
  BY InboxAssumption DEF ContainersInv, Shapes
<1>2. faults = 0 /\ Stays
  BY <1>1 DEF Stays, Lost
<1>3. Live(inbox) /\ Live(store) /\ Live(thread)
  BY DEF ContainersInv, Order, Live, Shapes, Inboxes, Stores, Threads, States
<1>4. ASSUME NEW d \in Updating', d # c PROVE FALSE
  <2>1. d \in Updating
    BY <1>4 DEF Updating, Others
  <2> QED BY <2>1, <1>2, <1>3, <1>4 DEF InStep
<1> QED BY <1>2, <1>3, <1>4

(* Every step keeps InStep: the one updateInbox sees the version that is   *)
(* there, so that no update of its Store or Thread is refused.             *)
LEMMA InStepKept ==
  ASSUME ContainersInv, InStep, [Next]_vars
  PROVE  InStep'
<1>0. CASE UNCHANGED vars
  BY <1>0 DEF vars, InStep, Agreed, Updating, At
<1>1. ASSUME NEW c \in Clients, NEW users \in SUBSET Users, CreateInbox(c, users)
      PROVE  InStep'
  <2>1. /\ Others(c) /\ (Stays \/ Lost) /\ mixed' = mixed
        /\ inbox'.members = inbox.members /\ store'.members = store.members
        /\ thread'.members = thread.members /\ store'.version = store.version
        /\ thread'.version = thread.version /\ (Live(inbox)' => Live(inbox))
    BY <1>1, DoesCreateInbox DEF ContainersInv, Answered, Goes, Kept, Live, Marks
  <2>2. c \notin Updating
    BY <1>1, DoesCreateInbox, Fields, Tells DEF ContainersInv, At, Updating
  <2>3. call'[c].op # "updateInbox"
    BY <1>1, DoesCreateInbox, Fields, Tells DEF ContainersInv, Answered, Goes
  <2> QED BY <2>1, <2>2, <2>3, InStepFrame
<1>2. ASSUME NEW c \in Clients, CreateStoreEx(c)
      PROVE  InStep'
  <2>1. ~Live(inbox)'
    BY <1>2, DoesCreateStoreEx, Tells, Fields DEF Answered, Goes, Kept, ContainersInv,
       Shapes, Making, At, Live, CreateSteps
  <2> QED BY <2>1 DEF InStep, Live
<1>3. ASSUME NEW c \in Clients, CreateThreadEx(c)
      PROVE  InStep'
  <2>1. ~Live(inbox)'
    BY <1>3, DoesCreateThreadEx, Tells, Fields DEF Answered, Goes, Kept,
       ContainersInv, Shapes, Making, At, Live, CreateSteps
  <2> QED BY <2>1 DEF InStep, Live
<1>4. ASSUME NEW c \in Clients, InboxCreate(c)
      PROVE  InStep'
  <2>1. Updating' = {}
    BY <1>4, DoesInboxCreate, Fields, Tells DEF Answered, Goes, Others, ContainersInv,
       Making, Shapes, Updating, At, CreateSteps
  <2>2. \/ ~Live(inbox)'
        \/ Agreed'
    BY <1>4, DoesInboxCreate, Fields, Tells DEF Answered, Kept, ContainersInv, Making,
       Agreed, Live, Shapes, At, CreateSteps
  <2> QED BY <2>1, <2>2 DEF InStep
<1>5. ASSUME NEW c \in Clients, NEW users \in SUBSET Users,
             NEW version \in 1 .. MaxVersion, NEW force \in BOOLEAN, UpdateInbox(c, users, version, force)
      PROVE  InStep'
  <2>1. /\ inbox' = inbox /\ store' = store /\ thread' = thread /\ Stays /\ Others(c)
        /\ call'[c] \in Updates /\ At(c, "update")' /\ Live(inbox)
        /\ mixed' = (mixed \/ Updating # {})
    BY <1>5, DoesUpdateInbox DEF ContainersInv, Goes, Kept, At
  <2> SUFFICES ASSUME faults' = 0, ~mixed' PROVE InStep'
    BY DEF InStep
  <2>2. Updating = {} /\ Agreed
    BY <2>1 DEF InStep, Stays
  <2>3. \A d \in Updating' : d = c
    BY <2>1, <2>2 DEF Updating, Others
  <2>4. c \in Updating' /\ Agreed'
    BY <2>1, <2>2, Fields DEF Updating, Agreed
  <2> QED BY <2>1, <2>3, <2>4 DEF InStep, At
<1>6. ASSUME NEW c \in Clients, InboxUpdate(c)
      PROVE  InStep'
  BY <1>6, DoesInboxUpdate, Fields, Tells, InboxAssumption DEF Answered, Goes, Others,
     Kept, Live, ContainersInv, InStep, Agreed, Updating, Order, Stays, Lost, Marks,
     Accepted, At, MayUpdate, Shapes, CreateSteps, UpdateSteps, DeleteSteps
<1>7. ASSUME NEW c \in Clients, GetStoreEx(c)
      PROVE  InStep'
  <2>1. Seen(c, "getStore", store, "updateStore") /\ store.version \in Nat
    BY <1>7 DEF GetStoreEx, ContainersInv, Shapes, Stores
  <2>2. /\ Kept /\ Stays /\ Marks /\ call[c] \in Updates /\ At(c, "getStore") /\ Others(c)
        /\ \/ ~Live(store)
           \/ /\ call'[c] \in Updates /\ call'[c].step = "updateStore"
              /\ call'[c].seen = store.version /\ call'[c].users = call[c].users
    BY <2>1, DoesSeen DEF ContainersInv, UpdateSteps, Goes
  <2> SUFFICES ASSUME Live(inbox)', faults' = 0, ~mixed' PROVE InStep'
    BY DEF InStep
  <2>3. c \in Updating
    BY <2>2, Fields DEF Updating
  <2>4. /\ Live(inbox) /\ Live(store) /\ faults = 0 /\ ~mixed
        /\ \A d \in Updating' : d = c
    BY <2>2, <2>3, InStepAlone DEF Kept, Marks
  <2>5. c \in Updating'
    BY <2>2, <2>4, Fields DEF Updating
  <2>6. inbox.members = call[c].users /\ store.members = thread.members
    BY <2>2, <2>3, <2>4 DEF InStep
  <2> QED BY <2>2, <2>4, <2>5, <2>6 DEF InStep, At, Kept
<1>8. ASSUME NEW c \in Clients, UpdateStore(c)
      PROVE  InStep'
  <2>1. /\ inbox' = inbox /\ thread' = thread /\ (Stays \/ Lost) /\ Marks /\ Others(c)
        /\ call[c] \in Updates /\ At(c, "updateStore")
        /\ Stays /\ MayUpdate(c, store) =>
             /\ call'[c] \in Updates /\ call'[c].step = "getThread"
             /\ call'[c].users = call[c].users /\ store'.members = call[c].users
    BY <1>8, DoesUpdateStore, InboxAssumption DEF ContainersInv, Shapes, Answered,
       Goes, Kept, Stays, Lost
  <2> SUFFICES ASSUME Live(inbox)', faults' = 0, ~mixed' PROVE InStep'
    BY DEF InStep
  <2>2. c \in Updating
    BY <2>1, Fields DEF Updating
  <2>3. /\ Live(inbox) /\ Live(store) /\ faults = 0 /\ ~mixed /\ Stays
        /\ \A d \in Updating' : d = c
    BY <2>1, <2>2, InStepAlone DEF Marks
  <2>4. inbox.members = call[c].users /\ MayUpdate(c, store)
    BY <2>1, <2>2, <2>3 DEF InStep, MayUpdate
  <2>5. c \in Updating'
    BY <2>1, <2>3, <2>4, Fields DEF Updating
  <2> QED BY <2>1, <2>3, <2>4, <2>5 DEF InStep, At
<1>9. ASSUME NEW c \in Clients, GetThreadEx(c)
      PROVE  InStep'
  <2>1. Seen(c, "getThread", thread, "updateThread") /\ thread.version \in Nat
    BY <1>9 DEF GetThreadEx, ContainersInv, Shapes, Threads
  <2>2. /\ Kept /\ Stays /\ Marks /\ call[c] \in Updates /\ At(c, "getThread") /\ Others(c)
        /\ \/ ~Live(thread)
           \/ /\ call'[c] \in Updates /\ call'[c].step = "updateThread"
              /\ call'[c].seen = thread.version /\ call'[c].users = call[c].users
    BY <2>1, DoesSeen DEF ContainersInv, UpdateSteps, Goes
  <2> SUFFICES ASSUME Live(inbox)', faults' = 0, ~mixed' PROVE InStep'
    BY DEF InStep
  <2>3. c \in Updating
    BY <2>2, Fields DEF Updating
  <2>4. /\ Live(inbox) /\ Live(thread) /\ faults = 0 /\ ~mixed
        /\ \A d \in Updating' : d = c
    BY <2>2, <2>3, InStepAlone DEF Kept, Marks
  <2>5. c \in Updating'
    BY <2>2, <2>4, Fields DEF Updating
  <2>6. inbox.members = call[c].users /\ store.members = call[c].users
    BY <2>2, <2>3, <2>4 DEF InStep
  <2> QED BY <2>2, <2>4, <2>5, <2>6 DEF InStep, At, Kept
<1>10. ASSUME NEW c \in Clients, UpdateThread(c)
      PROVE  InStep'
  <2>1. /\ inbox' = inbox /\ store' = store /\ (Stays \/ Lost) /\ Marks /\ Others(c)
        /\ call[c] \in Updates /\ At(c, "updateThread") /\ call'[c] = Idle
        /\ Stays /\ MayUpdate(c, thread) => thread'.members = call[c].users
    BY <1>10, DoesUpdateThread, InboxAssumption DEF ContainersInv, Shapes, Answered,
       Goes, Kept, Stays, Lost
  <2> SUFFICES ASSUME Live(inbox)', faults' = 0, ~mixed' PROVE InStep'
    BY DEF InStep
  <2>2. c \in Updating
    BY <2>1, Fields DEF Updating
  <2>3. /\ Live(inbox) /\ Live(thread) /\ faults = 0 /\ ~mixed /\ Stays
        /\ \A d \in Updating' : d = c
    BY <2>1, <2>2, InStepAlone DEF Marks
  <2>4. /\ inbox.members = call[c].users /\ store.members = call[c].users
        /\ MayUpdate(c, thread)
    BY <2>1, <2>2, <2>3 DEF InStep, MayUpdate
  <2>5. Updating' = {}
    BY <2>1, <2>3, Fields DEF Updating
  <2> QED BY <2>1, <2>3, <2>4, <2>5 DEF InStep, Agreed
<1>11. ASSUME NEW c \in Clients, DeleteInbox(c)
      PROVE  InStep'
  <2>1. /\ Others(c) /\ (Stays \/ Lost) /\ mixed' = mixed
        /\ inbox'.members = inbox.members /\ store'.members = store.members
        /\ thread'.members = thread.members /\ store'.version = store.version
        /\ thread'.version = thread.version /\ (Live(inbox)' => Live(inbox))
    BY <1>11, DoesDeleteInbox DEF ContainersInv, Answered, Goes, Kept, Live, Marks
  <2>2. c \notin Updating
    BY <1>11, DoesDeleteInbox, Fields, Tells DEF ContainersInv, At, Updating
  <2>3. call'[c].op # "updateInbox"
    BY <1>11, DoesDeleteInbox, Fields, Tells DEF ContainersInv, Answered, Goes
  <2> QED BY <2>1, <2>2, <2>3, InStepFrame
<1>12. ASSUME NEW c \in Clients, InboxDelete(c)
      PROVE  InStep'
  <2>1. /\ Others(c) /\ (Stays \/ Lost) /\ mixed' = mixed
        /\ inbox'.members = inbox.members /\ store'.members = store.members
        /\ thread'.members = thread.members /\ store'.version = store.version
        /\ thread'.version = thread.version /\ (Live(inbox)' => Live(inbox))
    BY <1>12, DoesInboxDelete DEF ContainersInv, Answered, Goes, Kept, Live, Marks
  <2>2. c \notin Updating
    BY <1>12, DoesInboxDelete, Fields, Tells DEF ContainersInv, At, Updating
  <2>3. call'[c].op # "updateInbox"
    BY <1>12, DoesInboxDelete, Fields, Tells DEF ContainersInv, Answered, Goes
  <2> QED BY <2>1, <2>2, <2>3, InStepFrame
<1>13. ASSUME NEW c \in Clients, DeleteStore(c)
      PROVE  InStep'
  <2>1. ~Live(inbox)'
    BY <1>13, DoesDeleteStore, Tells, Fields DEF Answered, Goes, Kept, ContainersInv,
       Shapes, Unmaking, At, Live, CreateSteps
  <2> QED BY <2>1 DEF InStep, Live
<1>14. ASSUME NEW c \in Clients, DeleteThread(c)
      PROVE  InStep'
  <2>1. ~Live(inbox)'
    BY <1>14, DoesDeleteThread, Tells, Fields DEF Answered, Goes, Kept, ContainersInv,
       Shapes, Unmaking, At, Live, CreateSteps
  <2> QED BY <2>1 DEF InStep, Live
<1>15. ASSUME NEW c \in Clients, NEW e \in Entries, SendEntry(c, e)
      PROVE  InStep'
  <2>1. /\ Others(c) /\ (Stays \/ Lost) /\ mixed' = mixed
        /\ inbox'.members = inbox.members /\ store'.members = store.members
        /\ thread'.members = thread.members /\ store'.version = store.version
        /\ thread'.version = thread.version /\ (Live(inbox)' => Live(inbox))
    BY <1>15, DoesSendEntry DEF ContainersInv, Answered, Goes, Kept, Live, Marks
  <2>2. c \notin Updating
    BY <1>15, DoesSendEntry, Fields, Tells DEF ContainersInv, At, Updating
  <2>3. call'[c].op # "updateInbox"
    BY <1>15, DoesSendEntry, Fields, Tells DEF ContainersInv, Answered, Goes
  <2> QED BY <2>1, <2>2, <2>3, InStepFrame
<1>16. ASSUME NEW c \in Clients, NEW e \in Entries, DeleteEntry(c, e)
      PROVE  InStep'
  <2>1. /\ Others(c) /\ (Stays \/ Lost) /\ mixed' = mixed
        /\ inbox'.members = inbox.members /\ store'.members = store.members
        /\ thread'.members = thread.members /\ store'.version = store.version
        /\ thread'.version = thread.version /\ (Live(inbox)' => Live(inbox))
    BY <1>16, DoesDeleteEntry DEF ContainersInv, Answered, Goes, Kept, Live, Marks
  <2>2. c \notin Updating
    BY <1>16, DoesDeleteEntry, Fields, Tells DEF ContainersInv, At, Updating
  <2>3. call'[c].op # "updateInbox"
    BY <1>16, DoesDeleteEntry, Fields, Tells DEF ContainersInv, Answered, Goes
  <2> QED BY <2>1, <2>2, <2>3, InStepFrame
<1>17. ASSUME NEW c \in Clients, InboxSend(c)
      PROVE  InStep'
  <2>1. /\ Others(c) /\ (Stays \/ Lost) /\ mixed' = mixed
        /\ inbox'.members = inbox.members /\ store'.members = store.members
        /\ thread'.members = thread.members /\ store'.version = store.version
        /\ thread'.version = thread.version /\ (Live(inbox)' => Live(inbox))
    BY <1>17, DoesInboxSend DEF ContainersInv, Answered, Goes, Kept, Live, Marks
  <2>2. c \notin Updating
    BY <1>17, DoesInboxSend, Fields, Tells DEF ContainersInv, At, Updating
  <2>3. call'[c].op # "updateInbox"
    BY <1>17, DoesInboxSend, Fields, Tells DEF ContainersInv, Answered, Goes
  <2> QED BY <2>1, <2>2, <2>3, InStepFrame
<1>18. ASSUME NEW c \in Clients, DeleteFile(c)
      PROVE  InStep'
  <2>1. /\ Others(c) /\ (Stays \/ Lost) /\ mixed' = mixed
        /\ inbox'.members = inbox.members /\ store'.members = store.members
        /\ thread'.members = thread.members /\ store'.version = store.version
        /\ thread'.version = thread.version /\ (Live(inbox)' => Live(inbox))
    BY <1>18, DoesDeleteFile DEF ContainersInv, Answered, Goes, Kept, Live, Marks
  <2>2. c \notin Updating
    BY <1>18, DoesDeleteFile, Fields, Tells DEF ContainersInv, At, Updating
  <2>3. call'[c].op # "updateInbox"
    BY <1>18, DoesDeleteFile, Fields, Tells DEF ContainersInv, Answered, Goes
  <2> QED BY <2>1, <2>2, <2>3, InStepFrame
<1>19. ASSUME NEW c \in Clients, DeleteMessage(c)
      PROVE  InStep'
  <2>1. /\ Others(c) /\ (Stays \/ Lost) /\ mixed' = mixed
        /\ inbox'.members = inbox.members /\ store'.members = store.members
        /\ thread'.members = thread.members /\ store'.version = store.version
        /\ thread'.version = thread.version /\ (Live(inbox)' => Live(inbox))
    BY <1>19, DoesDeleteMessage DEF ContainersInv, Answered, Goes, Kept, Live, Marks
  <2>2. c \notin Updating
    BY <1>19, DoesDeleteMessage, Fields, Tells DEF ContainersInv, At, Updating
  <2>3. call'[c].op # "updateInbox"
    BY <1>19, DoesDeleteMessage, Fields, Tells DEF ContainersInv, Answered, Goes
  <2> QED BY <2>1, <2>2, <2>3, InStepFrame
<1> QED
  BY <1>0, <1>1, <1>2, <1>3, <1>4, <1>5, <1>6, <1>7, <1>8, <1>9, <1>10, <1>11, <1>12,
     <1>13, <1>14, <1>15, <1>16, <1>17, <1>18, <1>19 DEF Next

(* Without a loss, and when no two calls of updateInbox overlap, the       *)
(* Inbox, its Store and its Thread have the same members whenever no call  *)
(* is at work.                                                             *)
THEOREM MembersAgreeAlways == Spec => []MembersAgree
<1>1. Init => InStep
  BY DEF Init, InStep, Live
<1>2. ContainersInv /\ InStep => MembersAgree
  BY DEF InStep, MembersAgree, Agreed, Quiet, Idle, Updating
<1> QED BY <1>1, <1>2, ContainersAlways, InStepKept, PTL DEF Spec

-----------------------------------------------------------------------------
(* Keys of entries.                                                        *)

(* The keys of the Inbox are numbered from one.                            *)
LEMMA HoldersDomain ==
  ASSUME ContainersInv
  PROVE  Len(inbox.holders) \in Nat /\ DOMAIN inbox.holders = 1 .. Len(inbox.holders)
  BY DEF ContainersInv, Shapes, Inboxes

(* A step that leaves the Inbox alone, and starts no sendEntry and no      *)
(* updateInbox, keeps KeysHeld.                                            *)
LEMMA KeysHeldFrame ==
  ASSUME KeysHeld, NEW c \in Clients, Others(c), ~forced' => ~forced,
         inbox'.members = inbox.members, inbox'.holders = inbox.holders,
         inbox'.version = inbox.version,
         \A m \in Messages' : m \in Messages /\ thread'.messages[m] = thread.messages[m],
         call'[c].op # "sendEntry", ~At(c, "update")'
  PROVE  KeysHeld'
<1>1. ~forced' => \A k \in DOMAIN inbox'.holders : inbox'.members \subseteq inbox'.holders[k]
  BY DEF KeysHeld
<1>2. \A e \in Messages' : thread'.messages[e] \in DOMAIN inbox'.holders
  BY DEF KeysHeld
<1>3. \A d \in Clients : call'[d].op = "sendEntry" => call'[d].key \in DOMAIN inbox'.holders
  BY DEF KeysHeld, Others
<1>4. \A d \in Clients : call'[d].step = "update" =>
        /\ call'[d].read.version <= inbox'.version
        /\ call'[d].read.version = inbox'.version =>
             call'[d].read.members = inbox'.members /\ call'[d].read.holders = inbox'.holders
  BY DEF KeysHeld, Others, At
<1> QED BY <1>1, <1>2, <1>3, <1>4 DEF KeysHeld, At

(* Every step keeps KeysHeld. The one that matters is inboxUpdate: unless  *)
(* forced is set the call has read the version it replaces, so that the    *)
(* users it adds are exactly the ones without the keys and get them all.   *)
LEMMA KeysHeldKept ==
  ASSUME ContainersInv, ContainersInv', KeysHeld, [Next]_vars
  PROVE  KeysHeld'
<1>0. CASE UNCHANGED vars
  BY <1>0 DEF vars, KeysHeld, At, Messages
<1>1. ASSUME NEW c \in Clients, NEW users \in SUBSET Users, CreateInbox(c, users)
      PROVE  KeysHeld'
  <2>1. /\ Others(c) /\ (~forced' => ~forced) /\ inbox'.members = inbox.members
        /\ inbox'.holders = inbox.holders /\ inbox'.version = inbox.version
    BY <1>1, DoesCreateInbox DEF ContainersInv, Answered, Goes, Kept, Marks
  <2>2. \A m \in Messages' : m \in Messages /\ thread'.messages[m] = thread.messages[m]
    BY <1>1, DoesCreateInbox DEF ContainersInv, Answered, Kept, Messages
  <2>3. call'[c].op # "sendEntry" /\ ~At(c, "update")'
    BY <1>1, DoesCreateInbox, Fields, Tells DEF ContainersInv, Answered, Goes, At,
       Shapes, CreateSteps, UpdateSteps, DeleteSteps
  <2> QED BY <2>1, <2>2, <2>3, KeysHeldFrame
<1>2. ASSUME NEW c \in Clients, CreateStoreEx(c)
      PROVE  KeysHeld'
  <2>1. /\ Others(c) /\ (~forced' => ~forced) /\ inbox'.members = inbox.members
        /\ inbox'.holders = inbox.holders /\ inbox'.version = inbox.version
    BY <1>2, DoesCreateStoreEx DEF ContainersInv, Answered, Goes, Kept, Marks
  <2>2. \A m \in Messages' : m \in Messages /\ thread'.messages[m] = thread.messages[m]
    BY <1>2, DoesCreateStoreEx DEF ContainersInv, Answered, Kept, Messages
  <2>3. call'[c].op # "sendEntry" /\ ~At(c, "update")'
    BY <1>2, DoesCreateStoreEx, Fields, Tells DEF ContainersInv, Answered, Goes, At,
       Shapes, CreateSteps, UpdateSteps, DeleteSteps
  <2> QED BY <2>1, <2>2, <2>3, KeysHeldFrame
<1>3. ASSUME NEW c \in Clients, CreateThreadEx(c)
      PROVE  KeysHeld'
  <2>1. /\ Others(c) /\ (~forced' => ~forced) /\ inbox'.members = inbox.members
        /\ inbox'.holders = inbox.holders /\ inbox'.version = inbox.version
    BY <1>3, DoesCreateThreadEx DEF ContainersInv, Answered, Goes, Kept, Marks
  <2>2. \A m \in Messages' : m \in Messages /\ thread'.messages[m] = thread.messages[m]
    BY <1>3, DoesCreateThreadEx DEF ContainersInv, Answered, Kept, Messages
  <2>3. call'[c].op # "sendEntry" /\ ~At(c, "update")'
    BY <1>3, DoesCreateThreadEx, Fields, Tells DEF ContainersInv, Answered, Goes, At,
       Shapes, CreateSteps, UpdateSteps, DeleteSteps
  <2> QED BY <2>1, <2>2, <2>3, KeysHeldFrame
<1>4. ASSUME NEW c \in Clients, InboxCreate(c)
      PROVE  KeysHeld'
  <2>1. \A d \in Clients : call'[d] = Idle
    BY <1>4, DoesInboxCreate, Fields, Tells DEF Answered, Goes, Others, ContainersInv,
       Making, Shapes, At, CreateSteps
  <2>2. /\ forced' = forced /\ Messages' = {}
        /\ \/ inbox' = inbox
           \/ inbox'.members = call[c].users /\ inbox'.holders = <<call[c].users>>
    BY <1>4, DoesInboxCreate, Fields DEF ContainersInv, Answered, Kept, Marks,
       Messages, Making, Order
  <2>3. ~forced' => \A k \in DOMAIN inbox'.holders : inbox'.members \subseteq inbox'.holders[k]
    BY <2>2 DEF KeysHeld
  <2>4. \A d \in Clients : call'[d].op # "sendEntry" /\ call'[d].step # "update"
    BY <2>1, Fields
  <2> QED BY <2>2, <2>3, <2>4 DEF KeysHeld, At
<1>5. ASSUME NEW c \in Clients, NEW users \in SUBSET Users,
             NEW version \in 1 .. MaxVersion, NEW force \in BOOLEAN, UpdateInbox(c, users, version, force)
      PROVE  KeysHeld'
  <2>1. /\ Kept /\ Others(c) /\ forced' = forced /\ call'[c] \in Updates
        /\ call'[c].read = inbox
    BY <1>5, DoesUpdateInbox DEF ContainersInv, Goes
  <2>2. call'[c].op # "sendEntry" /\ inbox.version \in Nat
    BY <2>1, Fields DEF ContainersInv, Shapes, Inboxes
  <2>3. ~forced' => \A k \in DOMAIN inbox'.holders : inbox'.members \subseteq inbox'.holders[k]
    BY <2>1 DEF KeysHeld, Kept
  <2>4. \A e \in Messages' : thread'.messages[e] \in DOMAIN inbox'.holders
    BY <2>1 DEF KeysHeld, Kept, Messages
  <2>5. \A d \in Clients : call'[d].op = "sendEntry" => call'[d].key \in DOMAIN inbox'.holders
    BY <2>1, <2>2 DEF KeysHeld, Others, Kept
  <2>6. \A d \in Clients : call'[d].step = "update" =>
          /\ call'[d].read.version <= inbox'.version
          /\ call'[d].read.version = inbox'.version =>
               call'[d].read.members = inbox'.members /\ call'[d].read.holders = inbox'.holders
    BY <2>1, <2>2 DEF KeysHeld, Others, Kept, At
  <2> QED BY <2>3, <2>4, <2>5, <2>6 DEF KeysHeld, At
<1>6. ASSUME NEW c \in Clients, InboxUpdate(c)
      PROVE  KeysHeld'
  <2>1. /\ call[c] \in Updates /\ At(c, "update") /\ Others(c) /\ thread' = thread
        /\ call'[c] = Idle \/ (call'[c] \in Updates /\ call'[c].step = "getStore")
        /\ forced' = (forced \/ (Accepted(c) /\ call[c].read.version # inbox.version))
        /\ \/ inbox' = inbox
           \/ /\ Accepted(c) /\ inbox'.version = inbox.version + 1
              /\ inbox'.members = call[c].users /\ inbox'.holders = Keys(c).holders
    BY <1>6, DoesInboxUpdate DEF ContainersInv, Answered, Kept, Goes
  <2>2. call'[c].op # "sendEntry" /\ ~At(c, "update")' /\ call'[c].step # "update"
    BY <2>1, Fields DEF At
  <2>3. Messages' = Messages
    BY <2>1 DEF Messages
  <2>4. CASE inbox' = inbox
    BY <2>1, <2>2, <2>3, <2>4, KeysHeldFrame
  <2>6. CASE /\ Accepted(c) /\ inbox'.version = inbox.version + 1
             /\ inbox'.members = call[c].users /\ inbox'.holders = Keys(c).holders
    <3> DEFINE n == Len(inbox.holders)
               k == Keys(c)
    <3>1. /\ inbox \in Inboxes /\ call[c].read \in Inboxes /\ call[c].users \in SUBSET Users
          /\ inbox.version \in Nat /\ n \in Nat /\ DOMAIN inbox.holders = 1 .. n
      BY <2>1, Fields, HoldersDomain DEF ContainersInv, Shapes, Inboxes
    <3>2. DOMAIN inbox'.holders = 1 .. Len(inbox'.holders)
      BY DEF ContainersInv, Shapes, Inboxes
    <3>3. /\ \A i \in 1 .. n : k.holders[i] = inbox.holders[i] \cup
                    (IF i \in DOMAIN call[c].read.holders
                     THEN call[c].users \ call[c].read.members ELSE {})
          /\ \/ Len(k.holders) = n + 1 /\ k.holders[n + 1] = call[c].users
             \/ Len(k.holders) = n
      BY <3>1, KeysUpdated DEF Keys
    <3> HIDE DEF k
    <3>4. \A i \in DOMAIN inbox.holders : i \in DOMAIN inbox'.holders
      BY <3>1, <3>2, <3>3, <2>6 DEF k
    <3>5. ASSUME ~forced'
      PROVE \A i \in DOMAIN inbox'.holders : inbox'.members \subseteq inbox'.holders[i]
      <4>1. ~forced /\ call[c].read.version = inbox.version
        BY <2>1, <2>6, <3>5
      <4>2. call[c].read.members = inbox.members /\ call[c].read.holders = inbox.holders
        BY <4>1, <2>1 DEF KeysHeld
      <4>3. \A i \in 1 .. n : inbox.members \subseteq inbox.holders[i]
        BY <4>1, <3>1 DEF KeysHeld
      <4>4. \A i \in 1 .. n : k.holders[i] = inbox.holders[i] \cup (call[c].users \ inbox.members)
        BY <4>2, <3>1, <3>3
      <4>5. \A i \in 1 .. n : call[c].users \subseteq k.holders[i]
        BY <4>3, <4>4
      <4> QED BY <4>5, <3>1, <3>2, <3>3, <2>6 DEF k
    <3>6. \A e \in Messages' : thread'.messages[e] \in DOMAIN inbox'.holders
      BY <2>1, <2>3, <3>4 DEF KeysHeld
    <3>7. \A d \in Clients : call'[d].op = "sendEntry" => call'[d].key \in DOMAIN inbox'.holders
      BY <2>1, <2>2, <3>4 DEF KeysHeld, Others
    <3>8. ASSUME NEW d \in Clients, call'[d].step = "update"
          PROVE  call'[d].read.version < inbox'.version
      <4>1. call'[d] = call[d] /\ At(d, "update")
        BY <2>1, <2>2, <3>8 DEF Others, At
      <4>2. call[d].read \in Inboxes
        BY <4>1, Tells, Fields DEF ContainersInv, Shapes, At, UpdateSteps
      <4>3. call[d].read.version \in Nat
        BY <4>2 DEF Inboxes
      <4>4. call[d].read.version <= inbox.version
        BY <4>1 DEF KeysHeld
      <4> QED BY <4>1, <4>3, <4>4, <3>1, <2>6
    <3>9. \A d \in Clients : call'[d].step = "update" =>
            /\ call'[d].read.version <= inbox'.version
            /\ call'[d].read.version # inbox'.version
      <4>1. ASSUME NEW d \in Clients, call'[d].step = "update"
      PROVE call'[d].read.version \in Nat
        <5>1. call'[d].read \in Inboxes
          BY <4>1, Tells, Fields DEF ContainersInv, Shapes, UpdateSteps
        <5> QED BY <5>1 DEF Inboxes
      <4> QED BY <4>1, <3>8, <3>1, <2>6
    <3> QED BY <3>5, <3>6, <3>7, <3>9 DEF KeysHeld, At
  <2> QED BY <2>1, <2>4, <2>6
<1>7. ASSUME NEW c \in Clients, GetStoreEx(c)
      PROVE  KeysHeld'
  <2>1. Seen(c, "getStore", store, "updateStore") /\ store.version \in Nat
    BY <1>7 DEF GetStoreEx, ContainersInv, Shapes, Stores
  <2>2. /\ Kept /\ Marks /\ Others(c)
        /\ call'[c] = Idle \/ (call'[c] \in Updates /\ call'[c].step = "updateStore")
    BY <2>1, DoesSeen DEF ContainersInv, UpdateSteps, Goes
  <2>3. call'[c].op # "sendEntry" /\ ~At(c, "update")'
    BY <2>2, Fields DEF At
  <2> QED BY <2>2, <2>3, KeysHeldFrame DEF Kept, Marks, Messages
<1>8. ASSUME NEW c \in Clients, UpdateStore(c)
      PROVE  KeysHeld'
  <2>1. /\ Others(c) /\ (~forced' => ~forced) /\ inbox'.members = inbox.members
        /\ inbox'.holders = inbox.holders /\ inbox'.version = inbox.version
    BY <1>8, DoesUpdateStore DEF ContainersInv, Answered, Goes, Kept, Marks
  <2>2. \A m \in Messages' : m \in Messages /\ thread'.messages[m] = thread.messages[m]
    BY <1>8, DoesUpdateStore DEF ContainersInv, Answered, Kept, Messages
  <2>3. call'[c].op # "sendEntry" /\ ~At(c, "update")'
    BY <1>8, DoesUpdateStore, Fields, Tells DEF ContainersInv, Answered, Goes, At,
       Shapes, CreateSteps, UpdateSteps, DeleteSteps
  <2> QED BY <2>1, <2>2, <2>3, KeysHeldFrame
<1>9. ASSUME NEW c \in Clients, GetThreadEx(c)
      PROVE  KeysHeld'
  <2>1. Seen(c, "getThread", thread, "updateThread") /\ thread.version \in Nat
    BY <1>9 DEF GetThreadEx, ContainersInv, Shapes, Threads
  <2>2. /\ Kept /\ Marks /\ Others(c)
        /\ call'[c] = Idle \/ (call'[c] \in Updates /\ call'[c].step = "updateThread")
    BY <2>1, DoesSeen DEF ContainersInv, UpdateSteps, Goes
  <2>3. call'[c].op # "sendEntry" /\ ~At(c, "update")'
    BY <2>2, Fields DEF At
  <2> QED BY <2>2, <2>3, KeysHeldFrame DEF Kept, Marks, Messages
<1>10. ASSUME NEW c \in Clients, UpdateThread(c)
      PROVE  KeysHeld'
  <2>1. /\ Others(c) /\ (~forced' => ~forced) /\ inbox'.members = inbox.members
        /\ inbox'.holders = inbox.holders /\ inbox'.version = inbox.version
    BY <1>10, DoesUpdateThread DEF ContainersInv, Answered, Goes, Kept, Marks
  <2>2. \A m \in Messages' : m \in Messages /\ thread'.messages[m] = thread.messages[m]
    BY <1>10, DoesUpdateThread DEF ContainersInv, Answered, Kept, Messages
  <2>3. call'[c].op # "sendEntry" /\ ~At(c, "update")'
    BY <1>10, DoesUpdateThread, Fields, Tells DEF ContainersInv, Answered, Goes, At,
       Shapes, CreateSteps, UpdateSteps, DeleteSteps
  <2> QED BY <2>1, <2>2, <2>3, KeysHeldFrame
<1>11. ASSUME NEW c \in Clients, DeleteInbox(c)
      PROVE  KeysHeld'
  <2>1. /\ Others(c) /\ (~forced' => ~forced) /\ inbox'.members = inbox.members
        /\ inbox'.holders = inbox.holders /\ inbox'.version = inbox.version
    BY <1>11, DoesDeleteInbox DEF ContainersInv, Answered, Goes, Kept, Marks
  <2>2. \A m \in Messages' : m \in Messages /\ thread'.messages[m] = thread.messages[m]
    BY <1>11, DoesDeleteInbox DEF ContainersInv, Answered, Kept, Messages
  <2>3. call'[c].op # "sendEntry" /\ ~At(c, "update")'
    BY <1>11, DoesDeleteInbox, Fields, Tells DEF ContainersInv, Answered, Goes, At,
       Shapes, CreateSteps, UpdateSteps, DeleteSteps
  <2> QED BY <2>1, <2>2, <2>3, KeysHeldFrame
<1>12. ASSUME NEW c \in Clients, InboxDelete(c)
      PROVE  KeysHeld'
  <2>1. /\ Others(c) /\ (~forced' => ~forced) /\ inbox'.members = inbox.members
        /\ inbox'.holders = inbox.holders /\ inbox'.version = inbox.version
    BY <1>12, DoesInboxDelete DEF ContainersInv, Answered, Goes, Kept, Marks
  <2>2. \A m \in Messages' : m \in Messages /\ thread'.messages[m] = thread.messages[m]
    BY <1>12, DoesInboxDelete DEF ContainersInv, Answered, Kept, Messages
  <2>3. call'[c].op # "sendEntry" /\ ~At(c, "update")'
    BY <1>12, DoesInboxDelete, Fields, Tells DEF ContainersInv, Answered, Goes, At,
       Shapes, CreateSteps, UpdateSteps, DeleteSteps
  <2> QED BY <2>1, <2>2, <2>3, KeysHeldFrame
<1>13. ASSUME NEW c \in Clients, DeleteStore(c)
      PROVE  KeysHeld'
  <2>1. /\ Others(c) /\ (~forced' => ~forced) /\ inbox'.members = inbox.members
        /\ inbox'.holders = inbox.holders /\ inbox'.version = inbox.version
    BY <1>13, DoesDeleteStore DEF ContainersInv, Answered, Goes, Kept, Marks
  <2>2. \A m \in Messages' : m \in Messages /\ thread'.messages[m] = thread.messages[m]
    BY <1>13, DoesDeleteStore DEF ContainersInv, Answered, Kept, Messages
  <2>3. call'[c].op # "sendEntry" /\ ~At(c, "update")'
    BY <1>13, DoesDeleteStore, Fields, Tells DEF ContainersInv, Answered, Goes, At,
       Shapes, CreateSteps, UpdateSteps, DeleteSteps
  <2> QED BY <2>1, <2>2, <2>3, KeysHeldFrame
<1>14. ASSUME NEW c \in Clients, DeleteThread(c)
      PROVE  KeysHeld'
  <2>1. /\ Others(c) /\ (~forced' => ~forced) /\ inbox'.members = inbox.members
        /\ inbox'.holders = inbox.holders /\ inbox'.version = inbox.version
    BY <1>14, DoesDeleteThread DEF ContainersInv, Answered, Goes, Kept, Marks
  <2>2. \A m \in Messages' : m \in Messages /\ thread'.messages[m] = thread.messages[m]
    BY <1>14, DoesDeleteThread DEF ContainersInv, Answered, Kept, Messages
  <2>3. call'[c].op # "sendEntry" /\ ~At(c, "update")'
    BY <1>14, DoesDeleteThread, Fields, Tells DEF ContainersInv, Answered, Goes, At,
       Shapes, CreateSteps, UpdateSteps, DeleteSteps
  <2> QED BY <2>1, <2>2, <2>3, KeysHeldFrame
<1>15. ASSUME NEW c \in Clients, NEW e \in Entries, SendEntry(c, e)
      PROVE  KeysHeld'
  <2>1. /\ Kept /\ Others(c) /\ Marks /\ call'[c] \in Sends /\ call'[c].key = inbox.key
        /\ Live(inbox)
    BY <1>15, DoesSendEntry DEF ContainersInv, Goes
  <2>2. inbox.key \in DOMAIN inbox.holders
    BY <2>1, HoldersDomain DEF ContainersInv, KeyKnown, Live, Shapes, Inboxes
  <2>3. ~forced' => \A k \in DOMAIN inbox'.holders : inbox'.members \subseteq inbox'.holders[k]
    BY <2>1 DEF KeysHeld, Kept, Marks
  <2>4. \A e2 \in Messages' : thread'.messages[e2] \in DOMAIN inbox'.holders
    BY <2>1 DEF KeysHeld, Kept, Messages
  <2>5. \A d \in Clients : call'[d].op = "sendEntry" => call'[d].key \in DOMAIN inbox'.holders
    BY <2>1, <2>2 DEF KeysHeld, Others, Kept
  <2>6. call'[c].step # "update"
    BY <2>1, Fields
  <2>7. \A d \in Clients : call'[d].step = "update" =>
          /\ call'[d].read.version <= inbox'.version
          /\ call'[d].read.version = inbox'.version =>
               call'[d].read.members = inbox'.members /\ call'[d].read.holders = inbox'.holders
    BY <2>1, <2>6 DEF KeysHeld, Others, Kept, At
  <2> QED BY <2>3, <2>4, <2>5, <2>7 DEF KeysHeld, At
<1>16. ASSUME NEW c \in Clients, NEW e \in Entries, DeleteEntry(c, e)
      PROVE  KeysHeld'
  <2>1. /\ Others(c) /\ (~forced' => ~forced) /\ inbox'.members = inbox.members
        /\ inbox'.holders = inbox.holders /\ inbox'.version = inbox.version
    BY <1>16, DoesDeleteEntry DEF ContainersInv, Answered, Goes, Kept, Marks
  <2>2. \A m \in Messages' : m \in Messages /\ thread'.messages[m] = thread.messages[m]
    BY <1>16, DoesDeleteEntry DEF ContainersInv, Answered, Kept, Messages
  <2>3. call'[c].op # "sendEntry" /\ ~At(c, "update")'
    BY <1>16, DoesDeleteEntry, Fields, Tells DEF ContainersInv, Answered, Goes, At,
       Shapes, CreateSteps, UpdateSteps, DeleteSteps
  <2> QED BY <2>1, <2>2, <2>3, KeysHeldFrame
<1>17. ASSUME NEW c \in Clients, InboxSend(c)
      PROVE  KeysHeld'
  <2>1. /\ inbox' = inbox /\ Others(c) /\ Marks /\ call[c] \in Sends /\ call'[c] = Idle
        /\ \/ thread' = thread
           \/ /\ Messages' = Messages \cup {call[c].entry}
              /\ thread'.messages[call[c].entry] = call[c].key
              /\ \A d \in Messages : d # call[c].entry => thread'.messages[d] = thread.messages[d]
    BY <1>17, DoesInboxSend DEF ContainersInv, Answered, Kept, Goes
  <2>2. call[c].op = "sendEntry" /\ call'[c].op # "sendEntry" /\ call'[c].step # "update"
    BY <2>1, Fields
  <2>3. ~forced' => \A k \in DOMAIN inbox'.holders : inbox'.members \subseteq inbox'.holders[k]
    BY <2>1 DEF KeysHeld, Marks
  <2>4. \A e \in Messages' : thread'.messages[e] \in DOMAIN inbox'.holders
    BY <2>1, <2>2 DEF KeysHeld, Messages
  <2>5. \A d \in Clients : call'[d].op = "sendEntry" => call'[d].key \in DOMAIN inbox'.holders
    BY <2>1, <2>2 DEF KeysHeld, Others
  <2>6. \A d \in Clients : call'[d].step = "update" =>
          /\ call'[d].read.version <= inbox'.version
          /\ call'[d].read.version = inbox'.version =>
               call'[d].read.members = inbox'.members /\ call'[d].read.holders = inbox'.holders
    BY <2>1, <2>2 DEF KeysHeld, Others, At
  <2> QED BY <2>3, <2>4, <2>5, <2>6 DEF KeysHeld, At
<1>18. ASSUME NEW c \in Clients, DeleteFile(c)
      PROVE  KeysHeld'
  <2>1. /\ Others(c) /\ (~forced' => ~forced) /\ inbox'.members = inbox.members
        /\ inbox'.holders = inbox.holders /\ inbox'.version = inbox.version
    BY <1>18, DoesDeleteFile DEF ContainersInv, Answered, Goes, Kept, Marks
  <2>2. \A m \in Messages' : m \in Messages /\ thread'.messages[m] = thread.messages[m]
    BY <1>18, DoesDeleteFile DEF ContainersInv, Answered, Kept, Messages
  <2>3. call'[c].op # "sendEntry" /\ ~At(c, "update")'
    BY <1>18, DoesDeleteFile, Fields, Tells DEF ContainersInv, Answered, Goes, At,
       Shapes, CreateSteps, UpdateSteps, DeleteSteps
  <2> QED BY <2>1, <2>2, <2>3, KeysHeldFrame
<1>19. ASSUME NEW c \in Clients, DeleteMessage(c)
      PROVE  KeysHeld'
  <2>1. /\ Others(c) /\ (~forced' => ~forced) /\ inbox'.members = inbox.members
        /\ inbox'.holders = inbox.holders /\ inbox'.version = inbox.version
    BY <1>19, DoesDeleteMessage DEF ContainersInv, Answered, Goes, Kept, Marks
  <2>2. \A m \in Messages' : m \in Messages /\ thread'.messages[m] = thread.messages[m]
    BY <1>19, DoesDeleteMessage DEF ContainersInv, Answered, Kept, Messages
  <2>3. call'[c].op # "sendEntry" /\ ~At(c, "update")'
    BY <1>19, DoesDeleteMessage, Fields, Tells DEF ContainersInv, Answered, Goes, At,
       Shapes, CreateSteps, UpdateSteps, DeleteSteps
  <2> QED BY <2>1, <2>2, <2>3, KeysHeldFrame
<1> QED
  BY <1>0, <1>1, <1>2, <1>3, <1>4, <1>5, <1>6, <1>7, <1>8, <1>9, <1>10, <1>11, <1>12,
     <1>13, <1>14, <1>15, <1>16, <1>17, <1>18, <1>19 DEF Next

(* Unless a forced update replaced a version it had not seen, every user   *)
(* of the Inbox holds the key of every entry, also of one that was sent    *)
(* with a key replaced in the meantime.                                    *)
THEOREM EntriesReadableAlways == Spec => []EntriesReadable
<1>1. Init => KeysHeld
  BY DEF Init, KeysHeld, Idle, At, Messages
<1>2. KeysHeld => EntriesReadable
  BY DEF KeysHeld, EntriesReadable
<1>3. ContainersInv /\ ContainersInv' /\ KeysHeld /\ [Next]_vars => KeysHeld'
  BY KeysHeldKept
<1> QED BY <1>1, <1>2, <1>3, ContainersAlways, PTL DEF Spec

-----------------------------------------------------------------------------
(* Files of entries.                                                       *)

(* A step that sends nothing keeps Sending.                                *)
LEMMA SendingFrame ==
  ASSUME Sending, NEW c \in Clients, Others(c), Messages' \subseteq Messages,
         call'[c].op # "sendEntry"
  PROVE  Sending'
  BY DEF Sending, Others

(* Every step keeps Sending.                                               *)
LEMMA SendingKept ==
  ASSUME ContainersInv, Sending, [Next]_vars
  PROVE  Sending'
<1>0. CASE UNCHANGED vars
  BY <1>0 DEF vars, Sending, Messages
<1>1. ASSUME NEW c \in Clients, NEW users \in SUBSET Users, CreateInbox(c, users)
      PROVE  Sending'
  <2>1. Others(c) /\ Messages' \subseteq Messages
    BY <1>1, DoesCreateInbox DEF ContainersInv, Answered, Goes, Kept, Messages
  <2>2. call'[c].op # "sendEntry"
    BY <1>1, DoesCreateInbox, Fields, Tells DEF ContainersInv, Answered, Goes
  <2> QED BY <2>1, <2>2, SendingFrame
<1>2. ASSUME NEW c \in Clients, CreateStoreEx(c)
      PROVE  Sending'
  <2>1. Others(c) /\ Messages' \subseteq Messages
    BY <1>2, DoesCreateStoreEx DEF ContainersInv, Answered, Goes, Kept, Messages
  <2>2. call'[c].op # "sendEntry"
    BY <1>2, DoesCreateStoreEx, Fields, Tells DEF ContainersInv, Answered, Goes
  <2> QED BY <2>1, <2>2, SendingFrame
<1>3. ASSUME NEW c \in Clients, CreateThreadEx(c)
      PROVE  Sending'
  <2>1. Others(c) /\ Messages' \subseteq Messages
    BY <1>3, DoesCreateThreadEx DEF ContainersInv, Answered, Goes, Kept, Messages
  <2>2. call'[c].op # "sendEntry"
    BY <1>3, DoesCreateThreadEx, Fields, Tells DEF ContainersInv, Answered, Goes
  <2> QED BY <2>1, <2>2, SendingFrame
<1>4. ASSUME NEW c \in Clients, InboxCreate(c)
      PROVE  Sending'
  <2>1. Others(c) /\ Messages' \subseteq Messages
    BY <1>4, DoesInboxCreate DEF ContainersInv, Answered, Goes, Kept, Messages
  <2>2. call'[c].op # "sendEntry"
    BY <1>4, DoesInboxCreate, Fields, Tells DEF ContainersInv, Answered, Goes
  <2> QED BY <2>1, <2>2, SendingFrame
<1>5. ASSUME NEW c \in Clients, NEW users \in SUBSET Users,
             NEW version \in 1 .. MaxVersion, NEW force \in BOOLEAN, UpdateInbox(c, users, version, force)
      PROVE  Sending'
  <2>1. Others(c) /\ Messages' \subseteq Messages
    BY <1>5, DoesUpdateInbox DEF ContainersInv, Answered, Goes, Kept, Messages
  <2>2. call'[c].op # "sendEntry"
    BY <1>5, DoesUpdateInbox, Fields, Tells DEF ContainersInv, Answered, Goes
  <2> QED BY <2>1, <2>2, SendingFrame
<1>6. ASSUME NEW c \in Clients, InboxUpdate(c)
      PROVE  Sending'
  <2>1. Others(c) /\ Messages' \subseteq Messages
    BY <1>6, DoesInboxUpdate DEF ContainersInv, Answered, Goes, Kept, Messages
  <2>2. call'[c].op # "sendEntry"
    BY <1>6, DoesInboxUpdate, Fields, Tells DEF ContainersInv, Answered, Goes
  <2> QED BY <2>1, <2>2, SendingFrame
<1>7. ASSUME NEW c \in Clients, GetStoreEx(c)
      PROVE  Sending'
  <2>1. Seen(c, "getStore", store, "updateStore") /\ store.version \in Nat
    BY <1>7 DEF GetStoreEx, ContainersInv, Shapes, Stores
  <2>2. Kept /\ Others(c) /\ (call'[c] = Idle \/ call'[c] \in Updates)
    BY <2>1, DoesSeen DEF ContainersInv, UpdateSteps, Goes
  <2>3. call'[c].op # "sendEntry"
    BY <2>2, Fields
  <2> QED BY <2>2, <2>3, SendingFrame DEF Kept, Messages
<1>8. ASSUME NEW c \in Clients, UpdateStore(c)
      PROVE  Sending'
  <2>1. Others(c) /\ Messages' \subseteq Messages
    BY <1>8, DoesUpdateStore DEF ContainersInv, Answered, Goes, Kept, Messages
  <2>2. call'[c].op # "sendEntry"
    BY <1>8, DoesUpdateStore, Fields, Tells DEF ContainersInv, Answered, Goes
  <2> QED BY <2>1, <2>2, SendingFrame
<1>9. ASSUME NEW c \in Clients, GetThreadEx(c)
      PROVE  Sending'
  <2>1. Seen(c, "getThread", thread, "updateThread") /\ thread.version \in Nat
    BY <1>9 DEF GetThreadEx, ContainersInv, Shapes, Threads
  <2>2. Kept /\ Others(c) /\ (call'[c] = Idle \/ call'[c] \in Updates)
    BY <2>1, DoesSeen DEF ContainersInv, UpdateSteps, Goes
  <2>3. call'[c].op # "sendEntry"
    BY <2>2, Fields
  <2> QED BY <2>2, <2>3, SendingFrame DEF Kept, Messages
<1>10. ASSUME NEW c \in Clients, UpdateThread(c)
      PROVE  Sending'
  <2>1. Others(c) /\ Messages' \subseteq Messages
    BY <1>10, DoesUpdateThread DEF ContainersInv, Answered, Goes, Kept, Messages
  <2>2. call'[c].op # "sendEntry"
    BY <1>10, DoesUpdateThread, Fields, Tells DEF ContainersInv, Answered, Goes
  <2> QED BY <2>1, <2>2, SendingFrame
<1>11. ASSUME NEW c \in Clients, DeleteInbox(c)
      PROVE  Sending'
  <2>1. Others(c) /\ Messages' \subseteq Messages
    BY <1>11, DoesDeleteInbox DEF ContainersInv, Answered, Goes, Kept, Messages
  <2>2. call'[c].op # "sendEntry"
    BY <1>11, DoesDeleteInbox, Fields, Tells DEF ContainersInv, Answered, Goes
  <2> QED BY <2>1, <2>2, SendingFrame
<1>12. ASSUME NEW c \in Clients, InboxDelete(c)
      PROVE  Sending'
  <2>1. Others(c) /\ Messages' \subseteq Messages
    BY <1>12, DoesInboxDelete DEF ContainersInv, Answered, Goes, Kept, Messages
  <2>2. call'[c].op # "sendEntry"
    BY <1>12, DoesInboxDelete, Fields, Tells DEF ContainersInv, Answered, Goes
  <2> QED BY <2>1, <2>2, SendingFrame
<1>13. ASSUME NEW c \in Clients, DeleteStore(c)
      PROVE  Sending'
  <2>1. Others(c) /\ Messages' \subseteq Messages
    BY <1>13, DoesDeleteStore DEF ContainersInv, Answered, Goes, Kept, Messages
  <2>2. call'[c].op # "sendEntry"
    BY <1>13, DoesDeleteStore, Fields, Tells DEF ContainersInv, Answered, Goes
  <2> QED BY <2>1, <2>2, SendingFrame
<1>14. ASSUME NEW c \in Clients, DeleteThread(c)
      PROVE  Sending'
  <2>1. Others(c) /\ Messages' \subseteq Messages
    BY <1>14, DoesDeleteThread DEF ContainersInv, Answered, Goes, Kept, Messages
  <2>2. call'[c].op # "sendEntry"
    BY <1>14, DoesDeleteThread, Fields, Tells DEF ContainersInv, Answered, Goes
  <2> QED BY <2>1, <2>2, SendingFrame
<1>15. ASSUME NEW c \in Clients, NEW e \in Entries, SendEntry(c, e)
      PROVE  Sending'
  <2>1. /\ Kept /\ Others(c) /\ call'[c].entry = e /\ e \notin Messages
        /\ \A d \in Clients : call[d].op = "sendEntry" => call[d].entry # e
    BY <1>15, DoesSendEntry DEF ContainersInv, Goes
  <2> QED BY <2>1 DEF Sending, Others, Kept, Messages
<1>16. ASSUME NEW c \in Clients, NEW e \in Entries, DeleteEntry(c, e)
      PROVE  Sending'
  <2>1. Others(c) /\ Messages' \subseteq Messages
    BY <1>16, DoesDeleteEntry DEF ContainersInv, Answered, Goes, Kept, Messages
  <2>2. call'[c].op # "sendEntry"
    BY <1>16, DoesDeleteEntry, Fields, Tells DEF ContainersInv, Answered, Goes
  <2> QED BY <2>1, <2>2, SendingFrame
<1>17. ASSUME NEW c \in Clients, InboxSend(c)
      PROVE  Sending'
  <2>1. /\ Others(c) /\ call[c] \in Sends /\ call'[c] = Idle
        /\ thread' = thread \/ Messages' = Messages \cup {call[c].entry}
    BY <1>17, DoesInboxSend DEF ContainersInv, Answered, Kept, Goes
  <2>2. call[c].op = "sendEntry" /\ call'[c].op # "sendEntry"
    BY <2>1, Fields
  <2> QED BY <2>1, <2>2 DEF Sending, Others, Messages
<1>18. ASSUME NEW c \in Clients, DeleteFile(c)
      PROVE  Sending'
  <2>1. Others(c) /\ Messages' \subseteq Messages
    BY <1>18, DoesDeleteFile DEF ContainersInv, Answered, Goes, Kept, Messages
  <2>2. call'[c].op # "sendEntry"
    BY <1>18, DoesDeleteFile, Fields, Tells DEF ContainersInv, Answered, Goes
  <2> QED BY <2>1, <2>2, SendingFrame
<1>19. ASSUME NEW c \in Clients, DeleteMessage(c)
      PROVE  Sending'
  <2>1. Others(c) /\ Messages' \subseteq Messages
    BY <1>19, DoesDeleteMessage DEF ContainersInv, Answered, Goes, Kept, Messages
  <2>2. call'[c].op # "sendEntry"
    BY <1>19, DoesDeleteMessage, Fields, Tells DEF ContainersInv, Answered, Goes
  <2> QED BY <2>1, <2>2, SendingFrame
<1> QED
  BY <1>0, <1>1, <1>2, <1>3, <1>4, <1>5, <1>6, <1>7, <1>8, <1>9, <1>10, <1>11, <1>12,
     <1>13, <1>14, <1>15, <1>16, <1>17, <1>18, <1>19 DEF Next

(* What an entry that the step does not touch keeps.                       *)
LEMMA FilesAtFrame ==
  ASSUME NEW e \in Entries, FilesAt(e), e \in Messages' <=> e \in Messages,
         \A i \in 1 .. FileCount : <<e, i>> \in store'.files <=> <<e, i>> \in store.files,
         Half(e)' = Half(e), \A d \in Half(e) : call'[d] = call[d]
  PROVE  FilesAt(e)'
<1>1. e \notin Messages' => \A i \in 1 .. FileCount : <<e, i>> \notin store'.files
  BY DEF FilesAt
<1>2. \A d \in Half(e)' :
        /\ e \in Messages' /\ call'[d].file <= FileCount + 1
        /\ \A i \in 1 .. FileCount : <<e, i>> \in store'.files <=> i >= call'[d].file
  BY DEF FilesAt
<1>3. \A d, f \in Half(e)' : d = f
  BY DEF FilesAt
<1>4. e \in Messages' => \/ \A i \in 1 .. FileCount : <<e, i>> \in store'.files
                         \/ Half(e)' # {}
  BY DEF FilesAt
<1> HIDE DEF Half, Messages
<1> QED BY <1>1, <1>2, <1>3, <1>4 DEF FilesAt

(* The calls that have deleted files of an entry, when the caller is not   *)
(* among them.                                                             *)
LEMMA HalfFrame ==
  ASSUME NEW c \in Clients, Others(c), NEW e, c \notin Half(e), c \notin Half(e)'
  PROVE  Half(e)' = Half(e) /\ \A d \in Half(e) : call'[d] = call[d]
  BY DEF Half, Others

(* A step that touches no entry keeps FilesOf.                             *)
LEMMA FilesOfFrame ==
  ASSUME ContainersInv, FilesOf, NEW c \in Clients, Others(c), Stays \/ Lost,
         Live(inbox)' => Live(inbox), Messages' = Messages, store'.files = store.files,
         \A e \in Entries : c \notin Half(e) /\ c \notin Half(e)'
  PROVE  FilesOf'
<1>1. faults \in Nat
  BY InboxAssumption DEF ContainersInv, Shapes
<1>2. faults' = 0 => faults = 0
  BY <1>1 DEF Stays, Lost
<1> SUFFICES ASSUME faults' = 0, Live(inbox)', NEW e \in Entries PROVE FilesAt(e)'
  BY DEF FilesOf
<1>3. FilesAt(e)
  BY <1>2 DEF FilesOf
<1> QED BY <1>3, HalfFrame, FilesAtFrame

(* Every step keeps FilesOf. Of several calls of deleteEntry only the one  *)
(* that deleted the first file goes on; a refused call has deleted         *)
(* nothing.                                                                *)
LEMMA FilesOfKept ==
  ASSUME ContainersInv, Sending, FilesOf, [Next]_vars
  PROVE  FilesOf'
<1>0. CASE UNCHANGED vars
  BY <1>0 DEF vars, FilesOf, FilesAt, Half, Messages, Live
<1>1. ASSUME NEW c \in Clients, NEW users \in SUBSET Users, CreateInbox(c, users)
      PROVE  FilesOf'
  <2>1. /\ Others(c) /\ (Stays \/ Lost) /\ (Live(inbox)' => Live(inbox))
        /\ Messages' = Messages /\ store'.files = store.files
    BY <1>1, DoesCreateInbox DEF ContainersInv, Answered, Goes, Kept, Live, Messages,
       Accepted
  <2>2. call[c].op # "deleteEntry"
    BY <1>1, DoesCreateInbox, Fields, Tells DEF ContainersInv
  <2>3. call'[c].op # "deleteEntry"
    BY <1>1, DoesCreateInbox, Fields, Tells DEF ContainersInv, Answered, Goes
  <2>4. \A m \in Entries : c \notin Half(m) /\ c \notin Half(m)'
    BY <2>2, <2>3 DEF Half
  <2> QED BY <2>1, <2>4, FilesOfFrame
<1>2. ASSUME NEW c \in Clients, CreateStoreEx(c)
      PROVE  FilesOf'
  <2>1. ~Live(inbox)'
    BY <1>2, DoesCreateStoreEx, Tells, Fields DEF Answered, Goes, Kept, ContainersInv,
       Shapes, Making, At, Live, CreateSteps
  <2> QED BY <2>1 DEF FilesOf, Live
<1>3. ASSUME NEW c \in Clients, CreateThreadEx(c)
      PROVE  FilesOf'
  <2>1. ~Live(inbox)'
    BY <1>3, DoesCreateThreadEx, Tells, Fields DEF Answered, Goes, Kept,
       ContainersInv, Shapes, Making, At, Live, CreateSteps
  <2> QED BY <2>1 DEF FilesOf, Live
<1>4. ASSUME NEW c \in Clients, InboxCreate(c)
      PROVE  FilesOf'
  <2>1. \A d \in Clients : call'[d] = Idle
    BY <1>4, DoesInboxCreate, Fields, Tells DEF Answered, Goes, Others, ContainersInv,
       Making, Shapes, At, CreateSteps
  <2>2. Messages' = {} /\ store'.files = {}
    BY <1>4, DoesInboxCreate, Fields DEF ContainersInv, Answered, Kept, Messages,
       Making, Order
  <2>3. \A e \in Entries : Half(e)' = {}
    BY <2>1, Fields DEF Half
  <2> HIDE DEF Half, Messages
  <2> QED BY <2>2, <2>3 DEF FilesOf, FilesAt
<1>5. ASSUME NEW c \in Clients, NEW users \in SUBSET Users,
             NEW version \in 1 .. MaxVersion, NEW force \in BOOLEAN, UpdateInbox(c, users, version, force)
      PROVE  FilesOf'
  <2>1. /\ Others(c) /\ (Stays \/ Lost) /\ (Live(inbox)' => Live(inbox))
        /\ Messages' = Messages /\ store'.files = store.files
    BY <1>5, DoesUpdateInbox DEF ContainersInv, Answered, Goes, Kept, Live, Messages,
       Accepted
  <2>2. call[c].op # "deleteEntry"
    BY <1>5, DoesUpdateInbox, Fields, Tells DEF ContainersInv
  <2>3. call'[c].op # "deleteEntry"
    BY <1>5, DoesUpdateInbox, Fields, Tells DEF ContainersInv, Answered, Goes
  <2>4. \A m \in Entries : c \notin Half(m) /\ c \notin Half(m)'
    BY <2>2, <2>3 DEF Half
  <2> QED BY <2>1, <2>4, FilesOfFrame
<1>6. ASSUME NEW c \in Clients, InboxUpdate(c)
      PROVE  FilesOf'
  <2>1. /\ Others(c) /\ (Stays \/ Lost) /\ (Live(inbox)' => Live(inbox))
        /\ Messages' = Messages /\ store'.files = store.files
    BY <1>6, DoesInboxUpdate DEF ContainersInv, Answered, Goes, Kept, Live, Messages,
       Accepted
  <2>2. call[c].op # "deleteEntry"
    BY <1>6, DoesInboxUpdate, Fields, Tells DEF ContainersInv
  <2>3. call'[c].op # "deleteEntry"
    BY <1>6, DoesInboxUpdate, Fields, Tells DEF ContainersInv, Answered, Goes
  <2>4. \A m \in Entries : c \notin Half(m) /\ c \notin Half(m)'
    BY <2>2, <2>3 DEF Half
  <2> QED BY <2>1, <2>4, FilesOfFrame
<1>7. ASSUME NEW c \in Clients, GetStoreEx(c)
      PROVE  FilesOf'
  <2>1. Seen(c, "getStore", store, "updateStore") /\ store.version \in Nat
    BY <1>7 DEF GetStoreEx, ContainersInv, Shapes, Stores
  <2>2. /\ Kept /\ Stays /\ Others(c) /\ call[c] \in Updates
        /\ call'[c] = Idle \/ call'[c] \in Updates
    BY <2>1, DoesSeen DEF ContainersInv, UpdateSteps, Goes
  <2>3. call[c].op # "deleteEntry" /\ call'[c].op # "deleteEntry"
    BY <2>2, Fields
  <2>4. \A m \in Entries : c \notin Half(m) /\ c \notin Half(m)'
    BY <2>3 DEF Half
  <2> QED BY <2>2, <2>4, FilesOfFrame DEF Kept, Live, Messages
<1>8. ASSUME NEW c \in Clients, UpdateStore(c)
      PROVE  FilesOf'
  <2>1. /\ Others(c) /\ (Stays \/ Lost) /\ (Live(inbox)' => Live(inbox))
        /\ Messages' = Messages /\ store'.files = store.files
    BY <1>8, DoesUpdateStore DEF ContainersInv, Answered, Goes, Kept, Live, Messages,
       Accepted
  <2>2. call[c].op # "deleteEntry"
    BY <1>8, DoesUpdateStore, Fields, Tells DEF ContainersInv
  <2>3. call'[c].op # "deleteEntry"
    BY <1>8, DoesUpdateStore, Fields, Tells DEF ContainersInv, Answered, Goes
  <2>4. \A m \in Entries : c \notin Half(m) /\ c \notin Half(m)'
    BY <2>2, <2>3 DEF Half
  <2> QED BY <2>1, <2>4, FilesOfFrame
<1>9. ASSUME NEW c \in Clients, GetThreadEx(c)
      PROVE  FilesOf'
  <2>1. Seen(c, "getThread", thread, "updateThread") /\ thread.version \in Nat
    BY <1>9 DEF GetThreadEx, ContainersInv, Shapes, Threads
  <2>2. /\ Kept /\ Stays /\ Others(c) /\ call[c] \in Updates
        /\ call'[c] = Idle \/ call'[c] \in Updates
    BY <2>1, DoesSeen DEF ContainersInv, UpdateSteps, Goes
  <2>3. call[c].op # "deleteEntry" /\ call'[c].op # "deleteEntry"
    BY <2>2, Fields
  <2>4. \A m \in Entries : c \notin Half(m) /\ c \notin Half(m)'
    BY <2>3 DEF Half
  <2> QED BY <2>2, <2>4, FilesOfFrame DEF Kept, Live, Messages
<1>10. ASSUME NEW c \in Clients, UpdateThread(c)
      PROVE  FilesOf'
  <2>1. /\ Others(c) /\ (Stays \/ Lost) /\ (Live(inbox)' => Live(inbox))
        /\ Messages' = Messages /\ store'.files = store.files
    BY <1>10, DoesUpdateThread DEF ContainersInv, Answered, Goes, Kept, Live,
       Messages, Accepted
  <2>2. call[c].op # "deleteEntry"
    BY <1>10, DoesUpdateThread, Fields, Tells DEF ContainersInv
  <2>3. call'[c].op # "deleteEntry"
    BY <1>10, DoesUpdateThread, Fields, Tells DEF ContainersInv, Answered, Goes
  <2>4. \A m \in Entries : c \notin Half(m) /\ c \notin Half(m)'
    BY <2>2, <2>3 DEF Half
  <2> QED BY <2>1, <2>4, FilesOfFrame
<1>11. ASSUME NEW c \in Clients, DeleteInbox(c)
      PROVE  FilesOf'
  <2>1. /\ Others(c) /\ (Stays \/ Lost) /\ (Live(inbox)' => Live(inbox))
        /\ Messages' = Messages /\ store'.files = store.files
    BY <1>11, DoesDeleteInbox DEF ContainersInv, Answered, Goes, Kept, Live, Messages,
       Accepted
  <2>2. call[c].op # "deleteEntry"
    BY <1>11, DoesDeleteInbox, Fields, Tells DEF ContainersInv
  <2>3. call'[c].op # "deleteEntry"
    BY <1>11, DoesDeleteInbox, Fields, Tells DEF ContainersInv, Answered, Goes
  <2>4. \A m \in Entries : c \notin Half(m) /\ c \notin Half(m)'
    BY <2>2, <2>3 DEF Half
  <2> QED BY <2>1, <2>4, FilesOfFrame
<1>12. ASSUME NEW c \in Clients, InboxDelete(c)
      PROVE  FilesOf'
  <2>1. /\ Others(c) /\ (Stays \/ Lost) /\ (Live(inbox)' => Live(inbox))
        /\ Messages' = Messages /\ store'.files = store.files
    BY <1>12, DoesInboxDelete DEF ContainersInv, Answered, Goes, Kept, Live, Messages,
       Accepted
  <2>2. call[c].op # "deleteEntry"
    BY <1>12, DoesInboxDelete, Fields, Tells DEF ContainersInv
  <2>3. call'[c].op # "deleteEntry"
    BY <1>12, DoesInboxDelete, Fields, Tells DEF ContainersInv, Answered, Goes
  <2>4. \A m \in Entries : c \notin Half(m) /\ c \notin Half(m)'
    BY <2>2, <2>3 DEF Half
  <2> QED BY <2>1, <2>4, FilesOfFrame
<1>13. ASSUME NEW c \in Clients, DeleteStore(c)
      PROVE  FilesOf'
  <2>1. ~Live(inbox)'
    BY <1>13, DoesDeleteStore, Tells, Fields DEF Answered, Goes, Kept, ContainersInv,
       Shapes, Unmaking, At, Live, CreateSteps
  <2> QED BY <2>1 DEF FilesOf, Live
<1>14. ASSUME NEW c \in Clients, DeleteThread(c)
      PROVE  FilesOf'
  <2>1. ~Live(inbox)'
    BY <1>14, DoesDeleteThread, Tells, Fields DEF Answered, Goes, Kept, ContainersInv,
       Shapes, Unmaking, At, Live, CreateSteps
  <2> QED BY <2>1 DEF FilesOf, Live
<1>15. ASSUME NEW c \in Clients, NEW e \in Entries, SendEntry(c, e)
      PROVE  FilesOf'
  <2>1. /\ Others(c) /\ (Stays \/ Lost) /\ (Live(inbox)' => Live(inbox))
        /\ Messages' = Messages /\ store'.files = store.files
    BY <1>15, DoesSendEntry DEF ContainersInv, Answered, Goes, Kept, Live, Messages,
       Accepted
  <2>2. call[c].op # "deleteEntry"
    BY <1>15, DoesSendEntry, Fields, Tells DEF ContainersInv
  <2>3. call'[c].op # "deleteEntry"
    BY <1>15, DoesSendEntry, Fields, Tells DEF ContainersInv, Answered, Goes
  <2>4. \A m \in Entries : c \notin Half(m) /\ c \notin Half(m)'
    BY <2>2, <2>3 DEF Half
  <2> QED BY <2>1, <2>4, FilesOfFrame
<1>16. ASSUME NEW c \in Clients, NEW e \in Entries, DeleteEntry(c, e)
      PROVE  FilesOf'
  <2>1. /\ Others(c) /\ Stays /\ Kept /\ call[c] = Idle /\ call'[c].file = 1
    BY <1>16, DoesDeleteEntry DEF ContainersInv, Goes
  <2>2. \A m \in Entries : c \notin Half(m) /\ c \notin Half(m)'
    BY <2>1, Fields DEF Half
  <2> QED BY <2>1, <2>2, FilesOfFrame DEF Kept, Live, Messages
<1>17. ASSUME NEW c \in Clients, InboxSend(c)
      PROVE  FilesOf'
  <2> DEFINE e == call[c].entry
             added == {<<e, i>> : i \in 1 .. FileCount}
  <2>1. /\ inbox' = inbox /\ Others(c) /\ call[c] \in Sends /\ call'[c] = Idle
        /\ Stays \/ Lost
        /\ \/ Messages' = Messages /\ store'.files = store.files
           \/ Messages' = Messages \cup {e} /\ store'.files = store.files \cup added
    BY <1>17, DoesInboxSend DEF ContainersInv, Answered, Kept, Goes, Messages
  <2>2. call[c].op = "sendEntry" /\ call'[c].op = "none" /\ e \in Entries
    BY <2>1, Fields
  <2>3. \A m \in Entries : c \notin Half(m) /\ c \notin Half(m)'
    BY <2>2 DEF Half
  <2>4. CASE Messages' = Messages /\ store'.files = store.files
    BY <2>1, <2>3, <2>4, FilesOfFrame DEF Live
  <2>5. CASE Messages' = Messages \cup {e} /\ store'.files = store.files \cup added
    <3>1. faults \in Nat
      BY InboxAssumption DEF ContainersInv, Shapes
    <3> SUFFICES ASSUME faults' = 0, Live(inbox)', NEW m \in Entries PROVE FilesAt(m)'
      BY DEF FilesOf
    <3>2. FilesAt(m)
      BY <3>1, <2>1 DEF FilesOf, Stays, Lost, Live
    <3>3. Half(m)' = Half(m) /\ \A d \in Half(m) : call'[d] = call[d]
      BY <2>1, <2>3, HalfFrame
    <3>4. CASE m # e
      <4>1. m \in Messages' <=> m \in Messages
        BY <2>5, <3>4
      <4>2. \A i \in 1 .. FileCount : <<m, i>> \in store'.files <=> <<m, i>> \in store.files
        BY <2>5, <3>4
      <4> QED BY <3>2, <3>3, <4>1, <4>2, FilesAtFrame
    <3>5. CASE m = e
      <4>1. e \notin Messages
        BY <2>2 DEF Sending
      <4>2. Half(m)' = {}
        BY <3>2, <3>3, <3>5, <4>1 DEF FilesAt
      <4>3. m \in Messages' /\ \A i \in 1 .. FileCount : <<m, i>> \in store'.files
        BY <2>5, <3>5
      <4> HIDE DEF Half, Messages
      <4> QED BY <4>2, <4>3 DEF FilesAt
    <3> QED BY <3>4, <3>5
  <2> QED BY <2>1, <2>4, <2>5
<1>18. ASSUME NEW c \in Clients, DeleteFile(c)
      PROVE  FilesOf'
  <2> DEFINE e == call[c].entry
             f == call[c].file
  <2>1. /\ inbox' = inbox /\ Messages' = Messages /\ Others(c) /\ call[c] \in Removes
        /\ Stays \/ Lost
        /\ Stays => \/ <<e, f>> \notin store.files /\ store'.files = store.files /\ call'[c] = Idle
                    \/ /\ <<e, f>> \in store.files /\ store'.files = store.files \ {<<e, f>>}
                       /\ call'[c] \in Removes /\ call'[c].entry = e /\ call'[c].file = f + 1
    <3>1. faults \in Nat
      BY InboxAssumption DEF ContainersInv, Shapes
    <3>2. ~(Stays /\ Lost)
      BY <3>1 DEF Stays, Lost
    <3> QED
      BY <1>18, <3>2, DoesDeleteFile DEF ContainersInv, Answered, Kept, Goes,
         Messages
  <2>2. /\ call[c].op = "deleteEntry" /\ e \in Entries /\ f \in Nat \ {0}
        /\ f \in 1 .. FileCount
    BY <1>18, <2>1, Fields, InboxAssumption DEF DeleteFile
  <2>3. faults \in Nat
    BY InboxAssumption DEF ContainersInv, Shapes
  <2> SUFFICES ASSUME faults' = 0, Live(inbox)', NEW m \in Entries PROVE FilesAt(m)'
    BY DEF FilesOf
  <2>4. Stays /\ FilesAt(m) /\ FilesAt(e)
    BY <2>1, <2>2, <2>3 DEF FilesOf, Stays, Lost, Live
  <2>5. CASE m # e
    <3>1. c \notin Half(m) /\ c \notin Half(m)'
      BY <2>1, <2>4, <2>5, Fields DEF Half
    <3>2. Half(m)' = Half(m) /\ \A d \in Half(m) : call'[d] = call[d]
      BY <2>1, <3>1, HalfFrame
    <3>3. \A i \in 1 .. FileCount : <<m, i>> \in store'.files <=> <<m, i>> \in store.files
      BY <2>1, <2>4, <2>5
    <3> QED BY <2>1, <2>4, <3>2, <3>3, FilesAtFrame
  <2>6. CASE m = e /\ <<e, f>> \notin store.files
    <3>1. c \notin Half(m) /\ c \notin Half(m)'
      BY <2>1, <2>2, <2>4, <2>6, Fields DEF Half, FilesAt
    <3>2. Half(m)' = Half(m) /\ \A d \in Half(m) : call'[d] = call[d]
      BY <2>1, <3>1, HalfFrame
    <3> QED BY <2>1, <2>4, <2>6, <3>2, FilesAtFrame
  <2>7. CASE m = e /\ <<e, f>> \in store.files
    <3>1. e \in Messages
      BY <2>2, <2>4, <2>7 DEF FilesAt
    <3>2. ASSUME NEW d \in Half(e) PROVE d = c
      <4>1. d \in Clients /\ call[d].op = "deleteEntry" /\ call[d].file > 1
        BY DEF Half
      <4>2. call[d].file \in Nat
        BY <4>1, Tells, Fields DEF ContainersInv, Shapes
      <4>3. <<e, 1>> \notin store.files
        BY <2>2, <2>4, <4>1, <4>2, InboxAssumption DEF FilesAt
      <4>4. f > 1
        BY <2>2, <2>7, <4>3
      <4>5. c \in Half(e)
        BY <2>2, <4>4 DEF Half
      <4> QED BY <2>4, <4>5 DEF FilesAt
    <3>3. \A i \in 1 .. FileCount : <<e, i>> \in store.files <=> i >= f
      <4>1. CASE c \in Half(e)
        BY <2>4, <4>1 DEF FilesAt
      <4>2. CASE c \notin Half(e)
        <5>1. f = 1
          BY <2>2, <4>2 DEF Half
        <5>2. \A i \in 1 .. FileCount : <<e, i>> \in store.files
          BY <2>4, <3>1, <3>2, <4>2 DEF FilesAt
        <5> QED BY <5>1, <5>2
      <4> QED BY <4>1, <4>2
    <3>4. /\ store'.files = store.files \ {<<e, f>>} /\ call'[c] \in Removes
          /\ call'[c].entry = e /\ call'[c].file = f + 1 /\ call'[c].op = "deleteEntry"
      BY <2>1, <2>4, <2>7, Fields
    <3>5. Half(m)' = {c}
      <4>1. c \in Half(m)'
        BY <2>2, <2>7, <3>4 DEF Half
      <4>2. ASSUME NEW d \in Half(m)', d # c PROVE FALSE
        BY <2>1, <2>7, <3>2, <4>2 DEF Half, Others
      <4> QED BY <4>1, <4>2
    <3>6. \A i \in 1 .. FileCount : <<m, i>> \in store'.files <=> i >= f + 1
      BY <2>2, <2>7, <3>3, <3>4
    <3>7. m \in Messages' /\ f + 1 <= FileCount + 1
      BY <2>1, <2>2, <2>7, <3>1, InboxAssumption
    <3> HIDE DEF f, Half, Messages
    <3> QED BY <3>4, <3>5, <3>6, <3>7 DEF FilesAt
  <2> QED BY <2>5, <2>6, <2>7
<1>19. ASSUME NEW c \in Clients, DeleteMessage(c)
      PROVE  FilesOf'
  <2> DEFINE e == call[c].entry
             f == call[c].file
  <2>1. /\ inbox' = inbox /\ store' = store /\ Others(c) /\ call[c] \in Removes
        /\ Stays \/ Lost
        /\ call'[c] = Idle
        /\ Stays => \/ e \notin Messages /\ Messages' = Messages
                    \/ e \in Messages /\ Messages' = Messages \ {e}
    <3>1. faults \in Nat
      BY InboxAssumption DEF ContainersInv, Shapes
    <3>2. ~(Stays /\ Lost)
      BY <3>1 DEF Stays, Lost
    <3> QED
      BY <1>19, <3>2, DoesDeleteMessage DEF ContainersInv, Answered, Kept, Goes,
         Messages
  <2>2. /\ call[c].op = "deleteEntry" /\ e \in Entries /\ f \in Nat \ {0}
        /\ f > FileCount /\ call'[c].op = "none"
    BY <1>19, <2>1, Fields DEF DeleteMessage
  <2>3. faults \in Nat
    BY InboxAssumption DEF ContainersInv, Shapes
  <2> SUFFICES ASSUME faults' = 0, Live(inbox)', NEW m \in Entries PROVE FilesAt(m)'
    BY DEF FilesOf
  <2>4. Stays /\ FilesAt(m) /\ FilesAt(e)
    BY <2>1, <2>2, <2>3 DEF FilesOf, Stays, Lost, Live
  <2>5. c \notin Half(m)'
    BY <2>2 DEF Half
  <2>6. CASE m # e
    <3>1. c \notin Half(m)
      BY <2>6 DEF Half
    <3>2. Half(m)' = Half(m) /\ \A d \in Half(m) : call'[d] = call[d]
      BY <2>1, <2>5, <3>1, HalfFrame
    <3>3. m \in Messages' <=> m \in Messages
      BY <2>1, <2>4, <2>6
    <3> QED BY <2>1, <2>4, <3>2, <3>3, FilesAtFrame
  <2>7. CASE m = e /\ e \notin Messages
    <3>1. c \notin Half(m)
      BY <2>4, <2>7 DEF FilesAt
    <3>2. Half(m)' = Half(m) /\ \A d \in Half(m) : call'[d] = call[d]
      BY <2>1, <2>5, <3>1, HalfFrame
    <3>3. m \in Messages' <=> m \in Messages
      BY <2>1, <2>4, <2>7
    <3> QED BY <2>1, <2>4, <3>2, <3>3, FilesAtFrame
  <2>8. CASE m = e /\ e \in Messages
    <3>1. \A i \in 1 .. FileCount : <<e, i>> \notin store.files
      <4>1. CASE c \in Half(e)
        BY <2>2, <2>4, <4>1, InboxAssumption DEF FilesAt
      <4>2. CASE c \notin Half(e)
        <5>1. FileCount = 0
          BY <2>2, <4>2, InboxAssumption DEF Half
        <5> QED BY <5>1
      <4> QED BY <4>1, <4>2
    <3>2. ASSUME NEW d \in Half(e) PROVE d = c
      <4>1. CASE c \in Half(e)
        BY <2>4, <4>1 DEF FilesAt
      <4>2. CASE c \notin Half(e)
        <5>1. FileCount = 0
          BY <2>2, <4>2, InboxAssumption DEF Half
        <5>2. d \in Clients /\ call[d].op = "deleteEntry" /\ call[d].file > 1
          BY DEF Half
        <5>3. call[d].file \in Nat
          BY <5>2, Tells, Fields DEF ContainersInv, Shapes
        <5>4. call[d].file <= FileCount + 1
          BY <2>4 DEF FilesAt
        <5> QED BY <5>1, <5>2, <5>3, <5>4
      <4> QED BY <4>1, <4>2
    <3>3. Half(m)' = {}
      BY <2>1, <2>5, <2>8, <3>2 DEF Half, Others
    <3>4. m \notin Messages' /\ \A i \in 1 .. FileCount : <<m, i>> \notin store'.files
      BY <2>1, <2>4, <2>8, <3>1
    <3> HIDE DEF Half, Messages
    <3> QED BY <3>3, <3>4 DEF FilesAt
  <2> QED BY <2>6, <2>7, <2>8
<1> QED
  BY <1>0, <1>1, <1>2, <1>3, <1>4, <1>5, <1>6, <1>7, <1>8, <1>9, <1>10, <1>11, <1>12,
     <1>13, <1>14, <1>15, <1>16, <1>17, <1>18, <1>19 DEF Next

(* Without a loss an entry of a living Inbox has all of its files or a     *)
(* deleteEntry is at work on it, for any number of files and of clients    *)
(* that delete it at the same time.                                        *)
THEOREM EntriesWholeAlways == Spec => []EntriesWhole
<1>1. Init => Sending /\ FilesOf
  BY DEF Init, Sending, FilesOf, Idle, Live
<1>2. ContainersInv /\ FilesOf => EntriesWhole
  <2> SUFFICES ASSUME FilesOf, faults = 0, Live(inbox), NEW e \in Messages, e \in Entries
               PROVE  \/ \E c \in Clients : call[c].op = "deleteEntry" /\ call[c].entry = e
                      \/ \A i \in 1..FileCount : <<e, i>> \in store.files
    BY DEF EntriesWhole, ContainersInv, Shapes
  <2> QED BY DEF FilesOf, FilesAt, Half
<1> QED BY <1>1, <1>2, ContainersAlways, SendingKept, FilesOfKept, PTL DEF Spec
=============================================================================
