------------------------------- MODULE Uploads -------------------------------
(***************************************************************************)
(* Uploads of files: FileWriteHandle with its ChunkBufferedStream and      *)
(* ChunkStreamer.  The bytes written are cut into chunks, each chunk is    *)
(* encrypted, and the encrypted bytes are cut again into the parts that    *)
(* are sent.  A file of a Store has a request of its own (createFile,      *)
(* updateFile) and is finished by closeFile; the files of an Inbox entry   *)
(* share the request of prepareEntry and are finished by sendEntry.        *)
(*                                                                         *)
(* One thread makes the calls.  Every request to the server is a step of   *)
(* the call that makes it, and may be lost before or after the server has  *)
(* taken it; the key of the Store may change between any two steps.  The   *)
(* user writes the bytes of a file in order, goes on after a call has      *)
(* failed, and may put a file handle into several entries, or twice into   *)
(* one.                                                                    *)
(***************************************************************************)
EXTENDS Integers, Sequences, FiniteSets, FiniteSetsExt, SequencesExt, TLC

CONSTANTS
  Files,           (* File handles.                                       *)
  StoreFiles,      (* Those of a Store; the others are of an Inbox.       *)
  Entries,         (* Inbox handles.                                      *)
  EntryFiles,      (* The lists of file handles given to prepareEntry.    *)
  FileSize,        (* The declared size of a file.                        *)
  ChunkSize,       (* _CHUNK_SIZE                                         *)
  PartSize,        (* serverRequestChunkSize                              *)
  Padding, Header, (* CHUNK_PADDING; HMAC_SIZE + IV_SIZE.                 *)
  Lengths,         (* How much one call writes.                           *)
  MaxRequests,     (* Bound: upload requests.                             *)
  MaxFaults,       (* Bound: requests and answers that are lost.          *)
  MaxSends,        (* Bound: how often an entry without files is sent.    *)
  MaxKey,          (* Bound: keys of the Store.                           *)
  None

ASSUME UploadsAssumption ==
  /\ StoreFiles \subseteq Files
  /\ EntryFiles \subseteq Seq(Files \ StoreFiles)
  /\ FileSize \in [Files -> Nat] /\ Lengths \subseteq Nat
  /\ {ChunkSize, PartSize, Padding} \subseteq Nat \ {0} /\ Header \in Nat
  /\ {MaxRequests, MaxFaults, MaxKey} \subseteq Nat
  /\ Files \cap Entries = {} /\ None \notin Files \cup Entries \cup Nat

VARIABLES
  file,      (* The file handles.                                         *)
  entry,     (* The inbox handles.                                        *)
  call,      (* The call under way.                                       *)
  request,   (* The upload requests on the server.                        *)
  stored,    (* The files and entries the server has made of them.        *)
  storeKey,  (* The current key of the Store.                             *)
  cachedKey, (* The key the client's cache has.                           *)
  outcome,   (* How the last call of a handle that did not go well ended, *)
             (* or its closeFile or sendEntry that did.                   *)
  faults,    (* Losses so far.                                            *)
  faulty     (* The handles that met one.                                 *)

keys == <<storeKey, cachedKey>>
losses == <<faults, faulty>>
vars == <<file, entry, call, request, stored, keys, outcome, losses>>

-----------------------------------------------------------------------------
(* Sizes, chunks and streams.                                              *)

\* The size of an encrypted chunk.
EncryptedSize(n) == n + (Padding - (n % Padding)) + Header

NumberOfChunks(size) == (size + ChunkSize - 1) \div ChunkSize

\* Wrong: a last chunk that is full counts as empty.
DeclaredSizeEmptyLast(size) ==
  IF size = 0 THEN 0
  ELSE (NumberOfChunks(size) - 1) * EncryptedSize(ChunkSize) + EncryptedSize(size % ChunkSize)

\* ChunkStreamer::getFileSize
DeclaredSize(size) ==
  LET last == IF size % ChunkSize = 0 THEN ChunkSize ELSE size % ChunkSize
  IN IF size = 0 THEN 0
     ELSE (NumberOfChunks(size) - 1) * EncryptedSize(ChunkSize) + EncryptedSize(last)

\* prepareChunk: an encrypted chunk, and its bytes.
PrepareChunk(key, seq, data) == [key |-> key, seq |-> seq, plain |-> data]

BytesOf(chunk) ==
  [k \in 1..EncryptedSize(Len(chunk.plain)) |-> <<chunk, k>>]

\* ChunkBufferedStream: how many full chunks it has, one of them, and what
\* freeFullChunks leaves.
NumberOfFullChunks(buf, size) == Len(buf) \div size

GetFullChunk(buf, size, i) == SubSeq(buf, i * size + 1, (i + 1) * size)

FreeFullChunks(buf, size) == SubSeq(buf, (Len(buf) \div size) * size + 1, Len(buf))

-----------------------------------------------------------------------------
(* The server's side of the requests.                                      *)

NewRequest(sizes) ==
  [i \in 1..Len(sizes) |-> [size |-> DeclaredSize(sizes[i]), data |-> <<>>, parts |-> 0,
                            chunks |-> NumberOfChunks(sizes[i]), sums |-> <<>>,
                            committed |-> FALSE]]

\* What the server has of the file g.
Sent(g) == request[g.request][g.index]

\* sendChunk is taken in order, up to the declared size.
TakesChunk(g, part) ==
  /\ g.request # None
  /\ ~Sent(g).committed /\ Sent(g).parts = g.serverSeq
  /\ Len(Sent(g).data) + Len(part) <= Sent(g).size

\* commitFile needs all of the declared bytes and checksums.
TakesCommit(g) ==
  /\ g.request # None
  /\ ~Sent(g).committed /\ Sent(g).parts = g.serverSeq
  /\ Len(Sent(g).data) = Sent(g).size /\ Len(g.sums) = Sent(g).chunks

\* A request makes files once, and all of its files.
TakesRequest(r, n) ==
  /\ r # None
  /\ \A k \in DOMAIN stored : stored[k].request # r
  /\ Len(request[r]) = n /\ \A i \in 1..n : request[r][i].committed

\* What the metadata of a file says of its content.
MetaOf(g) == [key |-> g.key, sums |-> g.sums, size |-> g.uploaded]

Created(by, r, fs) ==
  Append(stored, [by |-> by, request |-> r, files |-> fs,
                  metas |-> [i \in 1..Len(fs) |-> MetaOf(file[fs[i]])]])

-----------------------------------------------------------------------------
(* Calls.  op is the call and pc the place in it; f the file at work and,  *)
(* for an entry, at its number in the list; chunk and part are the loop    *)
(* counters, length the size of the chunk that is sent, and after where    *)
(* sendFullChunksWhileCollected returns to.                                *)

Idle == [pc |-> "idle", op |-> "none", f |-> None, e |-> None, at |-> 0, chunk |-> 0,
         part |-> 0, length |-> 0, after |-> "none", keyId |-> None, retried |-> FALSE]

Started(op, f, e, pc) == [Idle EXCEPT !.op = op, !.f = f, !.e = e, !.at = 1, !.pc = pc]

\* The handle of the call, and the files it is about.
Caller == IF call.op = "send" THEN call.e ELSE call.f

Concerned == IF call.op = "send" THEN Range(entry[call.e].files) ELSE {call.f}

\* Whether a request or its answer is lost.
Losses == {"no"} \cup (IF faults < MaxFaults THEN {"request", "answer"} ELSE {})

CountLoss(lost) ==
  /\ faults' = faults + (IF lost = "no" THEN 0 ELSE 1)
  /\ faulty' = IF lost = "no" THEN faulty ELSE faulty \cup Concerned

\* The call throws; g is what it leaves of its file.  torn: a writeToFile threw after it
\* had taken its bytes.
Throw(g, error) ==
  /\ call' = Idle
  /\ outcome' = [outcome EXCEPT ![Caller] = error]
  /\ file' = [file EXCEPT ![call.f] = [g EXCEPT !.torn = @ \/ call.op = "write"]]

\* The call goes on with g as its file.
Continue(g, next) ==
  /\ call' = next
  /\ file' = [file EXCEPT ![call.f] = g]
  /\ UNCHANGED outcome

\* A request that the server takes or not, and that is lost or not; the server makes s of
\* what it has of the file.
Request(takes, lost, s, before, after, next) ==
  /\ request' = IF takes /\ lost # "request"
                THEN [request EXCEPT ![before.request][before.index] = s] ELSE request
  /\ CountLoss(lost)
  /\ \/ /\ takes /\ lost = "no"
        /\ Continue(after, next)
     \/ /\ ~takes \/ lost # "no"
        /\ Throw(before, IF lost = "no" THEN "refused" ELSE "lost")
  /\ UNCHANGED <<entry, stored, keys>>

-----------------------------------------------------------------------------
(* ChunkStreamer: chunks are encrypted into a stream, parts of it are sent. *)

\* Wrong: the number of the chunk is never counted.
ChunkSentSameSeq(g, length) == [g EXCEPT !.processed = @ + length]

\* The end of prepareAndSendChunk.
ChunkSent(g, length) == [g EXCEPT !.processed = @ + length, !.seq = @ + 1]

\* sendChunk and finalize up to the loop of sendFullChunksWhileCollected.  early: the file
\* was in no entry yet, its chunk has a key that no entry has.
PrepareAndSendChunk(g, data, after) ==
  LET counted == [g EXCEPT !.uploaded = @ + Len(data)]
      chunk   == PrepareChunk(g.key, g.seq, data)
  IN /\ \/ /\ g.processed + Len(data) > FileSize[call.f]
           /\ Throw(counted, "size")
        \/ /\ g.processed + Len(data) <= FileSize[call.f]
           /\ Continue([counted EXCEPT !.sums = Append(@, chunk),
                                       !.encrypted = @ \o BytesOf(chunk),
                                       !.early = @ \/ g.request = None],
                       [call EXCEPT !.pc = "parts", !.part = 0, !.length = Len(data),
                                    !.after = after])
     /\ UNCHANGED <<entry, request, stored, keys, losses>>

\* sendChunkToServer
SendChunkToServer(g, data, lost, next) ==
  Request(TakesChunk(g, data), lost, [Sent(g) EXCEPT !.data = @ \o data, !.parts = @ + 1],
          g, [g EXCEPT !.serverSeq = @ + 1], next)

\* sendFullChunksWhileCollected, one part.
SendPart(lost) ==
  LET g == file[call.f]
  IN /\ call.pc = "parts"
     /\ call.part < NumberOfFullChunks(g.encrypted, PartSize)
     /\ SendChunkToServer(g, GetFullChunk(g.encrypted, PartSize, call.part), lost,
                          [call EXCEPT !.part = @ + 1])

\* sendFullChunksWhileCollected ends.
PartsSent ==
  LET g    == file[call.f]
      free == [g EXCEPT !.encrypted = FreeFullChunks(@, PartSize)]
  IN /\ call.pc = "parts"
     /\ call.part >= NumberOfFullChunks(g.encrypted, PartSize)
     /\ Continue(IF call.after = "last" THEN free ELSE ChunkSent(free, call.length),
                 [call EXCEPT !.pc = call.after, !.part = 0,
                              !.chunk = IF call.after = "write" THEN @ + 1 ELSE @])
     /\ UNCHANGED <<entry, request, stored, keys, losses>>

\* FileWriteHandle::finalize and ChunkStreamer::finalize up to the check of the size.
Finalize ==
  LET g    == file[call.f]
      last == SubSeq(g.buf, 1, Min({Len(g.buf), ChunkSize}))
      rest == [g EXCEPT !.buf = SubSeq(@, Len(last) + 1, Len(@))]
  IN /\ call.pc = "finalize"
     /\ IF g.total # FileSize[call.f]
        THEN /\ Throw(g, "different")
             /\ UNCHANGED <<entry, request, stored, keys, losses>>
        ELSE IF last # <<>> THEN PrepareAndSendChunk(rest, last, "check")
        ELSE /\ Continue(rest, [call EXCEPT !.pc = "check"])
             /\ UNCHANGED <<entry, request, stored, keys, losses>>

\* ChunkStreamer::finalize: the size of the last chunk is counted twice.
CheckSize ==
  LET g == file[call.f]
  IN /\ call.pc = "check"
     /\ \/ /\ g.uploaded + call.length < FileSize[call.f]
           /\ Throw(g, "smaller")
        \/ /\ g.uploaded + call.length >= FileSize[call.f]
           /\ Continue(g, [call EXCEPT !.pc = "parts", !.after = "last"])
     /\ UNCHANGED <<entry, request, stored, keys, losses>>

\* sendLastChunkIfNonEmpty takes the part out of the stream before it is sent.
SendLast(lost) ==
  LET g == file[call.f]
  IN /\ call.pc = "last" /\ g.encrypted # <<>>
     /\ SendChunkToServer([g EXCEPT !.encrypted = <<>>], g.encrypted, lost, call)

\* After commitFile: closeFile needs the key of the Store, sendEntry goes to its next file.
Committed ==
  LET fs == entry[call.e].files
      go == [call EXCEPT !.length = 0, !.after = "none"]
  IN IF call.op = "close"
     THEN IF file[call.f].update \/ cachedKey = None THEN [go EXCEPT !.pc = "fetch"]
          ELSE [go EXCEPT !.pc = "sendFile", !.keyId = cachedKey]
     ELSE IF call.at = Len(fs) THEN [go EXCEPT !.pc = "release"]
     ELSE [go EXCEPT !.pc = "finalize", !.at = @ + 1, !.f = fs[call.at + 1]]

CommitFile(lost) ==
  LET g == file[call.f]
  IN /\ call.pc = "last" /\ g.encrypted = <<>>
     /\ Request(TakesCommit(g), lost, [Sent(g) EXCEPT !.committed = TRUE, !.sums = g.sums],
                g, g, Committed)

-----------------------------------------------------------------------------
(* Writing.                                                                *)

NewFile ==
  [state |-> "open", buf |-> <<>>, total |-> 0, key |-> None, request |-> None,
   index |-> 0, seq |-> 0, sums |-> <<>>, encrypted |-> <<>>, processed |-> 0,
   uploaded |-> 0, serverSeq |-> 0, update |-> FALSE, began |-> 0, early |-> FALSE,
   torn |-> FALSE]

\* ChunkBufferedStream::write
Write(f, len) ==
  LET g    == file[f]
      data == [k \in 1..len |-> <<f, g.total + k>>]
  IN /\ call = Idle /\ g.state = "open"
     /\ \/ /\ g.total + len > FileSize[f]
           /\ outcome' = [outcome EXCEPT ![f] = "bigger"]
           /\ UNCHANGED <<file, call>>
        \/ /\ g.total + len <= FileSize[f]
           /\ file' = [file EXCEPT ![f].buf = @ \o data, ![f].total = @ + len]
           /\ call' = Started("write", f, None, "write")
           /\ UNCHANGED outcome
     /\ UNCHANGED <<entry, request, stored, keys, losses>>

\* FileWriteHandle::write, one full chunk.
WriteChunk ==
  LET g == file[call.f]
  IN /\ call.pc = "write"
     /\ call.chunk < NumberOfFullChunks(g.buf, ChunkSize)
     /\ PrepareAndSendChunk(g, GetFullChunk(g.buf, ChunkSize, call.chunk), "write")

\* The full chunks are freed when all of them went out.
WriteEnds ==
  LET g == file[call.f]
  IN /\ call.pc = "write"
     /\ call.chunk >= NumberOfFullChunks(g.buf, ChunkSize)
     /\ Continue([g EXCEPT !.buf = FreeFullChunks(@, ChunkSize)], Idle)
     /\ UNCHANGED <<entry, request, stored, keys, losses>>

-----------------------------------------------------------------------------
(* Files of a Store.                                                       *)

\* createFile and updateFile.
CreateFile(f, update) ==
  LET r == Len(request) + 1
  IN /\ call = Idle /\ file[f].state = "none" /\ f \in StoreFiles
     /\ Len(request) < MaxRequests
     /\ request' = Append(request, NewRequest(<<FileSize[f]>>))
     /\ file' = [file EXCEPT ![f] = [NewFile EXCEPT !.request = r, !.index = 1,
                                                    !.key = <<r, 1>>, !.update = update]]
     /\ UNCHANGED <<entry, call, stored, keys, outcome, losses>>

WriteToFile(f, len) == f \in StoreFiles /\ Write(f, len)

\* closeFile: the handle is gone before anything is sent.
CloseFile(f) ==
  /\ call = Idle /\ f \in StoreFiles /\ file[f].state = "open"
  /\ file' = [file EXCEPT ![f].state = "gone", ![f].began = storeKey]
  /\ call' = Started("close", f, None, "finalize")
  /\ UNCHANGED <<entry, request, stored, keys, outcome, losses>>

\* The current key of the Store is read: storeFileGet, or storeGet.
FetchKey(lost) ==
  /\ call.pc = "fetch"
  /\ CountLoss(lost)
  /\ \/ /\ lost = "no"
        /\ cachedKey' = storeKey
        /\ Continue(file[call.f], [call EXCEPT !.pc = "sendFile", !.keyId = storeKey])
     \/ /\ lost # "no"
        /\ Throw(file[call.f], "lost")
        /\ UNCHANGED cachedKey
  /\ UNCHANGED <<entry, request, stored, storeKey>>

\* Wrong: the first answer counts.
NeverRetries(g) == FALSE

\* A new file is tried a second time when its key is not the current one.
Retries(g) == ~g.update /\ ~call.retried

\* storeFileFinalizeWriteRequest and the handler of InvalidKey around it.
SendFile(lost) ==
  LET g     == file[call.f]
      fresh == call.keyId = storeKey
      takes == fresh /\ TakesRequest(g.request, 1)
  IN /\ call.pc = "sendFile"
     /\ stored' = IF takes /\ lost # "request" THEN Created(call.f, g.request, <<call.f>>)
                  ELSE stored
     /\ CountLoss(lost)
     /\ \/ /\ lost = "no" /\ ~fresh /\ Retries(g)
           /\ Continue(g, [call EXCEPT !.pc = "fetch", !.retried = TRUE])
        \/ /\ lost # "no" \/ fresh \/ ~Retries(g)
           /\ Throw(g, IF lost # "no" THEN "lost" ELSE IF takes THEN "stored"
                       ELSE IF fresh THEN "refused" ELSE "InvalidKey")
     /\ UNCHANGED <<entry, request, keys>>

\* Another client changes the members of the Store.
RotateKey ==
  /\ storeKey < MaxKey
  /\ storeKey' = storeKey + 1
  /\ UNCHANGED <<file, entry, call, request, stored, cachedKey, outcome, losses>>

-----------------------------------------------------------------------------
(* Entries of an Inbox.                                                    *)

CreateFileHandle(f) ==
  /\ call = Idle /\ file[f].state = "none" /\ f \notin StoreFiles
  /\ file' = [file EXCEPT ![f] = NewFile]
  /\ UNCHANGED <<entry, call, request, stored, keys, outcome, losses>>

\* setRequestData: only the request, the key and the index are new.
SetRequestData(g, r, i) == [g EXCEPT !.request = r, !.index = i, !.key = <<r, i>>]

\* prepareEntry: nothing says that a file handle is in another entry already.
PrepareEntry(e, fs) ==
  LET r     == Len(request) + 1
      at(f) == Max({k \in DOMAIN fs : fs[k] = f})
  IN /\ call = Idle /\ entry[e].state = "none"
     /\ \A f \in Range(fs) : file[f].state = "open"
     /\ fs # <<>> => Len(request) < MaxRequests
     /\ request' = IF fs = <<>> THEN request
                   ELSE Append(request, NewRequest([i \in DOMAIN fs |-> FileSize[fs[i]]]))
     /\ file' = [f \in Files |-> IF f \in Range(fs) THEN SetRequestData(file[f], r, at(f))
                                 ELSE file[f]]
     /\ entry' = [entry EXCEPT ![e] = [state |-> "open", files |-> fs]]
     /\ UNCHANGED <<call, stored, keys, outcome, losses>>

\* Any entry with files will do, not only the one the file is in.
WriteToEntryFile(e, f, len) ==
  /\ entry[e].state = "open" /\ entry[e].files # <<>>
  /\ f \notin StoreFiles
  /\ Write(f, len)

\* The places of a list whose handle is not there when its turn to be removed comes.
Missing(fs) ==
  {i \in DOMAIN fs : file[fs[i]].state # "open" \/ \E j \in 1..(i - 1) : fs[j] = fs[i]}

\* The file handles of an entry are removed up to the first that is not there.
RemoveFileHandles(fs) ==
  LET removed == {fs[i] : i \in {i \in DOMAIN fs : \A j \in Missing(fs) : i < j}}
  IN file' = [f \in Files |-> IF f \in removed THEN [file[f] EXCEPT !.state = "gone"] ELSE file[f]]

\* Wrong: each file is looked at when its turn comes.
ReadyOneByOne(fs) == TRUE

\* The first loop of commitInboxHandle.
AllReady(fs) == \A f \in Range(fs) : file[f].total = FileSize[f]

\* sendEntry of an entry with files, up to the first loop of commitInboxHandle:
\* nothing is sent unless all of the files are complete.
SendEntry(e) ==
  LET fs == entry[e].files
  IN /\ call = Idle /\ entry[e].state = "open" /\ fs # <<>>
     /\ \/ /\ AllReady(fs)
           /\ call' = Started("send", fs[1], e, "finalize")
           /\ UNCHANGED <<file, entry, outcome>>
        \/ /\ ~AllReady(fs)
           /\ entry' = [entry EXCEPT ![e].state = "gone"]
           /\ RemoveFileHandles(fs)
           /\ outcome' = [outcome EXCEPT ![e] = IF Missing(fs) = {} THEN "different" ELSE "handle"]
           /\ UNCHANGED call
     /\ UNCHANGED <<request, stored, keys, losses>>

\* The end of commitInboxHandle, when all of the files are finished.
ReleaseHandles ==
  LET fs == entry[call.e].files
  IN /\ call.pc = "release"
     /\ entry' = [entry EXCEPT ![call.e].state = "gone"]
     /\ RemoveFileHandles(fs)
     /\ \/ /\ Missing(fs) = {}
           /\ call' = [call EXCEPT !.pc = "send"]
           /\ UNCHANGED outcome
        \/ /\ Missing(fs) # {}
           /\ call' = Idle
           /\ outcome' = [outcome EXCEPT ![call.e] = "handle"]
     /\ UNCHANGED <<request, stored, keys, losses>>

\* inboxSend with the request of the first file.  The entry cannot be sent again.
InboxSend(lost) ==
  LET fs    == entry[call.e].files
      r     == file[fs[1]].request
      takes == TakesRequest(r, Len(fs))
  IN /\ call.pc = "send"
     /\ stored' = IF takes /\ lost # "request" THEN Created(call.e, r, fs) ELSE stored
     /\ CountLoss(lost)
     /\ Throw(file[call.f], IF lost # "no" THEN "lost" ELSE IF takes THEN "stored" ELSE "refused")
     /\ UNCHANGED <<entry, request, keys>>

\* An entry without files: the inbox handle stays.
SendText(e, lost) ==
  /\ call = Idle /\ entry[e].state = "open" /\ entry[e].files = <<>>
  /\ Cardinality({k \in DOMAIN stored : stored[k].by = e}) < MaxSends
  /\ stored' = IF lost = "request" THEN stored ELSE Created(e, None, <<>>)
  /\ outcome' = [outcome EXCEPT ![e] = IF lost = "no" THEN "stored" ELSE "lost"]
  /\ faults' = faults + (IF lost = "no" THEN 0 ELSE 1)
  /\ UNCHANGED <<file, entry, call, request, keys, faulty>>

-----------------------------------------------------------------------------
Init ==
  /\ file = [f \in Files |-> [NewFile EXCEPT !.state = "none"]]
  /\ entry = [e \in Entries |-> [state |-> "none", files |-> <<>>]]
  /\ call = Idle
  /\ request = <<>> /\ stored = <<>>
  /\ storeKey = 0 /\ cachedKey \in {None, 0}
  /\ outcome = [x \in Files \cup Entries |-> "none"]
  /\ faults = 0 /\ faulty = {}

\* Calls begin.
Begin ==
  \/ \E f \in Files :
       \/ \E update \in BOOLEAN : CreateFile(f, update)
       \/ \E len \in Lengths : WriteToFile(f, len)
       \/ CloseFile(f)
       \/ CreateFileHandle(f)
  \/ \E e \in Entries :
       \/ \E fs \in EntryFiles : PrepareEntry(e, fs)
       \/ \E f \in Files, len \in Lengths : WriteToEntryFile(e, f, len)
       \/ SendEntry(e)
       \/ \E lost \in Losses : SendText(e, lost)

\* The call under way goes on.
Step ==
  \/ WriteChunk \/ WriteEnds \/ PartsSent \/ Finalize \/ CheckSize \/ ReleaseHandles
  \/ \E lost \in Losses : SendPart(lost)
  \/ \E lost \in Losses : SendLast(lost)
  \/ \E lost \in Losses : CommitFile(lost)
  \/ \E lost \in Losses : FetchKey(lost)
  \/ \E lost \in Losses : SendFile(lost)
  \/ \E lost \in Losses : InboxSend(lost)

Next == Begin \/ Step \/ RotateKey

Spec == Init /\ [][Next]_vars

-----------------------------------------------------------------------------
\* The variables have their types.
TypeOK ==
  /\ \A f \in Files :
       /\ file[f].state \in {"none", "open", "gone"}
       /\ {file[f].total, file[f].processed} \subseteq 0..FileSize[f]
       /\ file[f].request \in 1..Len(request) \cup {None}
  /\ \A e \in Entries :
       entry[e].state \in {"none", "open", "gone"} /\ entry[e].files \in EntryFiles \cup {<<>>}
  /\ call.f \in Files \cup {None} /\ call.e \in Entries \cup {None}
  /\ Len(request) <= MaxRequests
  /\ storeKey \in 0..MaxKey /\ cachedKey \in 0..storeKey \cup {None}
  /\ faults \in 0..MaxFaults /\ faulty \subseteq Files

\* In several entries, or twice in one, or chunks of it made before it was in any.
Misused(f) ==
  \/ file[f].early
  \/ \E d, e \in Entries : \E i \in DOMAIN entry[d].files, j \in DOMAIN entry[e].files :
       <<d, i>> # <<e, j>> /\ entry[d].files[i] = f /\ entry[e].files[j] = f

\* What ChunkReader makes of a content with the metadata: the bytes, or None.
ReadBack(content, meta) ==
  LET size     == EncryptedSize(ChunkSize)
      piece(i) == SubSeq(content.data, (i - 1) * size + 1, Min({i * size, Len(content.data)}))
      opens    == \A i \in DOMAIN meta.sums : /\ piece(i) = BytesOf(meta.sums[i])
                                              /\ meta.sums[i].key = meta.key
                                              /\ meta.sums[i].seq = i - 1
      fits     == /\ Len(content.data) = DeclaredSize(meta.size)
                  /\ Len(meta.sums) = NumberOfChunks(meta.size)
      plain(n) == meta.sums[(n - 1) \div ChunkSize + 1].plain[((n - 1) % ChunkSize) + 1]
  IN IF content.sums = meta.sums /\ opens /\ fits THEN [n \in 1..meta.size |-> plain(n)] ELSE None

Given(f) == [n \in 1..FileSize[f] |-> <<f, n>>]

\* Whatever was lost and whatever was tried again, a file that the server has made, of a
\* Store or of an entry, is read back as the bytes that were given to writeToFile, all of
\* them and in their order: unless a writeToFile of it threw and it was finished all the
\* same, or a file of its entry was misused.
CreatedIsGiven ==
  \A k \in DOMAIN stored :
    (\A i \in DOMAIN stored[k].files : ~Misused(stored[k].files[i])) =>
      \A i \in DOMAIN stored[k].files :
        LET f == stored[k].files[i]
        IN file[f].torn \/ ReadBack(request[stored[k].request][i], stored[k].metas[i]) = Given(f)

\* Types, and files that are what was given.
CreatedInv == TypeOK /\ CreatedIsGiven

\* The sizes declared by createRequest are the sizes sent: a file or an entry that
\* met no loss, and whose files are not misused, is never refused by the server, whatever
\* the sizes of the file, of the writes, of the chunks and of the parts.
AcceptedUnlessLost ==
  \A x \in Files \cup Entries : outcome[x] \in {"refused", "smaller", "size", "handle"} =>
    \E f \in (IF x \in Files THEN {x} ELSE Range(entry[x].files)) : f \in faulty \/ Misused(f)

\* A file is refused for its key only if the key changed while closeFile ran.
RefusedOnlyByRotation ==
  \A f \in Files : outcome[f] = "InvalidKey" => file[f].began < storeKey

\* An entry is refused as a whole: when one of its files is not complete, sendEntry has
\* finished none of them on the server, also after a sendEntry that failed half way.
IncompleteCommitsNothing ==
  \A e \in Entries : outcome[e] = "different" =>
    \A f \in Range(entry[e].files) :
      Misused(f) \/ ~Sent(file[f]).committed
=============================================================================
