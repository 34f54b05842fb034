------------------------------ MODULE StoreFile ------------------------------
(***************************************************************************)
(* A file of a Store as handles see it: FileReadHandle for a file written  *)
(* once, FileReadWriteHandle (FileHandler) for a random-write file.  The   *)
(* server keeps encrypted chunks, one checksum per chunk, and metadata     *)
(* with the plain size, the key and the HMAC of all checksums.  A handle   *)
(* keeps the checksums (HmacList), one chunk of a server read              *)
(* (ChunkDataProvider), one decrypted chunk (ChunkReader), and the version *)
(* it has seen; the server refuses data reads and random writes of another *)
(* version.                                                                *)
(*                                                                         *)
(* Handles belong to one client or to several; a handle is used by one     *)
(* thread.  A call that makes two requests is two actions, so that another *)
(* handle's write falls between them.  Several data reads of one call are  *)
(* one action: all of them name the same version.  An encrypted chunk is a *)
(* record of what it was made from, which stands for its HMAC as well; the *)
(* byte a write puts at position k is 10 * version + k.                    *)
(***************************************************************************)
EXTENDS Integers, Sequences, FiniteSets, FiniteSetsExt, SequencesExt, TLC

CONSTANTS
  Handles,
  PlainChunk,      (* _plainChunkSize: bytes of a chunk.                  *)
  Padding, Header, (* CHUNK_PADDING; HMAC_SIZE + IV_SIZE.                 *)
  ServerSlots,     (* Encrypted chunks in one server read.                *)
  OperationLimit,  (* SERVER_OPERATION_SIZE_LIMIT                         *)
  OperationsLimit, (* SERVER_OPERATIONS_LIMIT >> 1                        *)
  Sizes,           (* Sizes of a file that is uploaded.                   *)
  Positions,       (* Positions a handle is moved to.                     *)
  Lengths,         (* Lengths of reads and writes.                        *)
  MaxSize,         (* Bound: a file, and a position in it.                *)
  MaxVersion,      (* Bound: versions of the file.                        *)
  SplitWrites      (* Bound: whether a write may take several requests,   *)
                   (* or several operations with a chunk behind them.     *)

ASSUME StoreFileAssumption ==
  /\ {PlainChunk, Padding, ServerSlots, OperationsLimit, MaxVersion} \subseteq Nat \ {0}
  /\ {Header, OperationLimit, MaxSize} \subseteq Nat
  /\ (Sizes \cup Positions) \subseteq 0..MaxSize /\ Lengths \subseteq Nat
  /\ SplitWrites \in BOOLEAN

VARIABLES
  server,   (* The file on the server.                                    *)
  handle,   (* The handles.                                               *)
  metaCall, (* The metadata an updateFileMeta call has read.              *)
  broken,   (* Why the file on the server cannot be read any more.        *)
  hist,     (* The contents of all versions: a history variable.          *)
  out       (* What the last call returned: a history variable.           *)

vars == <<server, handle, metaCall, broken, hist, out>>

None == -1
Zero == 0

-----------------------------------------------------------------------------
(* Chunks and their sizes.                                                 *)

EncryptedSize(n) == n + (Padding - (n % Padding)) + Header

EncryptedChunk == EncryptedSize(PlainChunk)

GetEncryptedFileSize(n) ==
  LET last == ((n - 1) % PlainChunk) + 1
  IN IF n = 0 THEN 0
     ELSE ((n - 1) \div PlainChunk) * EncryptedChunk + EncryptedSize(last)

SizeOf(chunks) == FoldLeft(LAMBDA acc, c : acc + EncryptedSize(Len(c.plain)), 0, chunks)

PlainOf(chunks) == FlattenSeq([i \in 1..Len(chunks) |-> chunks[i].plain])

Encrypt(key, index, nonce, plain) == [key |-> key, index |-> index, nonce |-> nonce, plain |-> plain]

\* hmacSha256 of all checksums under the key of the file.
TopHash(key, hashes) == [key |-> key, hashes |-> hashes]

\* A file uploaded as a whole (FileWriteHandle): its chunks are all full but the last.
Uploaded(key, content) ==
  LET n      == (Len(content) + PlainChunk - 1) \div PlainChunk
      chunks == [i \in 1..n |-> Encrypt(key, i - 1, <<"upload", key>>,
                   SubSeq(content, (i - 1) * PlainChunk + 1, Min({i * PlainChunk, Len(content)})))]
  IN [chunks |-> chunks, sums |-> chunks,
      meta |-> [size |-> Len(content), key |-> key, top |-> TopHash(key, chunks)]]

Bytes(version, len) == SubSeq([k \in 1..len |-> 10 * version + k], 1, len)

-----------------------------------------------------------------------------
(* The server's side of the requests.                                      *)

\* requestServerChunk: the encrypted chunks of one server read.
ServerChunk(n) ==
  SubSeq(server.chunks, n * ServerSlots + 1, Min({(n + 1) * ServerSlots, Len(server.chunks)}))

\* One operation of a random write: data at a chunk's position, and what follows
\* it is cut when the operation says so.
WriteAt(s, at, data, truncate) ==
  SubSeq(s, 1, at) \o data
    \o (IF truncate THEN <<>> ELSE SubSeq(s, at + Len(data) + 1, Len(s)))

-----------------------------------------------------------------------------
(* ChunkDataProvider, HmacList, ChunkEncryptor and ChunkReader of a handle. *)

\* The chunk numbered i in a server read, no chunk beyond its end.
SlotOf(s, i) == LET k == i % ServerSlots IN IF k < Len(s) THEN <<s[k + 1]>> ELSE <<>>

\* ChunkDataProvider::getChunk
GetChunk(f, i, version) ==
  LET g == IF f.dataVersion = version THEN f
           ELSE [f EXCEPT !.dataVersion = version, !.serverChunkNumber = None]
      n == i \div ServerSlots
      hit == g.serverChunkNumber = n
      now == IF hit THEN g
             ELSE [g EXCEPT !.serverChunkNumber = n, !.serverChunk = ServerChunk(n)]
  IN IF ~hit /\ version # server.version
     THEN [f |-> g, error |-> "version", chunk |-> <<>>]
     ELSE [f |-> now, error |-> "", chunk |-> SlotOf(now.serverChunk, i)]

\* ChunkEncryptor::decrypt with the hash HmacList::getHash returns: whether it succeeds.
Decrypts(f, i, chunk) ==
  /\ chunk # <<>>
  /\ i < Len(f.hashes) /\ f.hashes[i + 1] = chunk[1]
  /\ chunk[1].key = f.key /\ chunk[1].index = i

\* ChunkDataProvider::update
UpdateData(f, version, i, chunk, truncate) ==
  LET k   == i % ServerSlots
      old == f.serverChunk
      new == SubSeq(old, 1, Min({k, Len(old)})) \o <<chunk>>
               \o (IF truncate THEN <<>> ELSE SubSeq(old, k + 2, Len(old)))
  IN [f EXCEPT !.dataVersion = version,
               !.serverChunk = IF f.serverChunkNumber = i \div ServerSlots THEN new ELSE @]

\* Wrong: the decrypted chunk stays when its chunk is written.
UpdateReaderKeeps(f, version, i) == [f EXCEPT !.readVersion = version]

\* ChunkReader::update
UpdateReader(f, version, i) ==
  [f EXCEPT !.readVersion = version, !.lastIndex = IF @ = i THEN None ELSE @]

\* Wrong: a truncating write leaves the checksums behind it.
SetHashNoTruncate(hashes, i, hash, truncate) ==
  IF i < Len(hashes) THEN WriteAt(hashes, i, <<hash>>, FALSE) ELSE Append(hashes, hash)

\* HmacList::set
SetHash(hashes, i, hash, truncate) ==
  IF i < Len(hashes) THEN WriteAt(hashes, i, <<hash>>, truncate) ELSE Append(hashes, hash)

\* ChunkReader::getDecryptedChunk, one step of the loop of read().
GetDecryptedChunk(acc, i) ==
  LET with(got) ==
        IF got.error # "" THEN [acc EXCEPT !.f = got.f, !.error = got.error]
        ELSE IF ~Decrypts(got.f, i, got.chunk) THEN [acc EXCEPT !.f = got.f, !.error = "corrupted"]
        ELSE [acc EXCEPT !.f = [got.f EXCEPT !.lastIndex = i, !.lastChunk = got.chunk[1].plain],
                         !.data = @ \o got.chunk[1].plain]
  IN IF acc.error # "" THEN acc
     ELSE IF acc.f.lastIndex = i THEN [acc EXCEPT !.data = @ \o acc.f.lastChunk]
     ELSE with(GetChunk(acc.f, i, acc.f.readVersion))

Indexes(from, to) == [k \in 1..(to - from + 1) |-> from + k - 1]

-----------------------------------------------------------------------------
(* Opening, syncing and closing a handle.                                  *)

Closed == [state |-> "closed"]

Fail(h, why) == out' = [op |-> "fail", h |-> h, why |-> why]

\* What openFile and syncFile read first: storeFileGet.
FileGet == [meta |-> server.meta, version |-> server.version, size |-> SizeOf(server.chunks)]

\* openFile up to the answer of storeFileGet.
OpenBegin(h) ==
  /\ handle[h].state = "closed"
  /\ handle' = [handle EXCEPT ![h] = [state |-> "opening", got |-> FileGet]]
  /\ out' = [op |-> "begin"]
  /\ UNCHANGED <<server, metaCall, broken, hist>>

\* The constructors: a handle made of the answer of storeFileGet and the checksums.
NewHandle(got) ==
  [state |-> "open", key |-> got.meta.key, hashKey |-> got.meta.key, hashes |-> server.sums,
   version |-> got.version, size |-> got.meta.size, encryptedSize |-> got.size,
   meta |-> got.meta,
   dataVersion |-> got.version, serverChunkNumber |-> None, serverChunk |-> <<>>,
   readVersion |-> got.version, lastIndex |-> None, lastChunk |-> <<>>,
   readPos |-> 0, writePos |-> 0]

\* The checks of the constructors: the top hash and the size.
Opens(got) ==
  /\ got.meta.top = TopHash(got.meta.key, server.sums)
  /\ got.size = GetEncryptedFileSize(got.meta.size) \/ got.meta.size = 0

\* openFile from the request for the checksums on.
OpenEnd(h) ==
  /\ handle[h].state = "opening"
  /\ IF Opens(handle[h].got)
     THEN /\ handle' = [handle EXCEPT ![h] = NewHandle(handle[h].got)]
          /\ out' = [op |-> "look"]
     ELSE /\ handle' = [handle EXCEPT ![h] = Closed]
          /\ Fail(h, "open")
  /\ UNCHANGED <<server, metaCall, broken, hist>>

\* syncFile up to the answer of storeFileGet.
SyncBegin(h) ==
  /\ handle[h].state = "open"
  /\ handle' = [handle EXCEPT ![h] = [state |-> "syncing", got |-> FileGet] @@ @]
  /\ out' = [op |-> "begin"]
  /\ UNCHANGED <<server, metaCall, broken, hist>>

Without(f, field) == [x \in DOMAIN f \ {field} |-> f[x]]

Idle(f, field) == [Without(f, field) EXCEPT !.state = "open"]

\* What both kinds of handle take over from the answers.
Synced(f, got) ==
  [f EXCEPT !.hashes = server.sums, !.hashKey = got.meta.key,
            !.readVersion = got.version, !.lastIndex = None, !.lastChunk = <<>>,
            !.version = got.version, !.size = got.meta.size]

\* ChunkDataProvider::sync
SyncData(f, version) ==
  [f EXCEPT !.serverChunkNumber = IF f.dataVersion < version THEN None ELSE @,
            !.dataVersion = version]

\* FileHandler::sync; the provider is given the version from before.
SyncReadWrite(h) ==
  LET f   == Idle(handle[h], "got")
      got == handle[h].got
  IN
  /\ server.randomWrite /\ handle[h].state = "syncing"
  /\ IF got.meta.top = TopHash(got.meta.key, server.sums)
     THEN /\ handle' = [handle EXCEPT ![h] =
               [Synced(SyncData(f, f.version), got) EXCEPT
                  !.meta = got.meta, !.encryptedSize = got.size]]
          /\ out' = [op |-> "look"]
     ELSE /\ handle' = [handle EXCEPT ![h] = f]
          /\ Fail(h, "hash")
  /\ UNCHANGED <<server, metaCall, broken, hist>>

\* FileReadHandle::sync; the encryptor takes the new key before the checksums are
\* verified, and a file whose size is wrong closes the handle.
SyncRead(h) ==
  LET f   == Idle(handle[h], "got")
      got == handle[h].got
      key == [f EXCEPT !.key = got.meta.key]
  IN
  /\ ~server.randomWrite /\ handle[h].state = "syncing"
  /\ \/ /\ got.size # GetEncryptedFileSize(got.meta.size)
        /\ handle' = [handle EXCEPT ![h] = Closed]
        /\ out' = [op |-> "close"]
     \/ /\ got.size = GetEncryptedFileSize(got.meta.size)
        /\ got.meta.top # TopHash(got.meta.key, server.sums)
        /\ handle' = [handle EXCEPT ![h] = key]
        /\ Fail(h, "hash")
     \/ /\ got.size = GetEncryptedFileSize(got.meta.size)
        /\ got.meta.top = TopHash(got.meta.key, server.sums)
        /\ handle' = [handle EXCEPT ![h] = Synced(SyncData(key, got.version), got)]
        /\ out' = [op |-> "look"]
  /\ UNCHANGED <<server, metaCall, broken, hist>>

\* closeFile of either kind.
CloseFile(h) ==
  /\ handle[h].state = "open"
  /\ handle' = [handle EXCEPT ![h] = Closed]
  /\ out' = [op |-> "close"]
  /\ UNCHANGED <<server, metaCall, broken, hist>>

-----------------------------------------------------------------------------
(* Moving, reading.                                                        *)

\* seekInFile: both positions of a FileHandlerImpl, up to the end; the position of a
\* FileReadHandle, below the end.
SeekInFile(h, pos) ==
  /\ handle[h].state = "open"
  /\ IF server.randomWrite THEN pos <= handle[h].size ELSE pos < handle[h].size
  /\ handle' = [handle EXCEPT ![h].readPos = pos, ![h].writePos = pos]
  /\ out' = [op |-> "seek"]
  /\ UNCHANGED <<server, metaCall, broken, hist>>

\* readFromFile: FileHandler::read and FileReader::read are the same loop; a FileReadHandle
\* moves by the length it was asked for.
ReadFromFile(h, length) ==
  LET f   == handle[h]
      pos == f.readPos
      len == IF pos >= f.size THEN 0 ELSE Min({length, f.size - pos})
      r   == FoldLeft(GetDecryptedChunk, [f |-> f, data |-> <<>>, error |-> ""],
                      IF len = 0 THEN <<>>
                      ELSE Indexes(pos \div PlainChunk, (pos + len - 1) \div PlainChunk))
      at  == pos % PlainChunk
      moved == IF server.randomWrite THEN len ELSE length
  IN
  /\ f.state = "open" /\ pos + length <= MaxSize
  /\ IF r.error # ""
     THEN /\ handle' = [handle EXCEPT ![h] = r.f]
          /\ Fail(h, r.error)
     ELSE /\ handle' = [handle EXCEPT ![h] = [r.f EXCEPT !.readPos = pos + moved]]
          /\ out' = [op |-> "read", h |-> h, pos |-> pos, len |-> length,
                     data |-> SubSeq(r.data, at + 1, Min({at + len, Len(r.data)}))]
  /\ UNCHANGED <<server, metaCall, broken, hist>>

-----------------------------------------------------------------------------
(* Random writes.                                                          *)

\* The plain chunk prev with data put at offset; a gap is filled with zeros.
Overlaid(prev, offset, data, truncate) ==
  [k \in 1..offset |-> IF k <= Len(prev) THEN prev[k] ELSE Zero]
    \o data
    \o (IF truncate THEN <<>> ELSE SubSeq(prev, offset + Len(data) + 1, Len(prev)))

\* A write w with the chunk numbered i made of prev and the first n bytes of its data:
\* UpdateChunkData with the changes of the two sizes.
WithChunk(w, f, i, truncate, prev, n, chunk) ==
  LET len == Len(chunk.plain)
  IN [w EXCEPT
       !.pos = @ + n, !.data = SubSeq(@, n + 1, Len(@)), !.chunks = Append(@, chunk),
       !.size = @ + (IF truncate THEN i * PlainChunk + len - Max({f.size, i * PlainChunk})
                     ELSE len - (IF prev = <<>> THEN 0 ELSE Len(prev[1].plain))),
       !.encryptedSize = @ + (IF truncate
                     THEN i * EncryptedChunk + EncryptedSize(len)
                            - Max({f.encryptedSize, i * EncryptedChunk})
                     ELSE EncryptedSize(len)
                            - (IF prev = <<>> THEN 0 ELSE EncryptedSize(Len(prev[1].plain))))]

\* FileHandler::createUpdateChunk, one step of the loop of write(): the chunk numbered i
\* takes what is left of the data from position w.pos on.
CreateUpdateChunk(h, f, w, i, truncate) ==
  LET offset    == w.pos % PlainChunk
      n         == Min({PlainChunk - offset, Len(w.data)})
      plain(prev) == Overlaid(IF prev = <<>> THEN <<>> ELSE prev[1].plain, offset,
                              SubSeq(w.data, 1, n), truncate)
      with(got) ==
        IF got.error # "" THEN [w EXCEPT !.f = got.f, !.error = got.error]
        ELSE IF got.chunk # <<>> /\ ~Decrypts(f, i, got.chunk)
        THEN [w EXCEPT !.f = got.f, !.error = "corrupted"]
        ELSE WithChunk([w EXCEPT !.f = got.f], f, i, truncate, got.chunk, n,
                       Encrypt(f.key, i, <<h, f.version>>, plain(got.chunk)))
  IN with(GetChunk(f, i, f.version))

\* createListOfUpdateChangesFromUpdateChunkData: neighbours go into one operation.
Squash(ops, chunk) ==
  LET last == ops[Len(ops)]
  IN IF /\ ops # <<>>
        /\ last.at * EncryptedChunk + SizeOf(last.data) = chunk.index * EncryptedChunk
        /\ SizeOf(last.data) + EncryptedSize(Len(chunk.plain)) < OperationLimit
     THEN [ops EXCEPT ![Len(ops)].data = Append(@, chunk)]
     ELSE Append(ops, [at |-> chunk.index, data |-> <<chunk>>])

\* FileHandler::write up to its first request: the chunks are read, changed and encrypted,
\* the checksums are set, the new metadata is made.
PrepareWrite(h, f, length, truncate) ==
  LET fill   == Max({f.writePos - f.size, 0})
      data   == Bytes(f.version + 1, length)
      offset == f.writePos - fill
      toSend == [k \in 1..fill |-> Zero] \o data
      stop   == (offset + Len(toSend) - (IF length = 0 THEN 0 ELSE 1)) \div PlainChunk
      start  == [f |-> f, error |-> "", pos |-> offset, data |-> toSend, chunks |-> <<>>,
                 size |-> f.size, encryptedSize |-> f.encryptedSize]
      step(w, i) == IF w.error # "" THEN w
                    ELSE CreateUpdateChunk(h, w.f, w, i, truncate /\ i = stop)
      sums(chunks) == FoldLeft(LAMBDA hs, c : SetHash(hs, c.index, c, truncate /\ c.index = stop),
                               f.hashes, chunks)
      prepared(w, hashes) ==
        [f |-> w.f, error |-> w.error, hashes |-> hashes,
         call |-> [ops |-> FoldLeft(Squash, <<>>, w.chunks), sent |-> 0, chunks |-> w.chunks,
                   oldHashes |-> f.hashes, pos |-> f.writePos, data |-> data,
                   truncate |-> truncate, size |-> w.size, encryptedSize |-> w.encryptedSize,
                   meta |-> [f.meta EXCEPT !.size = w.size, !.top = TopHash(f.hashKey, hashes)]]]
      end(w) == prepared(w, sums(w.chunks))
  IN end(FoldLeft(step, start, Indexes(offset \div PlainChunk, stop)))

\* Bounds of a write: the size, the versions, and how it is split.
WriteBounds(f, length, call) ==
  /\ f.writePos + length <= MaxSize /\ server.version < MaxVersion
  /\ \/ SplitWrites
     \/ Len(call.ops) <= 1
     \/ /\ Len(call.ops) <= OperationsLimit
        /\ call.truncate \/ \E c \in Range(call.chunks) : c.index + 1 >= Len(f.hashes)

\* writeToFile of a random-write handle.
WriteBegin(h, length, truncate) ==
  /\ handle[h].state = "open" /\ server.randomWrite
  /\ \E w \in {PrepareWrite(h, handle[h], length, truncate)} :
       /\ WriteBounds(handle[h], length, w.call)
       /\ IF w.error # ""
          THEN /\ handle' = [handle EXCEPT ![h] = w.f]
               /\ Fail(h, w.error)
          ELSE /\ handle' = [handle EXCEPT ![h] =
                    [state |-> "writing", call |-> w.call, hashes |-> w.hashes] @@ w.f]
               /\ out' = [op |-> "begin"]
  /\ UNCHANGED <<server, metaCall, broken, hist>>

\* The operations of the next request of updateOnServer; every one but the last of the
\* write truncates.
RequestOps(call) ==
  LET n == Min({Len(call.ops), call.sent + OperationsLimit})
  IN [k \in 1..(n - call.sent) |->
        LET i == call.sent + k
        IN call.ops[i] @@ [truncate |-> IF i = Len(call.ops) THEN call.truncate ELSE TRUE]]

\* The server applies a request.
Apply(s, ops, meta) ==
  LET put(content) == FoldLeft(LAMBDA acc, o : WriteAt(acc, o.at, o.data, o.truncate), content, ops)
  IN [s EXCEPT !.chunks = put(@), !.sums = put(@), !.meta = meta, !.version = @ + 1]

\* Wrong: what was cached of the data is not updated.
WrittenCacheKept(f) ==
  [Idle(f, "call") EXCEPT !.version = @ + 1, !.dataVersion = f.version + 1,
                          !.readVersion = f.version + 1, !.meta = f.call.meta,
                          !.size = f.call.size, !.encryptedSize = f.call.encryptedSize,
                          !.writePos = @ + Len(f.call.data)]

\* The end of write() after its last request was answered.
Written(f) ==
  LET call == f.call
      version == f.version + 1
      g == [Idle(f, "call") EXCEPT !.version = version, !.meta = call.meta, !.size = call.size,
                                   !.encryptedSize = call.encryptedSize,
                                   !.writePos = @ + Len(call.data)]
  IN FoldLeft(LAMBDA acc, c :
                UpdateReader(UpdateData(acc, version, c.index, c, call.truncate), version, c.index),
              g, call.chunks)

\* Wrong: the checksums of a failed write stay.
NotRolledBack(f) == Idle(f, "call")

\* The catch blocks of write(): the checksums are set back.
RolledBack(f) == [Idle(f, "call") EXCEPT !.hashes = f.call.oldHashes]

\* Why the file may be unreadable after a write of f is applied.
BrokenBy(f, new) ==
  (IF new.chunks[Len(new.chunks)].plain = <<>> /\ new.meta.size # 0 THEN {"empty chunk"} ELSE {})
    \cup (IF f.key # new.meta.key THEN {"stale key"} ELSE {})

\* One request of updateOnServer is applied; answered says whether its answer arrives.
WriteApplied(h, answered) ==
  LET f    == handle[h]
      call == f.call
      ops  == RequestOps(call)
      new  == Apply(server, ops, call.meta)
      done == call.sent + Len(ops) = Len(call.ops)
  IN
  /\ f.state = "writing" /\ f.version = server.version
  /\ server' = new
  /\ hist' = Append(hist, PlainOf(new.chunks))
  /\ broken' = (broken \ {"empty chunk"}) \cup BrokenBy(f, new)
  /\ handle' = [handle EXCEPT ![h] =
       IF ~answered THEN RolledBack(f)
       ELSE IF done THEN Written(f)
       ELSE [f EXCEPT !.call.sent = @ + Len(ops)]]
  /\ out' = [op |-> IF answered THEN "write" ELSE "lost", h |-> h, pos |-> call.pos,
             data |-> call.data, truncate |-> call.truncate]
  /\ UNCHANGED metaCall

\* A request is refused (another version) or does not get through.
WriteFailed(h) ==
  LET f == handle[h]
  IN
  /\ f.state = "writing"
  /\ handle' = [handle EXCEPT ![h] = RolledBack(f)]
  /\ Fail(h, IF f.version = server.version THEN "network" ELSE "version")
  /\ UNCHANGED <<server, metaCall, broken, hist>>

\* Another client opens the file, seeks, writes and closes it, at once.
Visit(pos, length, truncate) ==
  LET f == [NewHandle(FileGet) EXCEPT !.readPos = pos, !.writePos = pos]
  IN
  /\ server.randomWrite /\ Opens(FileGet) /\ pos <= f.size
  /\ \E w \in {PrepareWrite("visitor", f, length, truncate)} :
       /\ w.error = "" /\ WriteBounds(f, length, w.call)
       /\ server' = Apply(server, RequestOps(w.call), w.call.meta)
       /\ out' = [op |-> "visit", pos |-> pos, data |-> w.call.data, truncate |-> truncate]
  /\ hist' = Append(hist, PlainOf(server'.chunks))
  /\ broken' = (broken \ {"empty chunk"}) \cup BrokenBy(f, server')
  /\ UNCHANGED <<handle, metaCall>>

-----------------------------------------------------------------------------
(* Calls that name no version.                                             *)

\* updateFile and closeFile: the file is replaced by a new upload with a new key.
ReplaceFile(size) ==
  LET version == server.version + 1
      content == Bytes(version, size)
  IN
  /\ server.version < MaxVersion
  /\ server' = Uploaded(version, content) @@ [server EXCEPT !.version = version]
  /\ hist' = Append(hist, content)
  /\ broken' = {}
  /\ out' = [op |-> "replace", data |-> content]
  /\ UNCHANGED <<handle, metaCall>>

\* updateFileMeta reads the file.
MetaBegin ==
  /\ metaCall = <<>> /\ server.version < MaxVersion
  /\ metaCall' = <<server.meta>>
  /\ out' = [op |-> "begin"]
  /\ UNCHANGED <<server, handle, broken, hist>>

\* updateFileMeta writes it back: the internal metadata it has read goes along.
MetaEnd ==
  /\ metaCall # <<>> /\ server.version < MaxVersion
  /\ server' = [server EXCEPT !.meta = metaCall[1], !.version = @ + 1]
  /\ metaCall' = <<>>
  /\ broken' = broken \cup (IF metaCall[1] # server.meta THEN {"stale meta"} ELSE {})
  /\ hist' = Append(hist, hist[Len(hist)])
  /\ out' = [op |-> "replace", data |-> hist[Len(hist)]]
  /\ UNCHANGED handle

-----------------------------------------------------------------------------

Init ==
  /\ \E size \in Sizes, randomWrite \in BOOLEAN :
       /\ server = Uploaded(1, Bytes(1, size)) @@ [version |-> 1, randomWrite |-> randomWrite]
       /\ hist = <<Bytes(1, size)>>
  /\ handle = [h \in Handles |-> Closed]
  /\ metaCall = <<>> /\ broken = {} /\ out = [op |-> "none"]

HandleNext(h) ==
  \/ OpenBegin(h) \/ OpenEnd(h) \/ SyncBegin(h) \/ SyncReadWrite(h) \/ SyncRead(h)
  \/ CloseFile(h)
  \/ \E pos \in Positions : SeekInFile(h, pos)
  \/ \E length \in Lengths : ReadFromFile(h, length)
  \/ \E length \in Lengths, truncate \in BOOLEAN : WriteBegin(h, length, truncate)
  \/ \E answered \in BOOLEAN : WriteApplied(h, answered)
  \/ WriteFailed(h)

Next ==
  \/ \E h \in Handles : HandleNext(h)
  \/ \E pos \in Positions, length \in Lengths, truncate \in BOOLEAN : Visit(pos, length, truncate)
  \/ \E size \in Sizes : ReplaceFile(size)
  \/ MetaBegin \/ MetaEnd

Spec == Init /\ [][Next]_vars

-----------------------------------------------------------------------------
(* Properties.                                                             *)

\* TypeOK: handles are closed, inside one call, or open with positions, sizes and versions
\* in their ranges; the history has one content per version.
TypeOK ==
  /\ server.version \in 1..MaxVersion /\ Len(hist) = server.version
  /\ \A h \in Handles :
       /\ handle[h].state \in {"closed", "opening", "open", "syncing", "writing"}
       /\ handle[h].state \in {"open", "syncing", "writing"} =>
            /\ handle[h].readPos \in 0..MaxSize /\ handle[h].writePos \in 0..MaxSize
            /\ handle[h].size \in 0..MaxSize
            /\ handle[h].version \in 1..server.version
  /\ broken \subseteq {"empty chunk", "stale key", "stale meta"}

Opened(h) == handle[h].state \in {"open", "syncing", "writing"}

VF == INSTANCE VersionedFile WITH
        view <- [h \in Handles |-> IF Opened(h) THEN handle[h].version ELSE 0]

\* IsVersionedFile: chunking, checksums, caches, squashed operations, rollbacks and syncs
\* add up to a versioned file: a read returns the bytes of the version its handle has
\* seen, whatever was cached and whoever wrote since, and a write turns the newest version
\* into exactly the content its caller asked for, or leaves it alone.
IsVersionedFile == VF!Spec

\* A client that opens the file now passes every check and reads its content.
FileReads ==
  LET meta == server.meta
  IN /\ meta.top = TopHash(meta.key, server.sums)
     /\ server.sums = server.chunks
     /\ SizeOf(server.chunks) = GetEncryptedFileSize(meta.size) \/ meta.size = 0
     /\ Len(PlainOf(server.chunks)) = meta.size
     /\ \A i \in 1..Len(server.chunks) :
          server.chunks[i].key = meta.key /\ server.chunks[i].index = i - 1

\* ReadableUnlessBroken: after any accepted writes the file can be opened and read by
\* everyone, except for three causes: an empty write at the end of a full last chunk leaves
\* an empty chunk, a handle that was synced over a replaced file encrypts with the old key,
\* and updateFileMeta puts old metadata over new content.
ReadableUnlessBroken == broken = {} => FileReads

\* CurrentHandleAgrees: a handle whose version is the server's, between calls, has the
\* server's checksums and sizes, and whatever it has cached is what the server has: no
\* update, rollback, lost answer or sync leaves a stale chunk behind a current version.
CurrentHandleAgrees ==
  \A h \in Handles :
    LET f == handle[h]
        chunk(i) == server.chunks[i + 1]
    IN f.state = "open" /\ f.version = server.version =>
       /\ f.hashes = server.sums /\ f.size = server.meta.size
       /\ server.randomWrite => f.encryptedSize = SizeOf(server.chunks)
       /\ f.dataVersion = server.version /\ f.serverChunkNumber # None =>
            f.serverChunk = ServerChunk(f.serverChunkNumber)
       /\ f.lastIndex # None /\ f.lastIndex < Len(server.chunks) =>
            f.lastChunk = chunk(f.lastIndex).plain

\* CurrentHandleInv: types, and handles that agree with the server.
CurrentHandleInv == TypeOK /\ CurrentHandleAgrees

\* NoFalseAlarm: a handle reports corrupted data only when the file is broken or the handle
\* itself has the key of one version and the checksums of another.
NoFalseAlarm ==
  [][out'.op = "fail" /\ out'.why = "corrupted" =>
       broken # {} \/ handle[out'.h].key # handle[out'.h].hashKey]_vars

\* WritesKeepTheRest: a write that does not truncate leaves no fewer bytes than there were.
WritesKeepTheRest ==
  [][out'.op = "write" /\ ~out'.truncate => Len(hist'[Len(hist')]) >= Len(hist[Len(hist)])]_vars

=============================================================================
