---------------------------- MODULE UploadsProofs ----------------------------
(***************************************************************************)
(* Proofs about Uploads, for any files, entries, sizes, losses and keys.   *)
(* The parts: types; the keys of the Store; the places that files have in  *)
(* the requests of the server.  UploadsContentProofs goes on from here.    *)
(***************************************************************************)
EXTENDS Uploads, SequenceTheorems, WellFoundedInduction, TLAPS

-----------------------------------------------------------------------------
(* Types.                                                                  *)

Keys == (Nat \X Nat) \cup {None}
Bytes == Files \X Nat
Plain == Seq(Bytes)
Chunks == [key : Keys, seq : Nat, plain : Plain]
Sums == Seq(Chunks)
Encrypted == Chunks \X Nat
Stream == Seq(Encrypted)

FileType ==
  [state : {"none", "open", "gone"}, buf : Plain, total : Nat, key : Keys,
   request : Nat \cup {None}, index : Nat, seq : Nat, sums : Sums,
   encrypted : Stream, processed : Nat, uploaded : Nat, serverSeq : Nat,
   update : BOOLEAN, began : Nat, early : BOOLEAN, torn : BOOLEAN]

EntryType == [state : {"none", "open", "gone"}, files : Seq(Files \ StoreFiles)]

CallType ==
  [pc : {"idle", "write", "parts", "finalize", "check", "last", "fetch", "sendFile",
         "release", "send"},
   op : {"none", "write", "close", "send"}, f : Files \cup {None}, e : Entries \cup {None},
   at : Nat, chunk : Nat, part : Nat, length : Nat,
   after : {"none", "write", "check", "last"}, keyId : Nat \cup {None}, retried : BOOLEAN]

SentType ==
  [size : Nat, data : Stream, parts : Nat, chunks : Nat, sums : Sums,
   committed : BOOLEAN]

MetaType == [key : Keys, sums : Sums, size : Nat]

StoredType ==
  [by : Files \cup Entries, request : Nat \cup {None}, files : Seq(Files), metas : Seq(MetaType)]

Outcomes ==
  {"none", "lost", "refused", "stored", "bigger", "size", "smaller", "different", "InvalidKey", "handle"}

Types ==
  /\ file \in [Files -> FileType]
  /\ entry \in [Entries -> EntryType]
  /\ call \in CallType
  /\ request \in Seq(Seq(SentType))
  /\ stored \in Seq(StoredType)
  /\ storeKey \in Nat /\ cachedKey \in Nat \cup {None}
  /\ outcome \in [Files \cup Entries -> Outcomes]
  /\ faults \in Nat /\ faulty \in SUBSET Files

(* The places of a call, and what it is about: a file, or a place in the list *)
(* of files of an entry.                                                      *)
PartsShape(c, returns) == IF c.pc = "parts" THEN c.after \in returns ELSE c.part = 0

CallShape(c) ==
  \/ c = Idle
  \/ /\ c.op = "write" /\ c.f \in Files /\ c.pc \in {"write", "parts"}
     /\ PartsShape(c, {"write"})
  \/ /\ c.op = "close" /\ c.f \in StoreFiles
     /\ c.pc \in {"finalize", "parts", "check", "last", "fetch", "sendFile"}
     /\ PartsShape(c, {"check", "last"})
  \/ /\ c.op = "send" /\ c.e \in Entries
     /\ c.pc \in {"finalize", "parts", "check", "last", "release", "send"}
     /\ PartsShape(c, {"check", "last"})
     /\ c.at \in 1..Len(entry[c.e].files) /\ c.f = entry[c.e].files[c.at]
     /\ c.pc \in {"release", "send"} => c.at = Len(entry[c.e].files)

CallHasFile ==
  /\ CallShape(call)
  /\ \A f \in Files : file[f].request # None =>
       /\ file[f].request \in 1..Len(request)
       /\ file[f].index \in 1..Len(request[file[f].request])

-----------------------------------------------------------------------------
(* Sizes.                                                                  *)

LEMMA DivFact ==
  ASSUME NEW n \in Nat, NEW s \in Nat \ {0}
  PROVE  /\ n \div s \in Nat /\ (n \div s) * s <= n /\ n < (n \div s) * s + s
         /\ n % s \in Nat /\ n % s < s /\ n = (n \div s) * s + (n % s)
BY SMT

LEMMA MulSuc == ASSUME NEW a \in Nat, NEW s \in Nat PROVE a * s \in Nat /\ (a + 1) * s = a * s + s
BY SMT

LEMMA MulMono == ASSUME NEW a \in Nat, NEW b \in Nat, NEW s \in Nat, a <= b PROVE a * s <= b * s
BY SMT

LEMMA MulStrict == ASSUME NEW a \in Nat, NEW b \in Nat, NEW s \in Nat, a * s < b * s PROVE a < b
BY SMT

LEMMA DivLess ==
  ASSUME NEW n \in Nat, NEW s \in Nat \ {0}, NEW i \in Nat
  PROVE  i < n \div s <=> (i + 1) * s <= n
BY DivFact, MulMono, MulStrict, MulSuc, SMT

LEMMA MinOfTwo == ASSUME NEW a \in Nat, NEW b \in Nat PROVE Min({a, b}) = IF a <= b THEN a ELSE b
<1>1. \E x \in {a, b} : \A y \in {a, b} : x <= y
  BY SMT
<1>2. Min({a, b}) \in {a, b} /\ \A y \in {a, b} : Min({a, b}) <= y
  BY <1>1, Zenon DEF Min
<1>3. QED
  BY <1>2, SMT

LEMMA EncryptedSizeNat == ASSUME NEW n \in Nat PROVE EncryptedSize(n) \in Nat /\ EncryptedSize(n) > n
<1>1. Padding \in Nat \ {0} /\ Header \in Nat
  BY UploadsAssumption
<1>2. QED
  BY <1>1, DivFact, SMT DEF EncryptedSize

LEMMA NumberOfChunksFact ==
  ASSUME NEW n \in Nat
  PROVE  /\ NumberOfChunks(n) \in Nat
         /\ n <= NumberOfChunks(n) * ChunkSize
         /\ n = 0 => NumberOfChunks(n) = 0
         /\ n > 0 => /\ NumberOfChunks(n) > 0
                     /\ (NumberOfChunks(n) - 1) * ChunkSize < n
<1>1. ChunkSize \in Nat \ {0}
  BY UploadsAssumption
<1> DEFINE q == NumberOfChunks(n)
<1>2. q \in Nat /\ q * ChunkSize <= n + ChunkSize - 1 /\ n + ChunkSize - 1 < q * ChunkSize + ChunkSize
  BY <1>1, DivFact DEF NumberOfChunks
<1> HIDE DEF q
<1>3. n = 0 => q = 0
  BY <1>1, <1>2, MulMono, SMT
<1>4. n > 0 => q > 0
  BY <1>1, <1>2, SMT
<1>5. q > 0 => (q - 1) * ChunkSize = q * ChunkSize - ChunkSize
  BY <1>1, <1>2, MulSuc, SMT
<1>6. QED
  BY <1>1, <1>2, <1>3, <1>4, <1>5, SMT DEF q

LEMMA DeclaredSizeNat == ASSUME NEW n \in Nat PROVE DeclaredSize(n) \in Nat
<1>1. ChunkSize \in Nat \ {0}
  BY UploadsAssumption
<1>2. EncryptedSize(ChunkSize) \in Nat /\ n % ChunkSize \in Nat /\ EncryptedSize(n % ChunkSize) \in Nat
  BY <1>1, EncryptedSizeNat, DivFact
<1>3. n # 0 => (NumberOfChunks(n) - 1) * EncryptedSize(ChunkSize) \in Nat
  BY <1>2, NumberOfChunksFact, SMT
<1>4. QED
  BY <1>1, <1>2, <1>3, SMT DEF DeclaredSize

-----------------------------------------------------------------------------
(* Chunks and streams.                                                     *)

LEMMA BytesOfFact ==
  ASSUME NEW chunk \in Chunks
  PROVE  /\ BytesOf(chunk) \in Stream
         /\ Len(BytesOf(chunk)) = EncryptedSize(Len(chunk.plain))
         /\ \A k \in 1..EncryptedSize(Len(chunk.plain)) : BytesOf(chunk)[k] = <<chunk, k>>
<1> DEFINE n == EncryptedSize(Len(chunk.plain))
<1>1. n \in Nat
  BY EncryptedSizeNat, LenProperties DEF Chunks, Plain
<1>2. BytesOf(chunk) = [k \in 1..n |-> <<chunk, k>>]
  BY DEF BytesOf
<1>3. \A k \in 1..n : <<chunk, k>> \in Encrypted
  BY <1>1, SMT DEF Encrypted
<1> HIDE DEF n
<1>4. [k \in 1..n |-> <<chunk, k>>] \in Stream
  BY <1>1, <1>3, IsASeq DEF Stream
<1>5. QED
  BY <1>1, <1>2, <1>4, SMT DEF n, Stream

LEMMA SubSeqFact ==
  ASSUME NEW S, NEW s \in Seq(S), NEW m \in Nat, NEW n \in Nat, 1 <= m, m <= n + 1, n <= Len(s)
  PROVE  /\ SubSeq(s, m, n) \in Seq(S) /\ Len(SubSeq(s, m, n)) = n - m + 1
         /\ \A i \in 1..(n - m + 1) : SubSeq(s, m, n)[i] = s[m + i - 1]
<1>1. m \in Int /\ n \in Int /\ \A i \in m..n : s[i] \in S
  BY ElementOfSeq, LenProperties, SMT
<1>2. /\ SubSeq(s, m, n) \in Seq(S)
      /\ Len(SubSeq(s, m, n)) = IF m <= n THEN n - m + 1 ELSE 0
      /\ \A i \in 1 .. n - m + 1 : SubSeq(s, m, n)[i] = s[m + i - 1]
  BY <1>1, SubSeqProperties
<1>3. QED
  BY <1>2, SMT

LEMMA SuffixFact ==
  ASSUME NEW S, NEW s \in Seq(S), NEW a \in Nat, a <= Len(s)
  PROVE  /\ SubSeq(s, a + 1, Len(s)) \in Seq(S) /\ Len(SubSeq(s, a + 1, Len(s))) = Len(s) - a
         /\ \A k \in 1..(Len(s) - a) : SubSeq(s, a + 1, Len(s))[k] = s[a + k]
<1>1. Len(s) \in Nat /\ a + 1 \in Nat /\ 1 <= a + 1 /\ a + 1 <= Len(s) + 1 /\ Len(s) <= Len(s)
  BY LenProperties, SMT
<1>2. /\ SubSeq(s, a + 1, Len(s)) \in Seq(S)
      /\ Len(SubSeq(s, a + 1, Len(s))) = Len(s) - (a + 1) + 1
      /\ \A i \in 1..(Len(s) - (a + 1) + 1) : SubSeq(s, a + 1, Len(s))[i] = s[(a + 1) + i - 1]
  BY <1>1, SubSeqFact, ZenonT(60)
<1>3. QED
  BY <1>1, <1>2, SMT

LEMMA PrefixFact ==
  ASSUME NEW S, NEW s \in Seq(S), NEW a \in Nat, a <= Len(s)
  PROVE  /\ SubSeq(s, 1, a) \in Seq(S) /\ Len(SubSeq(s, 1, a)) = a
         /\ \A k \in 1..a : SubSeq(s, 1, a)[k] = s[k]
<1>1. 1 \in Nat /\ 1 <= 1 /\ 1 <= a + 1
  BY SMT
<1>2. /\ SubSeq(s, 1, a) \in Seq(S) /\ Len(SubSeq(s, 1, a)) = a - 1 + 1
      /\ \A i \in 1..(a - 1 + 1) : SubSeq(s, 1, a)[i] = s[1 + i - 1]
  BY <1>1, SubSeqFact, Zenon
<1>3. QED
  BY <1>2, SMT

LEMMA GetFullChunkFact ==
  ASSUME NEW S, NEW buf \in Seq(S), NEW s \in Nat \ {0}, NEW i \in Nat,
         i < NumberOfFullChunks(buf, s)
  PROVE  /\ (i + 1) * s <= Len(buf)
         /\ GetFullChunk(buf, s, i) \in Seq(S) /\ Len(GetFullChunk(buf, s, i)) = s
         /\ \A k \in 1..s : GetFullChunk(buf, s, i)[k] = buf[i * s + k]
<1>1. (i + 1) * s <= Len(buf) /\ (i + 1) * s = i * s + s /\ i * s \in Nat
  BY DivLess, MulSuc, LenProperties DEF NumberOfFullChunks
<1>2. i * s + 1 \in Nat /\ 1 <= i * s + 1 /\ (i + 1) * s \in Nat /\ i * s + 1 <= (i + 1) * s + 1
  BY <1>1, LenProperties, SMT
<1> DEFINE c == SubSeq(buf, i * s + 1, (i + 1) * s)
<1>3. /\ c \in Seq(S) /\ Len(c) = (i + 1) * s - (i * s + 1) + 1
      /\ \A k \in 1..((i + 1) * s - (i * s + 1) + 1) : c[k] = buf[i * s + 1 + k - 1]
  BY <1>1, <1>2, SubSeqFact
<1>4. QED
  BY <1>1, <1>3, SMT DEF GetFullChunk

LEMMA FreeFullChunksFact ==
  ASSUME NEW S, NEW buf \in Seq(S), NEW s \in Nat \ {0}, NEW n \in Nat,
         n = NumberOfFullChunks(buf, s)
  PROVE  /\ n * s <= Len(buf) /\ Len(buf) < n * s + s
         /\ FreeFullChunks(buf, s) \in Seq(S) /\ Len(FreeFullChunks(buf, s)) = Len(buf) - n * s
         /\ \A k \in 1..(Len(buf) - n * s) : FreeFullChunks(buf, s)[k] = buf[n * s + k]
<1>1. n * s \in Nat /\ n * s <= Len(buf) /\ Len(buf) < n * s + s /\ Len(buf) \in Nat
  BY DivFact, MulSuc, LenProperties DEF NumberOfFullChunks
<1>2. /\ SubSeq(buf, n * s + 1, Len(buf)) \in Seq(S)
      /\ Len(SubSeq(buf, n * s + 1, Len(buf))) = Len(buf) - n * s
      /\ \A k \in 1..(Len(buf) - n * s) : SubSeq(buf, n * s + 1, Len(buf))[k] = buf[n * s + k]
  BY <1>1, SuffixFact, Zenon
<1>3. QED
  BY <1>1, <1>2, Zenon DEF FreeFullChunks, NumberOfFullChunks

\* The chunk that finalize reads and what it leaves.
LEMMA LastChunkFact ==
  ASSUME NEW S, NEW buf \in Seq(S), NEW m, m = Min({Len(buf), ChunkSize})
  PROVE  /\ m \in 0..Len(buf) /\ m = (IF Len(buf) <= ChunkSize THEN Len(buf) ELSE ChunkSize)
         /\ SubSeq(buf, 1, m) \in Seq(S) /\ Len(SubSeq(buf, 1, m)) = m
         /\ \A k \in 1..m : SubSeq(buf, 1, m)[k] = buf[k]
         /\ SubSeq(buf, m + 1, Len(buf)) \in Seq(S)
         /\ Len(SubSeq(buf, m + 1, Len(buf))) = Len(buf) - m
<1>1. Len(buf) \in Nat /\ ChunkSize \in Nat \ {0}
  BY UploadsAssumption, LenProperties
<1>2. m \in 0..Len(buf) /\ m = (IF Len(buf) <= ChunkSize THEN Len(buf) ELSE ChunkSize)
  BY <1>1, MinOfTwo, SMT
<1>3. m \in Nat /\ m <= Len(buf)
  BY <1>1, <1>2, SMT
<1>4. QED
  BY <1>2, <1>3, PrefixFact, SuffixFact, Zenon

LEMMA NewRequestFact ==
  ASSUME NEW sizes, NEW n \in Nat, sizes \in [1..n -> Nat]
  PROVE  /\ NewRequest(sizes) \in Seq(SentType) /\ Len(NewRequest(sizes)) = n
         /\ \A i \in 1..n : NewRequest(sizes)[i] =
              [size |-> DeclaredSize(sizes[i]), data |-> <<>>, parts |-> 0,
               chunks |-> NumberOfChunks(sizes[i]), sums |-> <<>>, committed |-> FALSE]
<1> DEFINE e(i) == [size |-> DeclaredSize(sizes[i]), data |-> <<>>, parts |-> 0,
                    chunks |-> NumberOfChunks(sizes[i]), sums |-> <<>>, committed |-> FALSE]
<1>1. \A i \in 1..n : e(i) \in SentType
  <2> SUFFICES ASSUME NEW i \in 1..n PROVE e(i) \in SentType
    OBVIOUS
  <2>1. DeclaredSize(sizes[i]) \in Nat /\ NumberOfChunks(sizes[i]) \in Nat
    BY DeclaredSizeNat, NumberOfChunksFact
  <2>2. <<>> \in Stream /\ <<>> \in Sums
    BY EmptySeq DEF Stream, Sums
  <2>3. QED
    BY <2>1, <2>2 DEF SentType
<1>2. sizes \in Seq(Nat) /\ Len(sizes) = n
  BY IsASeq, LenProperties, SMT
<1> HIDE DEF e
<1>3. NewRequest(sizes) = [i \in 1..n |-> e(i)]
  BY <1>2 DEF NewRequest, e
<1>4. [i \in 1..n |-> e(i)] \in Seq(SentType)
  BY <1>1, IsASeq
<1>5. Len([i \in 1..n |-> e(i)]) = n
  BY <1>1, <1>4, SMT
<1>6. QED
  BY <1>3, <1>4, <1>5 DEF e

-----------------------------------------------------------------------------
(* Steps.                                                                  *)

(* What no step of a call changes of its file.                             *)
Kept(g, h) ==
  /\ h.state = g.state /\ h.total = g.total /\ h.key = g.key /\ h.request = g.request
  /\ h.index = g.index /\ h.update = g.update /\ h.began = g.began
  /\ g.early => h.early

(* A step of the call under way: its file, and the server's side of it.    *)
FileStep ==
  /\ call.f \in Files
  /\ \E h \in FileType : Kept(file[call.f], h) /\ file' = [file EXCEPT ![call.f] = h]

SentStep ==
  \/ request' = request
  \/ /\ file[call.f].request # None /\ ~Sent(file[call.f]).committed
     /\ \E s \in SentType :
          /\ s.size = Sent(file[call.f]).size /\ s.chunks = Sent(file[call.f]).chunks
          /\ Len(s.data) <= s.size /\ (s.committed => call.pc = "last")
          /\ request' = [request EXCEPT ![file[call.f].request][file[call.f].index] = s]

LEMMA Constants ==
  /\ ChunkSize \in Nat \ {0} /\ PartSize \in Nat \ {0}
  /\ StoreFiles \subseteq Files /\ EntryFiles \subseteq Seq(Files \ StoreFiles)
  /\ FileSize \in [Files -> Nat] /\ Lengths \subseteq Nat
  /\ Files \cap Entries = {} /\ None \notin Files /\ None \notin Entries /\ None \notin Nat
BY UploadsAssumption

LEMMA PutSentFact ==
  ASSUME NEW q \in Seq(Seq(SentType)), NEW r \in 1..Len(q), NEW i \in 1..Len(q[r]),
         NEW s \in SentType
  PROVE  /\ [q EXCEPT ![r][i] = s] \in Seq(Seq(SentType))
         /\ Len([q EXCEPT ![r][i] = s]) = Len(q)
         /\ \A a \in 1..Len(q) : /\ Len([q EXCEPT ![r][i] = s][a]) = Len(q[a])
                                 /\ \A b \in 1..Len(q[a]) :
                                      [q EXCEPT ![r][i] = s][a][b] =
                                        IF a = r /\ b = i THEN s ELSE q[a][b]
<1> DEFINE t == [q[r] EXCEPT ![i] = s]
<1>1. q[r] \in Seq(SentType)
  BY ElementOfSeq
<1>2. /\ t \in Seq(SentType) /\ Len(t) = Len(q[r])
      /\ \A b \in 1..Len(q[r]) : t[b] = IF b = i THEN s ELSE q[r][b]
  BY <1>1, ExceptSeq
<1>3. [q EXCEPT ![r][i] = s] = [q EXCEPT ![r] = t]
  BY Zenon
<1> HIDE DEF t
<1>4. /\ [q EXCEPT ![r] = t] \in Seq(Seq(SentType)) /\ Len([q EXCEPT ![r] = t]) = Len(q)
      /\ \A a \in 1..Len(q) : [q EXCEPT ![r] = t][a] = IF a = r THEN t ELSE q[a]
  BY <1>2, ExceptSeq
<1>5. QED
  BY <1>2, <1>3, <1>4, SMT

LEMMA CallFacts ==
  ASSUME Types, CallHasFile, call # Idle
  PROVE  /\ call.f \in Files /\ file[call.f] \in FileType /\ call \in CallType
         /\ call.op \in {"write", "close", "send"} /\ call.pc # "idle"
         /\ call.op = "send" => /\ call.e \in Entries /\ entry[call.e].files \in Seq(Files)
                                /\ call.at \in 1..Len(entry[call.e].files)
                                /\ call.f = entry[call.e].files[call.at]
         /\ CallShape(call) /\ Caller \in Files \cup Entries /\ Concerned \subseteq Files
<1>1. call.op = "send" => call.e \in Entries /\ entry[call.e].files \in Seq(Files)
                          /\ call.at \in 1..Len(entry[call.e].files)
                          /\ call.f = entry[call.e].files[call.at]
  BY Constants DEF Types, CallHasFile, CallShape, EntryType
<1>2. call.op = "send" => call.f \in Files /\ Range(entry[call.e].files) \subseteq Files
  BY <1>1, ElementOfSeq DEF Range
<1>3. call.f \in Files /\ call.op \in {"write", "close", "send"} /\ call.pc # "idle"
  BY <1>2, Constants DEF CallHasFile, CallShape
<1>4. QED
  BY <1>1, <1>2, <1>3 DEF Types, Caller, Concerned, CallHasFile

LEMMA IdleFacts == Idle.pc = "idle" /\ Idle.op = "none" /\ Idle.f = None /\ Idle \in CallType
BY DEF Idle, CallType

(* The server's side of a file.                                            *)
LEMMA SentFact ==
  ASSUME Types, CallHasFile, NEW f \in Files, file[f].request # None
  PROVE  /\ file[f].request \in 1..Len(request) /\ file[f].index \in 1..Len(request[file[f].request])
         /\ request[file[f].request] \in Seq(SentType)
         /\ Sent(file[f]) \in SentType
BY ElementOfSeq DEF Types, CallHasFile, Sent

(* A request is answered or fails.                                         *)
LEMMA RequestStep ==
  ASSUME Types, CallHasFile, call # Idle, NEW takes \in BOOLEAN, NEW lost \in Losses, NEW s,
         NEW before \in FileType, NEW after \in FileType, NEW next \in CallType,
         Kept(file[call.f], before), Kept(file[call.f], after),
         Request(takes, lost, s, before, after, next)
  PROVE  /\ FileStep
         /\ UNCHANGED <<entry, stored, storeKey, cachedKey>>
         /\ \/ request' = request
            \/ takes /\ request' = [request EXCEPT ![file[call.f].request][file[call.f].index] = s]
         /\ call' \in {next, Idle} /\ outcome' \in [Files \cup Entries -> Outcomes]
         /\ faults' \in Nat /\ faulty \subseteq faulty' /\ faulty' \in SUBSET Files
<1>2. /\ faults' \in Nat /\ faulty \subseteq faulty' /\ faulty' \in SUBSET Files
  BY CallFacts DEF Request, CountLoss, Types
<1>a. \/ request' = request
      \/ takes /\ request' = [request EXCEPT ![file[call.f].request][file[call.f].index] = s]
  BY Zenon DEF Request, Kept
<1>b. call.f \in Files /\ Caller \in Files \cup Entries
  BY CallFacts
<1>3. CASE takes /\ lost = "no"
  BY <1>2, <1>3, <1>a, <1>b DEF Request, Continue, FileStep, Types, keys
<1>4. CASE ~(takes /\ lost = "no")
  <2> DEFINE h == [before EXCEPT !.torn = @ \/ call.op = "write"]
  <2>1. h \in FileType /\ Kept(file[call.f], h)
    BY DEF FileType, Kept
  <2>2. file' = [file EXCEPT ![call.f] = h] /\ call' = Idle /\ UNCHANGED <<entry, stored, storeKey, cachedKey>>
    BY <1>4 DEF Request, Throw, keys
  <2>4. outcome' \in [Files \cup Entries -> Outcomes]
    BY <1>4, <1>b DEF Request, Throw, Types, Outcomes
  <2> HIDE DEF h
  <2>5. FileStep
    BY <1>b, <2>1, <2>2 DEF FileStep
  <2>6. QED
    BY <1>2, <1>a, <2>2, <2>4, <2>5
<1>5. QED
  BY <1>3, <1>4

(* What a step leaves of the files and of the requests.                    *)
LEMMA ShapeKept ==
  ASSUME Types, CallHasFile, FileStep, SentStep
  PROVE  /\ file' \in [Files -> FileType] /\ request' \in Seq(Seq(SentType))
         /\ \A f \in Files : Kept(file[f], file'[f])
         /\ \A f \in Files \ {call.f} : file'[f] = file[f]
         /\ Len(request') = Len(request)
         /\ \A a \in 1..Len(request) :
              /\ Len(request'[a]) = Len(request[a])
              /\ \A b \in 1..Len(request[a]) :
                   /\ \/ request'[a][b] = request[a][b]
                      \/ /\ a = file[call.f].request /\ b = file[call.f].index
                         /\ file[call.f].request # None /\ ~request[a][b].committed
                         /\ Len(request'[a][b].data) <= request'[a][b].size
                         /\ request'[a][b].committed => call.pc = "last"
                   /\ request'[a][b].size = request[a][b].size
                   /\ request'[a][b].chunks = request[a][b].chunks
<1>1. PICK h \in FileType : Kept(file[call.f], h) /\ file' = [file EXCEPT ![call.f] = h]
  BY DEF FileStep
<1>2. /\ file' \in [Files -> FileType]
      /\ \A f \in Files : Kept(file[f], file'[f])
      /\ \A f \in Files \ {call.f} : file'[f] = file[f]
  BY <1>1 DEF FileStep, Types, Kept
<1>3. CASE request' = request
  BY <1>2, <1>3 DEF Types
<1>4. CASE request' # request
  <2>1. file[call.f].request # None /\ ~Sent(file[call.f]).committed
    BY <1>4 DEF SentStep
  <2>2. PICK s \in SentType :
          /\ s.size = Sent(file[call.f]).size /\ s.chunks = Sent(file[call.f]).chunks
          /\ Len(s.data) <= s.size /\ (s.committed => call.pc = "last")
          /\ request' = [request EXCEPT ![file[call.f].request][file[call.f].index] = s]
    BY <1>4 DEF SentStep
  <2> DEFINE r == file[call.f].request
             i == file[call.f].index
  <2>3. /\ r \in 1..Len(request) /\ i \in 1..Len(request[r])
        /\ request' = [request EXCEPT ![r][i] = s] /\ Sent(file[call.f]) = request[r][i]
    BY <2>1, <2>2, SentFact DEF FileStep, Sent
  <2>a. r = file[call.f].request /\ i = file[call.f].index
    OBVIOUS
  <2> HIDE DEF r, i
  <2>4. /\ request' \in Seq(Seq(SentType)) /\ Len(request') = Len(request)
        /\ \A a \in 1..Len(request) : /\ Len(request'[a]) = Len(request[a])
                                      /\ \A b \in 1..Len(request[a]) :
                                           request'[a][b] = IF a = r /\ b = i THEN s ELSE request[a][b]
    <3>1. request \in Seq(Seq(SentType))
      BY DEF Types
    <3>2. QED
      BY <2>3, <3>1, PutSentFact
  <2>5. \A a \in 1..Len(request) : \A b \in 1..Len(request[a]) :
          a = r /\ b = i => request'[a][b] = s /\ ~request[a][b].committed
            /\ request[a][b].size = s.size /\ request[a][b].chunks = s.chunks
    BY <2>1, <2>2, <2>3, <2>4, SMTT(30)
  <2>6. ASSUME NEW a \in 1..Len(request), NEW b \in 1..Len(request[a])
        PROVE  /\ \/ request'[a][b] = request[a][b]
                  \/ /\ a = file[call.f].request /\ b = file[call.f].index
                     /\ file[call.f].request # None /\ ~request[a][b].committed
                     /\ Len(request'[a][b].data) <= request'[a][b].size
                     /\ request'[a][b].committed => call.pc = "last"
               /\ request'[a][b].size = request[a][b].size
               /\ request'[a][b].chunks = request[a][b].chunks
    <3>1. CASE a = r /\ b = i
      BY <2>1, <2>2, <2>5, <2>a, <3>1
    <3>2. CASE ~(a = r /\ b = i)
      BY <2>4, <3>2
    <3>3. QED
      BY <3>1, <3>2
  <2>7. QED
    BY <1>2, <2>4, <2>6
<1>5. QED
  BY <1>3, <1>4

LEMMA ShapeTypes ==
  ASSUME Types, CallHasFile, FileStep, SentStep, UNCHANGED entry,
         call' \in CallType, stored' \in Seq(StoredType), storeKey' \in Nat,
         cachedKey' \in Nat \cup {None}, outcome' \in [Files \cup Entries -> Outcomes],
         faults' \in Nat, faulty' \in SUBSET Files, CallShape(call')
  PROVE  Types' /\ CallHasFile'
<1>1. Types'
  BY ShapeKept DEF Types
<1>2. ASSUME NEW f \in Files, file'[f].request # None
      PROVE  /\ file'[f].request \in 1..Len(request')
             /\ file'[f].index \in 1..Len(request'[file'[f].request])
  <2>1. file'[f].request = file[f].request /\ file'[f].index = file[f].index
    BY ShapeKept DEF Kept
  <2>2. file[f].request \in 1..Len(request) /\ file[f].index \in 1..Len(request[file[f].request])
    BY <1>2, <2>1 DEF CallHasFile
  <2>3. QED
    BY <2>1, <2>2, ShapeKept
<1>3. CallShape(call)'
  BY DEF CallShape, PartsShape, Idle
<1>4. QED
  BY <1>1, <1>2, <1>3 DEF CallHasFile

(* Everything a step of a call is, but for the release of the handles.     *)
Effect ==
  /\ Types' /\ CallHasFile' /\ FileStep /\ SentStep /\ UNCHANGED entry
  /\ faulty \subseteq faulty'

LEMMA RequestEffect ==
  ASSUME Types, CallHasFile, call # Idle, NEW takes \in BOOLEAN, NEW lost \in Losses, NEW s,
         NEW before \in FileType, NEW after \in FileType, NEW next \in CallType,
         Kept(file[call.f], before), Kept(file[call.f], after),
         takes => /\ s \in SentType /\ file[call.f].request # None /\ ~Sent(file[call.f]).committed
                  /\ s.size = Sent(file[call.f]).size /\ s.chunks = Sent(file[call.f]).chunks
                  /\ Len(s.data) <= s.size /\ (s.committed => call.pc = "last"),
         CallShape(next),
         Request(takes, lost, s, before, after, next)
  PROVE  Effect
<1>1. /\ FileStep
      /\ UNCHANGED <<entry, stored, storeKey, cachedKey>>
      /\ \/ request' = request
         \/ takes /\ request' = [request EXCEPT ![file[call.f].request][file[call.f].index] = s]
      /\ call' \in {next, Idle} /\ outcome' \in [Files \cup Entries -> Outcomes]
      /\ faults' \in Nat /\ faulty \subseteq faulty' /\ faulty' \in SUBSET Files
  BY RequestStep, Zenon
<1>2. SentStep
  BY <1>1, Zenon DEF SentStep
<1>3. CallShape(Idle)
  BY Zenon DEF CallShape
<1>4. call' \in CallType /\ CallShape(call')
  BY <1>1, <1>3, IdleFacts, Zenon
<1>5. Types' /\ CallHasFile'
  BY <1>1, <1>2, <1>4, ShapeTypes DEF Types
<1>6. QED
  BY <1>1, <1>2, <1>5 DEF Effect

(* Records of which some fields are new.                                   *)
LEMMA SentRecord ==
  ASSUME NEW s \in SentType, NEW data \in Stream,
         s.data \o data \in Stream
  PROVE  LET t == [s EXCEPT !.data = @ \o data, !.parts = @ + 1]
         IN /\ t \in SentType /\ t.size = s.size /\ t.chunks = s.chunks /\ t.data = s.data \o data
            /\ t.parts = s.parts + 1 /\ t.sums = s.sums /\ t.committed = s.committed
<1> DEFINE d == s.data \o data
           p == s.parts + 1
<1>1. d \in Stream /\ s.data \o data = d /\ p \in Nat /\ s.parts + 1 = p
  BY DEF SentType
<1> HIDE DEF d, p
<1>2. [s EXCEPT !.data = @ \o data, !.parts = @ + 1] = [s EXCEPT !.data = d, !.parts = p]
  BY <1>1
<1>3. QED
  BY <1>1, <1>2 DEF SentType

LEMMA SentAs ==
  ASSUME NEW s \in SentType, NEW data \in Stream, s.data \o data \in Stream,
         NEW t, t = [s EXCEPT !.data = @ \o data, !.parts = @ + 1]
  PROVE  t \in SentType /\ t.size = s.size /\ t.chunks = s.chunks /\ t.data = s.data \o data
BY SentRecord

LEMMA CommitRecord ==
  ASSUME NEW s \in SentType, NEW sums \in Sums
  PROVE  LET t == [s EXCEPT !.committed = TRUE, !.sums = sums]
         IN /\ t \in SentType /\ t.size = s.size /\ t.chunks = s.chunks /\ t.data = s.data
            /\ t.parts = s.parts /\ t.sums = sums /\ t.committed
BY DEF SentType

LEMMA NextPart ==
  ASSUME NEW c \in CallType
  PROVE  LET d == [c EXCEPT !.part = @ + 1]
         IN /\ d \in CallType /\ d.op = c.op /\ d.f = c.f /\ d.e = c.e /\ d.at = c.at /\ d.pc = c.pc
            /\ d.part = c.part + 1 /\ d.chunk = c.chunk /\ d.length = c.length /\ d.after = c.after
BY DEF CallType

(* One part is sent.                                                       *)
LEMMA SendEffect ==
  ASSUME Types, CallHasFile, call # Idle, NEW lost \in Losses,
         NEW g \in FileType, Kept(file[call.f], g), NEW data \in Stream,
         NEW next \in CallType,
         CallShape(next),
         SendChunkToServer(g, data, lost, next)
  PROVE  Effect
<1> DEFINE s == [Sent(g) EXCEPT !.data = @ \o data, !.parts = @ + 1]
           after == [g EXCEPT !.serverSeq = @ + 1]
           takes == TakesChunk(g, data)
<1>1. Sent(g) = Sent(file[call.f]) /\ g.request = file[call.f].request
  BY DEF Kept, Sent
<1>2. Request(takes, lost, s, g, after, next)
  BY DEF SendChunkToServer
<1>3. takes \in BOOLEAN /\ after \in FileType /\ Kept(file[call.f], after)
  <2>1. takes \in BOOLEAN
    BY DEF TakesChunk
  <2>2. after \in FileType /\ Kept(g, after)
    BY DEF FileType, Kept
  <2> HIDE DEF takes, after
  <2>3. QED
    BY <2>1, <2>2 DEF Kept
<1>4. ASSUME takes
      PROVE  /\ s \in SentType /\ file[call.f].request # None /\ ~Sent(file[call.f]).committed
             /\ s.size = Sent(file[call.f]).size /\ s.chunks = Sent(file[call.f]).chunks
             /\ Len(s.data) <= s.size /\ (s.committed => call.pc = "last")
  <2>1. file[call.f].request # None /\ Sent(file[call.f]) \in SentType /\ ~Sent(file[call.f]).committed
        /\ Len(Sent(file[call.f]).data) + Len(data) <= Sent(file[call.f]).size
    BY <1>1, <1>4, SentFact, CallFacts DEF TakesChunk
  <2>2. s = [Sent(file[call.f]) EXCEPT !.data = @ \o data, !.parts = @ + 1]
    BY <1>1
  <2>3. Sent(file[call.f]).data \o data \in Stream
        /\ Len(Sent(file[call.f]).data \o data) = Len(Sent(file[call.f]).data) + Len(data)
    BY <2>1, ConcatProperties DEF SentType, Stream
  <2>4. /\ s \in SentType /\ s.size = Sent(file[call.f]).size /\ s.chunks = Sent(file[call.f]).chunks
        /\ s.data = Sent(file[call.f]).data \o data /\ s.committed = Sent(file[call.f]).committed
    <3> DEFINE u == Sent(file[call.f])
    <3>1. u \in SentType /\ u.data \o data \in Stream /\ s = [u EXCEPT !.data = @ \o data, !.parts = @ + 1]
      BY <2>1, <2>2, <2>3
    <3>2. u = Sent(file[call.f])
      OBVIOUS
    <3> HIDE DEF u, s
    <3>3. s \in SentType /\ s.size = u.size /\ s.chunks = u.chunks /\ s.data = u.data \o data
      BY <3>1, SentAs
    <3>4. s.committed = u.committed
      BY <3>1 DEF SentType
    <3>5. QED
      BY <3>2, <3>3, <3>4
  <2> HIDE DEF s
  <2>5. QED
    BY <2>1, <2>3, <2>4
<1> HIDE DEF s, after, takes
<1>5. QED
  BY <1>2, <1>3, <1>4, RequestEffect

LEMMA SendPartEffect ==
  ASSUME Types, CallHasFile, NEW lost \in Losses, SendPart(lost)
  PROVE  Effect
<1> DEFINE g == file[call.f]
           data == GetFullChunk(g.encrypted, PartSize, call.part)
           next == [call EXCEPT !.part = @ + 1]
<1>1. call.pc = "parts" /\ call.part < NumberOfFullChunks(g.encrypted, PartSize)
      /\ SendChunkToServer(g, data, lost, next)
  BY DEF SendPart
<1>2. call # Idle
  BY <1>1, IdleFacts
<1>3. g \in FileType /\ call \in CallType /\ call.part \in Nat /\ g.encrypted \in Stream /\ CallShape(call)
  BY <1>2, CallFacts DEF CallType, FileType
<1>4. data \in Stream
  BY <1>1, <1>3, GetFullChunkFact, Constants DEF Stream
<1>5. next \in CallType /\ CallShape(next)
  <2>1. /\ next \in CallType /\ next.op = call.op /\ next.f = call.f /\ next.e = call.e /\ next.at = call.at
        /\ next.pc = call.pc /\ next.after = call.after
    BY <1>3, NextPart
  <2> HIDE DEF next
  <2>2. QED
    BY <1>1, <1>2, <1>3, <2>1 DEF CallShape, PartsShape
<1>6. Kept(file[call.f], g)
  BY DEF Kept
<1> HIDE DEF g, data, next
<1>7. QED
  BY <1>1, <1>2, <1>3, <1>4, <1>5, <1>6, SendEffect

LEMMA SendLastEffect ==
  ASSUME Types, CallHasFile, NEW lost \in Losses, SendLast(lost)
  PROVE  Effect
<1> DEFINE g == [file[call.f] EXCEPT !.encrypted = <<>>]
           data == file[call.f].encrypted
<1>1. call.pc = "last" /\ SendChunkToServer(g, data, lost, call)
  BY DEF SendLast
<1>2. call # Idle
  BY <1>1, IdleFacts
<1>3. file[call.f] \in FileType /\ call \in CallType /\ CallShape(call)
  BY <1>2, CallFacts
<1>4. g \in FileType /\ Kept(file[call.f], g) /\ data \in Stream
  <2>1. <<>> \in Stream /\ data \in Stream
    BY <1>3, EmptySeq DEF FileType, Stream
  <2>2. g \in FileType
    BY <1>3, <2>1 DEF FileType
  <2>3. Kept(file[call.f], g)
    BY <1>3 DEF Kept, FileType
  <2>4. QED
    BY <2>1, <2>2, <2>3
<1> HIDE DEF g, data
<1>5. QED
  BY <1>1, <1>2, <1>3, <1>4, SendEffect

LEMMA CommittedFact ==
  ASSUME Types, CallHasFile, call.pc = "last"
  PROVE  /\ Committed \in CallType /\ CallShape(Committed) /\ Committed.op = call.op /\ Committed.e = call.e
         /\ Committed.pc \in {"fetch", "sendFile", "release", "finalize"}
         /\ Committed.pc = "sendFile" => /\ ~file[call.f].update /\ Committed.keyId = cachedKey
                                         /\ cachedKey # None /\ Committed.retried = call.retried
         /\ Committed.pc = "finalize" => Committed.at = call.at + 1
         /\ call.op = "close" => Committed.f = call.f /\ Committed.pc \in {"fetch", "sendFile"}
<1> DEFINE go == [call EXCEPT !.length = 0, !.after = "none"]
<1>1. /\ call.f \in Files /\ call \in CallType /\ cachedKey \in Nat \cup {None} /\ CallShape(call)
      /\ call.op \in {"close", "send"} /\ call # Idle
      /\ call.op = "send" => /\ call.e \in Entries /\ entry[call.e].files \in Seq(Files)
                             /\ call.at \in 1..Len(entry[call.e].files)
                             /\ call.f = entry[call.e].files[call.at]
  <2>1. call # Idle
    BY IdleFacts
  <2>2. call.op \in {"close", "send"}
    BY <2>1 DEF CallHasFile, CallShape
  <2>3. QED
    BY <2>1, <2>2, CallFacts DEF Types
<1>2. /\ go \in CallType /\ go.op = call.op /\ go.f = call.f /\ go.e = call.e /\ go.at = call.at
      /\ go.part = call.part /\ go.retried = call.retried
  BY <1>1 DEF CallType
<1>a. go.part = 0
  BY <1>1, <1>2 DEF CallShape, PartsShape
<1> HIDE DEF go
<1>3. CASE call.op = "close"
  <2>1. \/ Committed = [go EXCEPT !.pc = "fetch"]
        \/ /\ Committed = [go EXCEPT !.pc = "sendFile", !.keyId = cachedKey]
           /\ ~file[call.f].update /\ cachedKey # None
    BY <1>3 DEF Committed, go
  <2>2. call.f \in StoreFiles
    BY <1>1, <1>3 DEF CallShape
  <2>3. /\ Committed \in CallType /\ Committed.op = call.op /\ Committed.f = call.f /\ Committed.e = call.e
        /\ Committed.pc \in {"fetch", "sendFile"} /\ Committed.part = 0
        /\ Committed.pc = "sendFile" => /\ ~file[call.f].update /\ Committed.keyId = cachedKey
                                        /\ cachedKey # None /\ Committed.retried = call.retried
    <3>1. ASSUME NEW c, c = [go EXCEPT !.pc = "fetch"]
          PROVE  c \in CallType /\ c.op = go.op /\ c.f = go.f /\ c.e = go.e /\ c.part = go.part /\ c.pc = "fetch"
      BY <1>2, <3>1 DEF CallType
    <3>2. ASSUME NEW c, c = [go EXCEPT !.pc = "sendFile", !.keyId = cachedKey]
          PROVE  /\ c \in CallType /\ c.op = go.op /\ c.f = go.f /\ c.e = go.e /\ c.part = go.part
                 /\ c.pc = "sendFile" /\ c.keyId = cachedKey /\ c.retried = go.retried
      BY <1>1, <1>2, <3>2 DEF CallType
    <3>3. QED
      BY <1>2, <1>a, <2>1, <3>1, <3>2
  <2>4. QED
    BY <1>3, <2>2, <2>3 DEF CallShape, PartsShape
<1>4. CASE call.op = "send" /\ call.at = Len(entry[call.e].files)
  <2>1. Committed = [go EXCEPT !.pc = "release"]
    BY <1>4 DEF Committed, go
  <2>2. /\ Committed \in CallType /\ Committed.op = call.op /\ Committed.f = call.f /\ Committed.e = call.e
        /\ Committed.pc = "release" /\ Committed.part = 0 /\ Committed.at = call.at
    BY <1>2, <1>a, <2>1 DEF CallType
  <2>3. QED
    BY <1>1, <1>4, <2>2 DEF CallShape, PartsShape
<1>5. CASE call.op = "send" /\ call.at # Len(entry[call.e].files)
  <2>2. call.at + 1 \in 1..Len(entry[call.e].files) /\ entry[call.e].files[call.at + 1] \in Files
        /\ call.at + 1 \in Nat
    BY <1>1, <1>5, ElementOfSeq, LenProperties, SMT
  <2> DEFINE f == entry[call.e].files[call.at + 1]
             a == call.at + 1
  <2>4. f \in Files /\ a \in Nat /\ Committed = [go EXCEPT !.pc = "finalize", !.at = a, !.f = f]
    BY <1>2, <1>5, <2>2 DEF Committed, go
  <2>5. f = entry[call.e].files[call.at + 1] /\ a = call.at + 1
    OBVIOUS
  <2> HIDE DEF f, a
  <2>6. /\ Committed \in CallType /\ Committed.op = call.op /\ Committed.f = f /\ Committed.pc = "finalize"
        /\ Committed.e = call.e /\ Committed.at = call.at + 1 /\ Committed.part = 0
    BY <1>2, <1>a, <2>4, <2>5 DEF CallType
  <2>7. QED
    BY <1>1, <1>5, <2>2, <2>4, <2>5, <2>6 DEF CallShape, PartsShape
<1>7. QED
  BY <1>1, <1>3, <1>4, <1>5

LEMMA CommitFileEffect ==
  ASSUME Types, CallHasFile, NEW lost \in Losses, CommitFile(lost)
  PROVE  Effect
<1> DEFINE g == file[call.f]
           s == [Sent(g) EXCEPT !.committed = TRUE, !.sums = g.sums]
           takes == TakesCommit(g)
<1>1. call.pc = "last" /\ Request(takes, lost, s, g, g, Committed)
  BY DEF CommitFile
<1>2. call # Idle
  BY <1>1, IdleFacts
<1>3. g \in FileType /\ call.f \in Files /\ Committed \in CallType /\ CallShape(Committed) /\ takes \in BOOLEAN
      /\ Kept(file[call.f], g)
  BY <1>1, <1>2, CallFacts, CommittedFact DEF TakesCommit, Kept
<1>4. ASSUME takes
      PROVE  /\ s \in SentType /\ file[call.f].request # None /\ ~Sent(file[call.f]).committed
             /\ s.size = Sent(file[call.f]).size /\ s.chunks = Sent(file[call.f]).chunks
             /\ Len(s.data) <= s.size /\ (s.committed => call.pc = "last")
  <2>1. /\ g.request # None /\ Sent(g) \in SentType /\ ~Sent(g).committed /\ g.sums \in Sums
        /\ Len(Sent(g).data) = Sent(g).size /\ Sent(g).size \in Nat
    BY <1>3, <1>4, SentFact DEF TakesCommit, FileType, SentType
  <2>2. s \in SentType /\ s.size = Sent(g).size /\ s.chunks = Sent(g).chunks /\ s.data = Sent(g).data
    BY <2>1, CommitRecord, Zenon
  <2> HIDE DEF s
  <2>3. QED
    BY <1>1, <2>1, <2>2
<1> HIDE DEF g, s, takes
<1>5. QED
  BY <1>1, <1>2, <1>3, <1>4, RequestEffect

(* The steps that send nothing, or nothing of a file.                      *)
LEMMA CallEffect ==
  ASSUME Types, CallHasFile, call # Idle, NEW g \in FileType, Kept(file[call.f], g),
         NEW next \in CallType, CallShape(next), NEW error \in Outcomes,
         Continue(g, next) \/ Throw(g, error),
         UNCHANGED <<entry, request>>, stored' \in Seq(StoredType), storeKey' \in Nat,
         cachedKey' \in Nat \cup {None}, faults' \in Nat,
         faulty \subseteq faulty' /\ faulty' \in SUBSET Files
  PROVE  Effect
<1>1. call.f \in Files /\ Caller \in Files \cup Entries
  BY CallFacts
<1>2. CallShape(Idle)
  BY Zenon DEF CallShape
<1>3. SentStep
  BY DEF SentStep
<1>4. FileStep /\ call' \in CallType /\ CallShape(call') /\ outcome' \in [Files \cup Entries -> Outcomes]
  <2>1. CASE Continue(g, next)
    BY <1>1, <2>1 DEF Continue, FileStep, Types
  <2>2. CASE Throw(g, error)
    <3> DEFINE h == [g EXCEPT !.torn = @ \/ call.op = "write"]
    <3>1. h \in FileType /\ Kept(file[call.f], h)
      BY DEF FileType, Kept
    <3>2. file' = [file EXCEPT ![call.f] = h] /\ call' = Idle
      BY <2>2 DEF Throw
    <3>3. outcome' \in [Files \cup Entries -> Outcomes]
      BY <1>1, <2>2 DEF Throw, Types
    <3> HIDE DEF h
    <3>4. FileStep
      BY <1>1, <3>1, <3>2 DEF FileStep
    <3>5. QED
      BY <1>2, <3>2, <3>3, <3>4, IdleFacts
  <2>3. QED
    BY <2>1, <2>2
<1>5. Types' /\ CallHasFile'
  BY <1>3, <1>4, ShapeTypes
<1>6. QED
  BY <1>3, <1>4, <1>5 DEF Effect

LEMMA LocalEffect ==
  ASSUME Types, CallHasFile, call # Idle, NEW g \in FileType, Kept(file[call.f], g),
         NEW next \in CallType, CallShape(next), NEW error \in Outcomes,
         Continue(g, next) \/ Throw(g, error), UNCHANGED <<entry, request, stored, keys, losses>>
  PROVE  Effect
<1>1. /\ UNCHANGED <<entry, request>> /\ stored' \in Seq(StoredType) /\ storeKey' \in Nat
      /\ cachedKey' \in Nat \cup {None} /\ faults' \in Nat
      /\ faulty \subseteq faulty' /\ faulty' \in SUBSET Files
  BY DEF Types, keys, losses
<1>2. QED
  BY <1>1, CallEffect

(* A file of which a chunk has been encrypted.                             *)
Prepared(g, data) ==
  [[g EXCEPT !.uploaded = @ + Len(data)] EXCEPT
     !.sums = Append(@, PrepareChunk(g.key, g.seq, data)),
     !.encrypted = @ \o BytesOf(PrepareChunk(g.key, g.seq, data)),
     !.early = @ \/ g.request = None]

LEMMA PreparedFact ==
  ASSUME NEW g \in FileType, NEW data \in Plain
  PROVE  LET h == Prepared(g, data)
             chunk == PrepareChunk(g.key, g.seq, data)
         IN /\ chunk \in Chunks /\ chunk.plain = data /\ chunk.key = g.key /\ chunk.seq = g.seq
            /\ BytesOf(chunk) \in Stream /\ Len(data) \in Nat
            /\ h \in FileType /\ Kept(g, h)
            /\ h.uploaded = g.uploaded + Len(data) /\ h.sums = Append(g.sums, chunk)
            /\ h.encrypted = g.encrypted \o BytesOf(chunk) /\ (h.early <=> (g.early \/ g.request = None))
            /\ h.buf = g.buf /\ h.seq = g.seq /\ h.processed = g.processed
            /\ h.serverSeq = g.serverSeq /\ h.torn = g.torn
<1> DEFINE chunk == PrepareChunk(g.key, g.seq, data)
           b == BytesOf(chunk)
           u == g.uploaded + Len(data)
           s == Append(g.sums, chunk)
           e == g.encrypted \o b
           y == (g.early \/ g.request = None)
<1>1. Len(data) \in Nat
  BY LenProperties DEF Plain
<1>2. chunk \in Chunks /\ chunk.plain = data /\ chunk.key = g.key /\ chunk.seq = g.seq
  BY DEF PrepareChunk, Chunks, FileType
<1> HIDE DEF chunk
<1>3. b \in Stream
  BY <1>2, BytesOfFact
<1>4. u \in Nat /\ y \in BOOLEAN
  BY <1>1 DEF FileType
<1>5. s \in Sums
  BY <1>2, AppendProperties DEF FileType, Sums
<1> HIDE DEF b
<1>6. e \in Stream
  BY <1>3, ConcatProperties DEF FileType, Stream
<1>7. Prepared(g, data) = [g EXCEPT !.uploaded = u, !.sums = s, !.encrypted = e, !.early = y]
  BY DEF Prepared, chunk, b, FileType
<1>8. g.early \in BOOLEAN /\ (y <=> (g.early \/ g.request = None)) /\ (g.early => y)
  BY DEF FileType
<1>9. s = Append(g.sums, chunk) /\ e = g.encrypted \o b /\ u = g.uploaded + Len(data)
  OBVIOUS
<1> HIDE DEF u, s, e, y
<1> DEFINE h == Prepared(g, data)
<1>10. /\ h \in FileType
       /\ h.uploaded = u /\ h.sums = s /\ h.encrypted = e /\ h.early = y
       /\ h.buf = g.buf /\ h.seq = g.seq /\ h.processed = g.processed
       /\ h.serverSeq = g.serverSeq /\ h.torn = g.torn
  BY <1>4, <1>5, <1>6, <1>7, ZenonT(60) DEF FileType
<1>11. h.state = g.state /\ h.total = g.total /\ h.key = g.key /\ h.request = g.request
       /\ h.index = g.index /\ h.update = g.update /\ h.began = g.began
  BY <1>7 DEF FileType
<1> HIDE DEF h
<1>12. Kept(g, h)
  BY <1>8, <1>10, <1>11 DEF Kept
<1>13. QED
  BY <1>1, <1>2, <1>3, <1>8, <1>9, <1>10, <1>12 DEF h, b, chunk

LEMMA CountedFact ==
  ASSUME NEW g \in FileType, NEW n \in Nat
  PROVE  LET h == [g EXCEPT !.uploaded = @ + n]
         IN h \in FileType /\ Kept(g, h) /\ h.torn = g.torn
BY DEF FileType, Kept

LEMMA KeptTransitive ==
  ASSUME NEW f, NEW g, NEW h, Kept(f, g), Kept(g, h) PROVE Kept(f, h)
BY DEF Kept

LEMMA PrepareEffect ==
  ASSUME Types, CallHasFile, call # Idle, NEW g \in FileType, Kept(file[call.f], g), NEW data \in Plain,
         NEW after \in {"write", "check"}, after = "write" <=> call.op = "write",
         call.op = "send" => call.at \in 1..Len(entry[call.e].files),
         PrepareAndSendChunk(g, data, after)
  PROVE  Effect
<1> DEFINE next == [call EXCEPT !.pc = "parts", !.part = 0, !.length = Len(data), !.after = after]
           counted == [g EXCEPT !.uploaded = @ + Len(data)]
<1>1. call \in CallType /\ CallShape(call)
  BY CallFacts
<1>2. Len(data) \in Nat /\ Prepared(g, data) \in FileType /\ Kept(g, Prepared(g, data))
  BY PreparedFact
<1>3. counted \in FileType /\ Kept(g, counted)
  BY <1>2, CountedFact
<1>4. next \in CallType /\ CallShape(next)
  <2>1. /\ next \in CallType /\ next.op = call.op /\ next.f = call.f /\ next.e = call.e /\ next.at = call.at
        /\ next.pc = "parts" /\ next.after = after /\ next.part = 0
    BY <1>1, <1>2 DEF CallType
  <2> HIDE DEF next
  <2>2. QED
    BY <1>1, <2>1 DEF CallShape, PartsShape
<1>5. \/ Throw(counted, "size")
      \/ Continue(Prepared(g, data), next)
  BY DEF PrepareAndSendChunk, Prepared
<1>6. UNCHANGED <<entry, request, stored, keys, losses>>
  BY DEF PrepareAndSendChunk
<1>7. Kept(file[call.f], counted) /\ Kept(file[call.f], Prepared(g, data)) /\ "size" \in Outcomes
  BY <1>2, <1>3, KeptTransitive DEF Outcomes
<1> HIDE DEF next, counted
<1>8. QED
  BY <1>2, <1>3, <1>4, <1>5, <1>6, <1>7, LocalEffect

LEMMA WriteChunkEffect ==
  ASSUME Types, CallHasFile, WriteChunk
  PROVE  Effect
<1> DEFINE g == file[call.f]
           data == GetFullChunk(g.buf, ChunkSize, call.chunk)
<1>1. call.pc = "write" /\ call.chunk < NumberOfFullChunks(g.buf, ChunkSize)
      /\ PrepareAndSendChunk(g, data, "write")
  BY DEF WriteChunk
<1>2. call # Idle
  BY <1>1, IdleFacts
<1>3. /\ g \in FileType /\ call \in CallType /\ call.chunk \in Nat /\ g.buf \in Plain /\ CallShape(call)
      /\ call.op = "write" /\ Kept(file[call.f], g)
  BY <1>1, <1>2, CallFacts DEF CallType, FileType, CallShape, Kept
<1>4. data \in Plain
  BY <1>1, <1>3, GetFullChunkFact, Constants DEF Plain
<1> HIDE DEF g, data
<1>5. QED
  BY <1>1, <1>2, <1>3, <1>4, PrepareEffect

LEMMA FreedFact ==
  ASSUME NEW g \in FileType
  PROVE  LET h == [g EXCEPT !.buf = FreeFullChunks(@, ChunkSize)]
         IN /\ h \in FileType /\ Kept(g, h) /\ h.buf = FreeFullChunks(g.buf, ChunkSize)
            /\ h.seq = g.seq /\ h.sums = g.sums /\ h.encrypted = g.encrypted /\ h.processed = g.processed
            /\ h.uploaded = g.uploaded /\ h.serverSeq = g.serverSeq /\ h.torn = g.torn /\ h.early = g.early
<1> DEFINE b == FreeFullChunks(g.buf, ChunkSize)
           n == NumberOfFullChunks(g.buf, ChunkSize)
<1>1. n \in Nat
  BY DivFact, Constants, LenProperties DEF NumberOfFullChunks, FileType, Plain
<1>2. b \in Plain
  BY <1>1, FreeFullChunksFact, Constants DEF FileType, Plain
<1>3. [g EXCEPT !.buf = FreeFullChunks(@, ChunkSize)] = [g EXCEPT !.buf = b]
  OBVIOUS
<1> HIDE DEF b
<1>4. QED
  BY <1>2, <1>3 DEF FileType, Kept, b

LEMMA WriteEndsEffect ==
  ASSUME Types, CallHasFile, WriteEnds
  PROVE  Effect
<1> DEFINE h == [file[call.f] EXCEPT !.buf = FreeFullChunks(@, ChunkSize)]
<1>1. call.pc = "write" /\ Continue(h, Idle) /\ UNCHANGED <<entry, request, stored, keys, losses>>
  BY DEF WriteEnds
<1>2. call # Idle
  BY <1>1, IdleFacts
<1>3. h \in FileType /\ Kept(file[call.f], h)
  BY <1>2, CallFacts, FreedFact
<1>4. CallShape(Idle) /\ Idle \in CallType /\ "none" \in Outcomes
  BY IdleFacts DEF CallShape, Outcomes
<1> HIDE DEF h
<1>5. QED
  BY <1>1, <1>2, <1>3, <1>4, LocalEffect

LEMMA StreamFreedFact ==
  ASSUME NEW g \in FileType
  PROVE  LET h == [g EXCEPT !.encrypted = FreeFullChunks(@, PartSize)]
         IN /\ h \in FileType /\ Kept(g, h) /\ h.encrypted = FreeFullChunks(g.encrypted, PartSize)
            /\ h.seq = g.seq /\ h.sums = g.sums /\ h.buf = g.buf /\ h.processed = g.processed
            /\ h.uploaded = g.uploaded /\ h.serverSeq = g.serverSeq /\ h.torn = g.torn /\ h.early = g.early
<1> DEFINE b == FreeFullChunks(g.encrypted, PartSize)
           n == NumberOfFullChunks(g.encrypted, PartSize)
<1>1. n \in Nat
  BY DivFact, Constants, LenProperties DEF NumberOfFullChunks, FileType, Stream
<1>2. b \in Stream
  BY <1>1, FreeFullChunksFact, Constants DEF FileType, Stream
<1>3. [g EXCEPT !.encrypted = FreeFullChunks(@, PartSize)] = [g EXCEPT !.encrypted = b]
  OBVIOUS
<1> HIDE DEF b
<1>4. QED
  BY <1>2, <1>3 DEF FileType, Kept, b

LEMMA ChunkSentFact ==
  ASSUME NEW g \in FileType, NEW n \in Nat
  PROVE  LET h == ChunkSent(g, n)
         IN /\ h \in FileType /\ Kept(g, h) /\ h.processed = g.processed + n /\ h.seq = g.seq + 1
            /\ h.encrypted = g.encrypted /\ h.sums = g.sums /\ h.buf = g.buf
            /\ h.uploaded = g.uploaded /\ h.serverSeq = g.serverSeq /\ h.torn = g.torn /\ h.early = g.early
<1> DEFINE p == g.processed + n
           q == g.seq + 1
<1>1. p \in Nat /\ q \in Nat
  BY DEF FileType
<1>2. ChunkSent(g, n) = [g EXCEPT !.processed = p, !.seq = q]
  BY DEF ChunkSent
<1>3. p = g.processed + n /\ q = g.seq + 1
  OBVIOUS
<1> HIDE DEF p, q
<1>4. QED
  BY <1>1, <1>2, <1>3 DEF FileType, Kept

(* What PartsSent makes of the call.                                       *)
Returned(c) ==
  [c EXCEPT !.pc = c.after, !.part = 0, !.chunk = IF c.after = "write" THEN @ + 1 ELSE @]

LEMMA ReturnedFact ==
  ASSUME NEW c \in CallType, c.pc = "parts", CallShape(c)
  PROVE  /\ Returned(c) \in CallType /\ CallShape(Returned(c)) /\ Returned(c).pc = c.after
         /\ Returned(c).op = c.op /\ Returned(c).f = c.f /\ Returned(c).e = c.e /\ Returned(c).part = 0
         /\ Returned(c).chunk = (IF c.after = "write" THEN c.chunk + 1 ELSE c.chunk)
         /\ Returned(c).length = c.length /\ Returned(c).at = c.at /\ c.after \in {"write", "check", "last"}
         /\ c.after = "write" <=> c.op = "write"
<1>1. c.after \in {"write", "check", "last"} /\ (c.after = "write" <=> c.op = "write")
  BY IdleFacts DEF CallShape, PartsShape
<1>2. c.chunk + 1 \in Nat
  BY DEF CallType
<1>5. /\ Returned(c) \in CallType /\ Returned(c).pc = c.after
      /\ Returned(c).chunk = (IF c.after = "write" THEN c.chunk + 1 ELSE c.chunk)
      /\ Returned(c).op = c.op /\ Returned(c).f = c.f /\ Returned(c).e = c.e /\ Returned(c).part = 0
      /\ Returned(c).length = c.length /\ Returned(c).at = c.at
  <2>1. CASE c.after = "write"
    BY <1>2, <2>1 DEF CallType, Returned
  <2>2. CASE c.after = "check"
    BY <2>2 DEF CallType, Returned
  <2>3. CASE c.after = "last"
    BY <2>3 DEF CallType, Returned
  <2>4. QED
    BY <1>1, <2>1, <2>2, <2>3
<1>6. CallShape(Returned(c))
  BY <1>1, <1>5, IdleFacts DEF CallShape, PartsShape
<1>7. QED
  BY <1>1, <1>5, <1>6

(* What PartsSent makes of the file.                                       *)
Freed(g, c) ==
  LET free == [g EXCEPT !.encrypted = FreeFullChunks(@, PartSize)]
  IN IF c.after = "last" THEN free ELSE ChunkSent(free, c.length)

LEMMA FreedStreamFact ==
  ASSUME NEW g \in FileType, NEW c \in CallType
  PROVE  /\ Freed(g, c) \in FileType /\ Kept(g, Freed(g, c))
         /\ Freed(g, c).encrypted = FreeFullChunks(g.encrypted, PartSize)
         /\ Freed(g, c).sums = g.sums /\ Freed(g, c).buf = g.buf
         /\ Freed(g, c).uploaded = g.uploaded /\ Freed(g, c).serverSeq = g.serverSeq
         /\ Freed(g, c).torn = g.torn /\ Freed(g, c).early = g.early
         /\ Freed(g, c).seq = (IF c.after = "last" THEN g.seq ELSE g.seq + 1)
         /\ Freed(g, c).processed = (IF c.after = "last" THEN g.processed ELSE g.processed + c.length)
<1> DEFINE h == [g EXCEPT !.encrypted = FreeFullChunks(@, PartSize)]
<1>1. /\ h \in FileType /\ Kept(g, h) /\ h.encrypted = FreeFullChunks(g.encrypted, PartSize)
      /\ h.seq = g.seq /\ h.sums = g.sums /\ h.buf = g.buf /\ h.processed = g.processed
      /\ h.uploaded = g.uploaded /\ h.serverSeq = g.serverSeq /\ h.torn = g.torn /\ h.early = g.early
  BY StreamFreedFact
<1>2. Freed(g, c) = IF c.after = "last" THEN h ELSE ChunkSent(h, c.length)
  BY DEF Freed
<1>3. c.length \in Nat
  BY DEF CallType
<1> HIDE DEF h
<1>4. CASE c.after = "last"
  BY <1>1, <1>2, <1>4
<1>5. CASE c.after # "last"
  <2>1. Freed(g, c) = ChunkSent(h, c.length)
    BY <1>2, <1>5
  <2>2. Kept(g, ChunkSent(h, c.length))
    BY <1>1, <1>3, ChunkSentFact, KeptTransitive
  <2>3. LET k == ChunkSent(h, c.length)
        IN /\ k \in FileType /\ k.processed = h.processed + c.length /\ k.seq = h.seq + 1
           /\ k.encrypted = h.encrypted /\ k.sums = h.sums /\ k.buf = h.buf
           /\ k.uploaded = h.uploaded /\ k.serverSeq = h.serverSeq /\ k.torn = h.torn /\ k.early = h.early
    BY <1>1, <1>3, ChunkSentFact, Zenon
  <2>4. QED
    BY <1>1, <1>5, <2>1, <2>2, <2>3, Zenon
<1>6. QED
  BY <1>4, <1>5

LEMMA PartsSentEffect ==
  ASSUME Types, CallHasFile, PartsSent
  PROVE  Effect
<1>1. /\ call.pc = "parts" /\ Continue(Freed(file[call.f], call), Returned(call))
      /\ UNCHANGED <<entry, request, stored, keys, losses>>
  BY DEF PartsSent, Freed, Returned
<1>2. call # Idle
  BY <1>1, IdleFacts
<1>3. file[call.f] \in FileType /\ call \in CallType /\ CallShape(call) /\ "none" \in Outcomes
  BY <1>2, CallFacts DEF Outcomes
<1>4. Returned(call) \in CallType /\ CallShape(Returned(call))
  BY <1>1, <1>3, ReturnedFact
<1>5. Freed(file[call.f], call) \in FileType /\ Kept(file[call.f], Freed(file[call.f], call))
  BY <1>3, FreedStreamFact
<1>6. QED
  BY <1>1, <1>2, <1>3, <1>4, <1>5, LocalEffect

(* What finalize takes out of the buffer, and what it leaves.              *)
LastChunk(g) == SubSeq(g.buf, 1, Min({Len(g.buf), ChunkSize}))
Rest(g) == [g EXCEPT !.buf = SubSeq(@, Len(LastChunk(g)) + 1, Len(@))]

LEMMA RestFact ==
  ASSUME NEW g \in FileType
  PROVE  /\ LastChunk(g) \in Plain
         /\ Len(LastChunk(g)) = (IF Len(g.buf) <= ChunkSize THEN Len(g.buf) ELSE ChunkSize)
         /\ \A k \in 1..Len(LastChunk(g)) : LastChunk(g)[k] = g.buf[k]
         /\ Rest(g) \in FileType /\ Kept(g, Rest(g)) /\ Len(Rest(g).buf) = Len(g.buf) - Len(LastChunk(g))
         /\ Rest(g).sums = g.sums /\ Rest(g).encrypted = g.encrypted
         /\ Rest(g).uploaded = g.uploaded /\ Rest(g).serverSeq = g.serverSeq
         /\ Rest(g).torn = g.torn /\ Rest(g).early = g.early
         /\ Rest(g).seq = g.seq /\ Rest(g).processed = g.processed
<1> DEFINE m == Min({Len(g.buf), ChunkSize})
           r == SubSeq(g.buf, m + 1, Len(g.buf))
<1>1. g.buf \in Plain
  BY DEF FileType
<1>2. /\ m \in 0..Len(g.buf) /\ m = (IF Len(g.buf) <= ChunkSize THEN Len(g.buf) ELSE ChunkSize)
      /\ SubSeq(g.buf, 1, m) \in Plain /\ Len(SubSeq(g.buf, 1, m)) = m
      /\ \A k \in 1..m : SubSeq(g.buf, 1, m)[k] = g.buf[k]
      /\ r \in Plain /\ Len(r) = Len(g.buf) - m
  BY <1>1, LastChunkFact DEF Plain
<1>3. LastChunk(g) = SubSeq(g.buf, 1, m)
  BY DEF LastChunk
<1>4. Rest(g) = [g EXCEPT !.buf = r]
  BY <1>2, <1>3 DEF Rest
<1> HIDE DEF m, r
<1>5. /\ Rest(g) \in FileType /\ Kept(g, Rest(g)) /\ Rest(g).buf = r
      /\ Rest(g).sums = g.sums /\ Rest(g).encrypted = g.encrypted
      /\ Rest(g).uploaded = g.uploaded /\ Rest(g).serverSeq = g.serverSeq
      /\ Rest(g).torn = g.torn /\ Rest(g).early = g.early
      /\ Rest(g).seq = g.seq /\ Rest(g).processed = g.processed
  BY <1>2, <1>4 DEF FileType, Kept
<1>6. QED
  BY <1>2, <1>3, <1>5

(* finalize, by cases.                                                     *)
LEMMA FinalizeCases ==
  ASSUME Finalize
  PROVE  /\ call.pc = "finalize"
         /\ \/ /\ file[call.f].total # FileSize[call.f]
               /\ Throw(file[call.f], "different")
               /\ UNCHANGED <<entry, request, stored, keys, losses>>
            \/ /\ file[call.f].total = FileSize[call.f] /\ LastChunk(file[call.f]) # <<>>
               /\ PrepareAndSendChunk(Rest(file[call.f]), LastChunk(file[call.f]), "check")
            \/ /\ file[call.f].total = FileSize[call.f] /\ LastChunk(file[call.f]) = <<>>
               /\ Continue(Rest(file[call.f]), [call EXCEPT !.pc = "check"])
               /\ UNCHANGED <<entry, request, stored, keys, losses>>
BY Zenon DEF Finalize, LastChunk, Rest

LEMMA FinalizeEffect ==
  ASSUME Types, CallHasFile, Finalize
  PROVE  Effect
<1> DEFINE g == file[call.f]
           next == [call EXCEPT !.pc = "check"]
<1>1. call.pc = "finalize"
  BY FinalizeCases
<1>2. call # Idle
  BY <1>1, IdleFacts
<1>3. g \in FileType /\ call \in CallType /\ CallShape(call) /\ Kept(file[call.f], g)
      /\ call.op # "write" /\ (call.op = "send" => call.at \in 1..Len(entry[call.e].files))
  BY <1>1, <1>2, CallFacts DEF Kept, CallShape
<1>4. /\ LastChunk(g) \in Plain /\ Rest(g) \in FileType /\ Kept(file[call.f], Rest(g))
  BY <1>3, RestFact
<1>5. next \in CallType /\ CallShape(next)
  <2>1. /\ next \in CallType /\ next.op = call.op /\ next.f = call.f /\ next.e = call.e /\ next.at = call.at
        /\ next.pc = "check" /\ next.part = call.part
    BY <1>3 DEF CallType
  <2> HIDE DEF next
  <2>2. QED
    BY <1>1, <1>2, <1>3, <2>1 DEF CallShape, PartsShape
<1>6. "different" \in Outcomes
  BY DEF Outcomes
<1>7. CASE /\ Throw(g, "different")
           /\ UNCHANGED <<entry, request, stored, keys, losses>>
  BY <1>2, <1>3, <1>5, <1>6, <1>7, LocalEffect
<1>8. CASE PrepareAndSendChunk(Rest(g), LastChunk(g), "check")
  BY <1>2, <1>3, <1>4, <1>8, PrepareEffect
<1>9. CASE /\ Continue(Rest(g), next)
           /\ UNCHANGED <<entry, request, stored, keys, losses>>
  <2> HIDE DEF g, next
  <2>1. QED
    BY <1>2, <1>4, <1>5, <1>6, <1>9, LocalEffect
<1>10. QED
  BY <1>7, <1>8, <1>9, FinalizeCases

LEMMA CheckSizeEffect ==
  ASSUME Types, CallHasFile, CheckSize
  PROVE  Effect
<1> DEFINE g == file[call.f]
           next == [call EXCEPT !.pc = "parts", !.after = "last"]
<1>1. call.pc = "check" /\ (Throw(g, "smaller") \/ Continue(g, next))
      /\ UNCHANGED <<entry, request, stored, keys, losses>>
  BY DEF CheckSize
<1>2. call # Idle
  BY <1>1, IdleFacts
<1>3. g \in FileType /\ call \in CallType /\ CallShape(call) /\ Kept(file[call.f], g)
  BY <1>1, <1>2, CallFacts DEF Kept
<1>5. next \in CallType /\ CallShape(next)
  <2>1. /\ next \in CallType /\ next.op = call.op /\ next.f = call.f /\ next.e = call.e /\ next.at = call.at
        /\ next.pc = "parts" /\ next.after = "last"
    BY <1>3 DEF CallType
  <2> HIDE DEF next
  <2>2. QED
    BY <1>1, <1>2, <1>3, <2>1 DEF CallShape, PartsShape
<1>6. "smaller" \in Outcomes
  BY DEF Outcomes
<1> HIDE DEF g, next
<1>7. QED
  BY <1>1, <1>2, <1>3, <1>5, <1>6, LocalEffect

LEMMA LossFact ==
  ASSUME Types, CallHasFile, call # Idle, NEW lost, CountLoss(lost)
  PROVE  faults' \in Nat /\ faulty \subseteq faulty' /\ faulty' \in SUBSET Files
BY CallFacts DEF CountLoss, Types

LEMMA FetchKeyEffect ==
  ASSUME Types, CallHasFile, NEW lost \in Losses, FetchKey(lost)
  PROVE  Effect
<1> DEFINE g == file[call.f]
           next == [call EXCEPT !.pc = "sendFile", !.keyId = storeKey]
<1>1. /\ call.pc = "fetch" /\ (Continue(g, next) \/ Throw(g, "lost")) /\ CountLoss(lost)
      /\ UNCHANGED <<entry, request, stored, storeKey>> /\ cachedKey' \in {storeKey, cachedKey}
  BY DEF FetchKey
<1>2. call # Idle
  BY <1>1, IdleFacts
<1>3. g \in FileType /\ call \in CallType /\ CallShape(call) /\ Kept(file[call.f], g)
  BY <1>1, <1>2, CallFacts DEF Kept
<1>4. storeKey \in Nat /\ cachedKey' \in Nat \cup {None} /\ storeKey' \in Nat /\ stored' \in Seq(StoredType)
  BY <1>1 DEF Types
<1>5. next \in CallType /\ CallShape(next)
  <2>1. /\ next \in CallType /\ next.op = call.op /\ next.f = call.f /\ next.e = call.e /\ next.at = call.at
        /\ next.pc = "sendFile" /\ next.part = call.part
    BY <1>3, <1>4 DEF CallType
  <2> HIDE DEF next
  <2>2. QED
    BY <1>1, <1>2, <1>3, <2>1 DEF CallShape, PartsShape
<1>6. "lost" \in Outcomes
  BY DEF Outcomes
<1> HIDE DEF g, next
<1>7. QED
  BY <1>1, <1>2, <1>3, <1>4, <1>5, <1>6, LossFact, CallEffect

(* What the server keeps.                                                  *)
LEMMA CreatedFact ==
  ASSUME Types, NEW by \in Files \cup Entries, NEW r \in Nat \cup {None}, NEW fs \in Seq(Files)
  PROVE  LET x == [by |-> by, request |-> r, files |-> fs,
                   metas |-> [i \in 1..Len(fs) |-> MetaOf(file[fs[i]])]]
         IN /\ x \in StoredType /\ Created(by, r, fs) = Append(stored, x)
            /\ Created(by, r, fs) \in Seq(StoredType)
            /\ x.by = by /\ x.request = r /\ x.files = fs /\ Len(x.metas) = Len(fs)
            /\ \A i \in 1..Len(fs) : x.metas[i] = MetaOf(file[fs[i]])
<1> DEFINE ms == [i \in 1..Len(fs) |-> MetaOf(file[fs[i]])]
           x == [by |-> by, request |-> r, files |-> fs, metas |-> ms]
<1>1. Len(fs) \in Nat
  BY LenProperties
<1>2. \A i \in 1..Len(fs) : MetaOf(file[fs[i]]) \in MetaType
  <2> SUFFICES ASSUME NEW i \in 1..Len(fs) PROVE MetaOf(file[fs[i]]) \in MetaType
    OBVIOUS
  <2>1. file[fs[i]] \in FileType
    BY ElementOfSeq DEF Types
  <2>2. QED
    BY <2>1 DEF MetaOf, MetaType, FileType
<1>3. ms \in Seq(MetaType)
  BY <1>1, <1>2, IsASeq
<1>4. Len(ms) = Len(fs) /\ \A i \in 1..Len(fs) : ms[i] = MetaOf(file[fs[i]])
  BY <1>1, <1>3
<1>5. Created(by, r, fs) = Append(stored, x)
  BY DEF Created
<1> HIDE DEF ms
<1>6. x \in StoredType /\ x.by = by /\ x.request = r /\ x.files = fs /\ x.metas = ms
  BY <1>3 DEF StoredType
<1> HIDE DEF x
<1>7. Created(by, r, fs) \in Seq(StoredType)
  BY <1>5, <1>6, AppendProperties DEF Types
<1>8. QED
  BY <1>4, <1>5, <1>6, <1>7 DEF x, ms

LEMMA SendFileEffect ==
  ASSUME Types, CallHasFile, NEW lost \in Losses, SendFile(lost)
  PROVE  Effect
<1> DEFINE g == file[call.f]
           next == [call EXCEPT !.pc = "fetch", !.retried = TRUE]
           takes == call.keyId = storeKey /\ TakesRequest(g.request, 1)
           error == IF lost # "no" THEN "lost" ELSE IF takes THEN "stored"
                    ELSE IF call.keyId = storeKey THEN "refused" ELSE "InvalidKey"
<1>1. /\ call.pc = "sendFile" /\ (Continue(g, next) \/ Throw(g, error)) /\ CountLoss(lost)
      /\ UNCHANGED <<entry, request, storeKey, cachedKey>>
      /\ stored' \in {stored, Created(call.f, g.request, <<call.f>>)}
  BY DEF SendFile, keys
<1>2. call # Idle
  BY <1>1, IdleFacts
<1>3. /\ g \in FileType /\ call \in CallType /\ CallShape(call) /\ Kept(file[call.f], g)
      /\ call.f \in Files
  BY <1>1, <1>2, CallFacts DEF Kept
<1>4. cachedKey' \in Nat \cup {None} /\ storeKey' \in Nat /\ stored' \in Seq(StoredType)
  <2>1. g.request \in Nat \cup {None} /\ <<call.f>> \in Seq(Files)
    BY <1>3 DEF FileType
  <2>2. Created(call.f, g.request, <<call.f>>) \in Seq(StoredType)
    BY <1>3, <2>1, CreatedFact
  <2> HIDE DEF g
  <2>3. QED
    BY <1>1, <2>2 DEF Types
<1>5. next \in CallType /\ CallShape(next)
  <2>1. /\ next \in CallType /\ next.op = call.op /\ next.f = call.f /\ next.e = call.e /\ next.at = call.at
        /\ next.pc = "fetch" /\ next.part = call.part
    BY <1>3 DEF CallType
  <2> HIDE DEF next
  <2>2. QED
    BY <1>1, <1>2, <1>3, <2>1 DEF CallShape, PartsShape
<1>6. error \in Outcomes
  BY DEF Outcomes
<1> HIDE DEF g, next, error
<1>7. QED
  BY <1>1, <1>2, <1>3, <1>4, <1>5, <1>6, LossFact, CallEffect

LEMMA InboxSendEffect ==
  ASSUME Types, CallHasFile, NEW lost \in Losses, InboxSend(lost)
  PROVE  Effect
<1> DEFINE g == file[call.f]
           fs == entry[call.e].files
           r == file[fs[1]].request
           error == IF lost # "no" THEN "lost" ELSE IF TakesRequest(r, Len(fs)) THEN "stored" ELSE "refused"
<1>1. /\ call.pc = "send" /\ Throw(g, error) /\ CountLoss(lost)
      /\ UNCHANGED <<entry, request, storeKey, cachedKey>>
      /\ stored' \in {stored, Created(call.e, r, fs)}
  BY DEF InboxSend, keys
<1>2. call # Idle
  BY <1>1, IdleFacts
<1>3. /\ g \in FileType /\ call \in CallType /\ CallShape(call) /\ Kept(file[call.f], g)
      /\ call.f \in Files /\ call.op = "send"
  BY <1>1, <1>2, CallFacts DEF Kept, CallShape
<1>a. call.e \in Entries /\ fs \in Seq(Files) /\ call.at \in 1..Len(fs)
  BY <1>2, <1>3, CallFacts
<1>4. cachedKey' \in Nat \cup {None} /\ storeKey' \in Nat /\ stored' \in Seq(StoredType)
  <2>1. fs[1] \in Files
    BY <1>a, ElementOfSeq, LenProperties, SMT
  <2>2. r \in Nat \cup {None}
    BY <2>1 DEF FileType, Types
  <2>3. Created(call.e, r, fs) \in Seq(StoredType)
    BY <1>a, <2>2, CreatedFact
  <2> HIDE DEF r, fs
  <2>4. QED
    BY <1>1, <2>3 DEF Types
<1>5. CallShape(Idle) /\ Idle \in CallType
  BY IdleFacts, Zenon DEF CallShape
<1>6. error \in Outcomes
  BY DEF Outcomes
<1> HIDE DEF g, error
<1>7. QED
  BY <1>1, <1>2, <1>3, <1>4, <1>5, <1>6, LossFact, CallEffect

(* The steps of a call but for the release of the handles.                 *)
Work ==
  \/ WriteChunk \/ WriteEnds \/ PartsSent \/ Finalize \/ CheckSize
  \/ \E lost \in Losses : SendPart(lost)
  \/ \E lost \in Losses : SendLast(lost)
  \/ \E lost \in Losses : CommitFile(lost)
  \/ \E lost \in Losses : FetchKey(lost)
  \/ \E lost \in Losses : SendFile(lost)
  \/ \E lost \in Losses : InboxSend(lost)

LEMMA StepIs == ASSUME Step PROVE Work \/ ReleaseHandles
BY Zenon DEF Step, Work

LEMMA WorkEffect ==
  ASSUME Types, CallHasFile, Work
  PROVE  Effect
BY WriteChunkEffect, WriteEndsEffect, PartsSentEffect, FinalizeEffect, CheckSizeEffect, SendPartEffect,
   SendLastEffect, CommitFileEffect, FetchKeyEffect, SendFileEffect, InboxSendEffect, Zenon DEF Work

(* Handles that go only lose their state.                                  *)
Gone(g) == [g EXCEPT !.state = "gone"]

LEMMA GoneFact ==
  ASSUME NEW g \in FileType
  PROVE  /\ Gone(g) \in FileType /\ Gone(g).state = "gone"
         /\ Gone(g).buf = g.buf /\ Gone(g).total = g.total /\ Gone(g).key = g.key
         /\ Gone(g).request = g.request /\ Gone(g).index = g.index /\ Gone(g).seq = g.seq
         /\ Gone(g).sums = g.sums /\ Gone(g).encrypted = g.encrypted /\ Gone(g).processed = g.processed
         /\ Gone(g).uploaded = g.uploaded /\ Gone(g).serverSeq = g.serverSeq /\ Gone(g).update = g.update
         /\ Gone(g).began = g.began /\ Gone(g).early = g.early /\ Gone(g).torn = g.torn
BY DEF FileType, Gone

(* The handles that are removed.                                           *)
Removed(fs) == {fs[i] : i \in {i \in DOMAIN fs : \A j \in Missing(fs) : i < j}}

LEMMA RemoveFact ==
  ASSUME Types, NEW fs, RemoveFileHandles(fs)
  PROVE  /\ file' \in [Files -> FileType]
         /\ \A f \in Files : file'[f] = IF f \in Removed(fs) THEN Gone(file[f]) ELSE file[f]
         /\ \A f \in Files : file'[f].request = file[f].request /\ file'[f].index = file[f].index
<1>1. file' = [f \in Files |-> IF f \in Removed(fs) THEN Gone(file[f]) ELSE file[f]]
  BY Zenon DEF RemoveFileHandles, Removed, Gone
<1>2. \A f \in Files : Gone(file[f]) \in FileType /\ Gone(file[f]).request = file[f].request /\ Gone(file[f]).index = file[f].index
  BY GoneFact DEF Types
<1>3. QED
  BY <1>1, <1>2 DEF Types

LEMMA EntryGone ==
  ASSUME Types, NEW e \in Entries
  PROVE  LET n == [entry EXCEPT ![e].state = "gone"]
         IN /\ n \in [Entries -> EntryType] /\ n[e].state = "gone"
            /\ \A d \in Entries : n[d].files = entry[d].files /\ (d # e => n[d] = entry[d])
BY DEF Types, EntryType

LEMMA ReleaseTypes ==
  ASSUME Types, CallHasFile, ReleaseHandles
  PROVE  Types' /\ CallHasFile'
<1> DEFINE next == [call EXCEPT !.pc = "send"]
<1>1. /\ call.pc = "release" /\ call' \in {next, Idle}
      /\ UNCHANGED <<request, stored, storeKey, cachedKey, faults, faulty>>
      /\ entry' = [entry EXCEPT ![call.e].state = "gone"] /\ RemoveFileHandles(entry[call.e].files)
      /\ outcome' \in {outcome, [outcome EXCEPT ![call.e] = "handle"]}
  BY DEF ReleaseHandles, keys, losses
<1>2. call # Idle
  BY <1>1, IdleFacts
<1>3. call \in CallType /\ call.op = "send" /\ call.e \in Entries /\ CallShape(call)
  BY <1>1, <1>2, CallFacts DEF CallShape
<1>4. /\ next \in CallType /\ next.op = "send" /\ next.pc = "send" /\ next.e = call.e
      /\ next.f = call.f /\ next.at = call.at /\ next.part = call.part
  BY <1>3 DEF CallType
<1> HIDE DEF next
<1>5. /\ entry' \in [Entries -> EntryType]
      /\ \A d \in Entries : entry'[d].files = entry[d].files
  BY <1>1, <1>3, EntryGone
<1>6. outcome' \in [Files \cup Entries -> Outcomes]
  BY <1>1, <1>3 DEF Types, Outcomes
<1>7. Types'
  BY <1>1, <1>4, <1>5, <1>6, IdleFacts, RemoveFact DEF Types
<1>8. CallShape(call)'
  <2>1. CASE call' = Idle
    BY <2>1 DEF CallShape, Idle
  <2>2. CASE call' = next
    BY <1>1, <1>2, <1>3, <1>4, <1>5, <2>2 DEF CallShape, PartsShape
  <2>3. QED
    BY <1>1, <2>1, <2>2
<1>9. QED
  BY <1>1, <1>7, <1>8, RemoveFact DEF CallHasFile

-----------------------------------------------------------------------------
(* Calls that begin.                                                       *)

(* The last place of a list that has f.                                    *)
LEMMA MaxFact ==
  ASSUME NEW n \in Nat, NEW S, S \subseteq 1..n, S # {}
  PROVE  Max(S) \in S /\ \A k \in S : k <= Max(S)
<1> DEFINE T == {n - k : k \in S}
           R == OpToRel(<, Nat)
<1>a. \A k \in S : n - k \in Nat
  BY SMT
<1>1. T \subseteq Nat /\ T # {}
  BY <1>a
<1>2. PICK x \in T : \A y \in T : ~(<<y, x>> \in R)
  BY <1>1, NatLessThanWellFounded, WFMin
<1>3. \A y \in T : ~(y < x)
  BY <1>1, <1>2 DEF OpToRel
<1>4. PICK m \in S : x = n - m
  BY <1>2
<1>5. \A k \in S : m >= k
  BY <1>3, <1>4, SMT
<1>6. Max(S) \in S /\ \A k \in S : Max(S) >= k
  BY <1>4, <1>5, Zenon DEF Max
<1>7. QED
  BY <1>6, SMT

LEMMA NewFileFact ==
  /\ NewFile \in FileType /\ NewFile.state = "open" /\ NewFile.request = None
  /\ [NewFile EXCEPT !.state = "none"] \in FileType /\ [NewFile EXCEPT !.state = "none"].request = None
  /\ \A r \in Nat, update \in BOOLEAN :
       [NewFile EXCEPT !.request = r, !.index = 1, !.key = <<r, 1>>, !.update = update] \in FileType
<1>1. <<>> \in Plain /\ <<>> \in Sums /\ <<>> \in Stream /\ None \in Keys /\ \A r \in Nat : <<r, 1>> \in Keys
  BY EmptySeq DEF Plain, Sums, Stream, Keys
<1>2. QED
  BY <1>1 DEF NewFile, FileType

(* Requests are only added to.                                             *)
LEMMA AppendRequest ==
  ASSUME Types, NEW q \in Seq(SentType), request' = Append(request, q)
  PROVE  /\ request' \in Seq(Seq(SentType)) /\ Len(request') = Len(request) + 1 /\ Len(request) \in Nat
         /\ Len(request) + 1 \in 1..Len(request')
         /\ \A a \in 1..Len(request) : a \in 1..Len(request') /\ request'[a] = request[a]
         /\ request'[Len(request) + 1] = q
<1>1. request \in Seq(Seq(SentType)) /\ Len(request) \in Nat
  BY LenProperties DEF Types
<1>2. QED
  BY <1>1, AppendProperties, SMT

LEMMA CreateFileTypes ==
  ASSUME Types, CallHasFile, NEW f \in Files, NEW update \in BOOLEAN, CreateFile(f, update)
  PROVE  Types' /\ CallHasFile'
<1> DEFINE r == Len(request) + 1
           g == [NewFile EXCEPT !.request = r, !.index = 1, !.key = <<r, 1>>, !.update = update]
           q == NewRequest(<<FileSize[f]>>)
<1>1. /\ request' = Append(request, q) /\ file' = [file EXCEPT ![f] = g]
      /\ UNCHANGED <<entry, call, stored, storeKey, cachedKey, outcome, faults, faulty>>
  BY DEF CreateFile, keys, losses
<1>2. q \in Seq(SentType) /\ Len(q) = 1
  <2>1. <<FileSize[f]>> \in [1..1 -> Nat]
    BY Constants
  <2>2. QED
    BY <2>1, NewRequestFact, 1 \in Nat, Zenon
<1> HIDE DEF q
<1>a. r \in Nat
  BY <1>1, <1>2, AppendRequest
<1>3. r \in Nat /\ g \in FileType
  BY <1>a, NewFileFact, Zenon
<1>4. g.request = r /\ g.index = 1
  BY <1>3 DEF NewFile
<1>5. r = Len(request) + 1
  OBVIOUS
<1> HIDE DEF r, g
<1>6. Types'
  BY <1>1, <1>2, <1>3, AppendRequest DEF Types
<1>7. ASSUME NEW h \in Files, file'[h].request # None
      PROVE  file'[h].request \in 1..Len(request') /\ file'[h].index \in 1..Len(request'[file'[h].request])
  <2>1. CASE h = f
    <3>1. file'[h] = g
      BY <1>1, <2>1 DEF Types
    <3>2. r \in 1..Len(request') /\ request'[r] = q
      BY <1>1, <1>2, <1>5, AppendRequest
    <3>3. QED
      BY <1>2, <1>4, <3>1, <3>2, SMTT(30)
  <2>2. CASE h # f
    <3>1. file'[h] = file[h]
      BY <1>1, <2>2 DEF Types
    <3>2. file[h].request \in 1..Len(request) /\ file[h].index \in 1..Len(request[file[h].request])
      BY <1>7, <3>1 DEF CallHasFile
    <3>3. QED
      BY <1>1, <1>2, <3>1, <3>2, AppendRequest
  <2>3. QED
    BY <2>1, <2>2
<1>8. CallShape(call)'
  BY <1>1 DEF CallHasFile, CallShape, PartsShape, Idle
<1>9. QED
  BY <1>6, <1>7, <1>8 DEF CallHasFile

(* The bytes of one write.                                                 *)
DataOf(f, from, len) == [k \in 1..len |-> <<f, from + k>>]

LEMMA DataFact ==
  ASSUME NEW f \in Files, NEW from \in Nat, NEW len \in Nat
  PROVE  /\ DataOf(f, from, len) \in Plain /\ Len(DataOf(f, from, len)) = len
         /\ \A k \in 1..len : DataOf(f, from, len)[k] = <<f, from + k>>
<1>1. \A k \in 1..len : <<f, from + k>> \in Bytes
  BY DEF Bytes
<1>2. DataOf(f, from, len) \in Seq(Bytes)
  BY <1>1, IsASeq DEF DataOf
<1>3. QED
  BY <1>2 DEF DataOf, Plain

(* A file to which bytes were written.                                     *)
Buffered(g, f, len) == [g EXCEPT !.buf = @ \o DataOf(f, g.total, len), !.total = @ + len]

LEMMA BufferedFact ==
  ASSUME NEW g \in FileType, NEW f \in Files, NEW len \in Nat
  PROVE  LET h == Buffered(g, f, len)
         IN /\ h \in FileType /\ h.buf = g.buf \o DataOf(f, g.total, len) /\ h.total = g.total + len
            /\ h.state = g.state /\ h.key = g.key /\ h.request = g.request /\ h.index = g.index
            /\ h.seq = g.seq /\ h.sums = g.sums /\ h.encrypted = g.encrypted /\ h.processed = g.processed
            /\ h.uploaded = g.uploaded /\ h.serverSeq = g.serverSeq /\ h.update = g.update
            /\ h.began = g.began /\ h.early = g.early /\ h.torn = g.torn
<1> DEFINE b == g.buf \o DataOf(f, g.total, len)
           t == g.total + len
<1>1. g.total \in Nat /\ g.buf \in Plain
  BY DEF FileType
<1>a. DataOf(f, g.total, len) \in Plain
  BY <1>1, DataFact
<1>2. b \in Plain /\ t \in Nat
  BY <1>1, <1>a, ConcatProperties DEF Plain
<1>3. Buffered(g, f, len) = [g EXCEPT !.buf = b, !.total = t]
  BY DEF Buffered
<1>4. b = g.buf \o DataOf(f, g.total, len) /\ t = g.total + len
  OBVIOUS
<1> HIDE DEF b, t
<1> DEFINE h == Buffered(g, f, len)
<1>5. /\ h \in FileType /\ h.buf = b /\ h.total = t
      /\ h.state = g.state /\ h.key = g.key /\ h.request = g.request /\ h.index = g.index
      /\ h.seq = g.seq /\ h.sums = g.sums /\ h.encrypted = g.encrypted /\ h.processed = g.processed
      /\ h.uploaded = g.uploaded /\ h.serverSeq = g.serverSeq /\ h.update = g.update
      /\ h.began = g.began /\ h.early = g.early /\ h.torn = g.torn
  BY <1>2, <1>3 DEF FileType
<1>6. QED
  BY <1>4, <1>5

LEMMA WriteCases ==
  ASSUME Types, NEW f \in Files, NEW len \in Nat, Write(f, len)
  PROVE  /\ call = Idle /\ file[f].state = "open"
         /\ UNCHANGED <<entry, request, stored, storeKey, cachedKey, faults, faulty>>
         /\ \/ /\ outcome' = [outcome EXCEPT ![f] = "bigger"] /\ UNCHANGED <<file, call>>
            \/ /\ file[f].total + len <= FileSize[f]
               /\ file' = [file EXCEPT ![f] = Buffered(file[f], f, len)]
               /\ call' = Started("write", f, None, "write") /\ UNCHANGED outcome
<1>1. [file EXCEPT ![f].buf = @ \o DataOf(f, file[f].total, len), ![f].total = @ + len]
        = [file EXCEPT ![f] = Buffered(file[f], f, len)]
  BY DEF Buffered, Types
<1>2. QED
  BY <1>1 DEF Write, DataOf, keys, losses

LEMMA WriteTypes ==
  ASSUME Types, CallHasFile, NEW f \in Files, NEW len \in Nat, Write(f, len)
  PROVE  Types' /\ CallHasFile'
<1>1. CASE /\ outcome' = [outcome EXCEPT ![f] = "bigger"] /\ UNCHANGED <<file, call>>
  <2>1. UNCHANGED <<entry, request, stored, storeKey, cachedKey, faults, faulty>>
    BY WriteCases
  <2>2. Types'
    BY <1>1, <2>1 DEF Types, Outcomes
  <2>3. CallHasFile'
    BY <1>1, <2>1 DEF CallHasFile, CallShape, PartsShape, Idle
  <2>4. QED
    BY <2>2, <2>3
<1>2. CASE /\ file' = [file EXCEPT ![f] = Buffered(file[f], f, len)]
           /\ call' = Started("write", f, None, "write") /\ UNCHANGED outcome
  <2>1. UNCHANGED <<entry, request, stored, storeKey, cachedKey, faults, faulty>>
    BY WriteCases
  <2>2. call' \in CallType /\ call'.op = "write" /\ call'.f = f /\ call'.pc = "write" /\ call'.part = 0
    BY <1>2 DEF Started, Idle, CallType
  <2>3. /\ Buffered(file[f], f, len) \in FileType
        /\ Buffered(file[f], f, len).request = file[f].request /\ Buffered(file[f], f, len).index = file[f].index
    BY BufferedFact DEF Types
  <2>4. /\ file' \in [Files -> FileType]
        /\ \A h \in Files : file'[h].request = file[h].request /\ file'[h].index = file[h].index
    BY <1>2, <2>3 DEF Types
  <2>5. Types'
    BY <1>2, <2>1, <2>2, <2>4 DEF Types
  <2>6. CallShape(call)'
    BY <2>2 DEF CallShape, PartsShape
  <2>7. QED
    BY <2>1, <2>4, <2>5, <2>6 DEF CallHasFile
<1>3. QED
  BY <1>1, <1>2, WriteCases

LEMMA CloseFileTypes ==
  ASSUME Types, CallHasFile, NEW f \in Files, CloseFile(f)
  PROVE  Types' /\ CallHasFile'
<1> DEFINE h == [file[f] EXCEPT !.state = "gone", !.began = storeKey]
<1>1. /\ f \in StoreFiles /\ file' = [file EXCEPT ![f] = h] /\ call' = Started("close", f, None, "finalize")
      /\ UNCHANGED <<entry, request, stored, storeKey, cachedKey, outcome, faults, faulty>>
  BY DEF CloseFile, keys, losses, Types
<1>2. h \in FileType /\ h.request = file[f].request /\ h.index = file[f].index
  BY ZenonT(60) DEF Types, FileType
<1>3. call' \in CallType /\ call'.op = "close" /\ call'.f = f /\ call'.pc = "finalize" /\ call'.part = 0
  BY <1>1 DEF Started, Idle, CallType
<1> HIDE DEF h
<1>4. /\ file' \in [Files -> FileType]
      /\ \A g \in Files : file'[g].request = file[g].request /\ file'[g].index = file[g].index
  BY <1>1, <1>2 DEF Types
<1>5. Types'
  BY <1>1, <1>3, <1>4 DEF Types
<1>6. CallShape(call)'
  BY <1>1, <1>3 DEF CallShape, PartsShape
<1>7. QED
  BY <1>1, <1>4, <1>5, <1>6 DEF CallHasFile

LEMMA CreateFileHandleTypes ==
  ASSUME Types, CallHasFile, NEW f \in Files, CreateFileHandle(f)
  PROVE  Types' /\ CallHasFile'
<1>1. /\ file' = [file EXCEPT ![f] = NewFile]
      /\ UNCHANGED <<entry, request, call, stored, storeKey, cachedKey, outcome, faults, faulty>>
  BY DEF CreateFileHandle, keys, losses
<1>2. Types'
  BY <1>1, NewFileFact DEF Types
<1>3. \A g \in Files : file'[g].request # None => file'[g] = file[g]
  BY <1>1, NewFileFact DEF Types
<1>4. CallShape(call)'
  BY <1>1 DEF CallHasFile, CallShape, PartsShape, Idle
<1>5. QED
  BY <1>1, <1>2, <1>3, <1>4 DEF CallHasFile

(* The files of a list, and their places.                                  *)
PlaceOf(fs, f) == Max({k \in DOMAIN fs : fs[k] = f})

LEMMA PlaceFact ==
  ASSUME NEW fs \in Seq(Files), NEW f \in Range(fs)
  PROVE  PlaceOf(fs, f) \in 1..Len(fs) /\ fs[PlaceOf(fs, f)] = f
<1>1. DOMAIN fs = 1..Len(fs) /\ Len(fs) \in Nat
  BY LenProperties
<1> DEFINE S == {k \in DOMAIN fs : fs[k] = f}
<1>2. S \subseteq 1..Len(fs) /\ S # {}
  BY <1>1 DEF Range
<1>3. Max(S) \in S
  BY <1>1, <1>2, MaxFact, Zenon
<1>4. QED
  BY <1>1, <1>3 DEF PlaceOf

LEMMA SetRequestFact ==
  ASSUME NEW g \in FileType, NEW r \in Nat, NEW i \in Nat
  PROVE  LET h == SetRequestData(g, r, i)
         IN /\ h \in FileType /\ h.request = r /\ h.index = i /\ h.key = <<r, i>>
            /\ h.state = g.state /\ h.buf = g.buf /\ h.total = g.total /\ h.seq = g.seq /\ h.sums = g.sums
            /\ h.encrypted = g.encrypted /\ h.processed = g.processed /\ h.uploaded = g.uploaded
            /\ h.serverSeq = g.serverSeq /\ h.update = g.update /\ h.began = g.began
            /\ h.early = g.early /\ h.torn = g.torn
<1>1. <<r, i>> \in Keys
  BY DEF Keys
<1>2. QED
  BY <1>1 DEF FileType, SetRequestData

(* What the server has of a file that nothing was sent of.                *)
NewSent(size) ==
  [size |-> DeclaredSize(size), data |-> <<>>, parts |-> 0, chunks |-> NumberOfChunks(size), sums |-> <<>>,
   committed |-> FALSE]

LEMMA PrepareEntryRequest ==
  ASSUME Types, NEW e \in Entries, NEW fs \in EntryFiles, PrepareEntry(e, fs), fs # <<>>
  PROVE  /\ Len(request') = Len(request) + 1 /\ Len(request'[Len(request) + 1]) = Len(fs)
         /\ \A i \in 1..Len(fs) : request'[Len(request) + 1][i] = NewSent(FileSize[fs[i]])
<1> DEFINE sizes == [i \in DOMAIN fs |-> FileSize[fs[i]]]
           q == NewRequest(sizes)
<1>1. request' = Append(request, q)
  BY DEF PrepareEntry
<1>2. fs \in Seq(Files)
  BY Constants
<1>3. DOMAIN fs = 1..Len(fs) /\ Len(fs) \in Nat /\ \A i \in 1..Len(fs) : fs[i] \in Files
  BY <1>2, LenProperties, ElementOfSeq
<1>4. sizes \in [1..Len(fs) -> Nat] /\ \A i \in 1..Len(fs) : sizes[i] = FileSize[fs[i]]
  BY <1>3, Constants
<1> HIDE DEF sizes
<1>5. /\ q \in Seq(SentType) /\ Len(q) = Len(fs)
      /\ \A i \in 1..Len(fs) : q[i] =
           [size |-> DeclaredSize(sizes[i]), data |-> <<>>, parts |-> 0,
            chunks |-> NumberOfChunks(sizes[i]), sums |-> <<>>, committed |-> FALSE]
  BY <1>3, <1>4, NewRequestFact, Zenon
<1>6. \A i \in 1..Len(fs) : q[i] = NewSent(FileSize[fs[i]])
  BY <1>4, <1>5, Zenon DEF NewSent
<1> HIDE DEF q
<1>7. Len(request') = Len(request) + 1 /\ request'[Len(request) + 1] = q
  BY <1>1, <1>5, AppendRequest
<1>8. QED
  BY <1>5, <1>6, <1>7

(* prepareEntry, in detail.                                                *)
LEMMA PrepareEntryIs ==
  ASSUME Types, CallHasFile, NEW e \in Entries, NEW fs \in EntryFiles, PrepareEntry(e, fs)
  PROVE  /\ call = Idle /\ entry[e].state = "none" /\ fs \in Seq(Files \ StoreFiles) /\ fs \in Seq(Files)
         /\ \A f \in Range(fs) : f \in Files /\ file[f].state = "open"
         /\ UNCHANGED <<call, stored, storeKey, cachedKey, outcome, faults, faulty>>
         /\ Len(request) \in Nat /\ request' \in Seq(Seq(SentType))
         /\ fs = <<>> => request' = request
         /\ \A a \in 1..Len(request) : a \in 1..Len(request') /\ request'[a] = request[a]
         /\ file' \in [Files -> FileType]
         /\ \A f \in Files : f \in Range(fs) =>
              file'[f] = SetRequestData(file[f], Len(request) + 1, PlaceOf(fs, f))
         /\ \A f \in Files : f \notin Range(fs) => file'[f] = file[f]
         /\ entry' \in [Entries -> EntryType] /\ entry'[e] = [state |-> "open", files |-> fs]
         /\ \A d \in Entries \ {e} : entry'[d] = entry[d]
<1> DEFINE sizes == [i \in DOMAIN fs |-> FileSize[fs[i]]]
           q == NewRequest(sizes)
<1>1. /\ call = Idle /\ entry[e].state = "none" /\ \A f \in Range(fs) : file[f].state = "open"
      /\ UNCHANGED <<call, stored, storeKey, cachedKey, outcome, faults, faulty>>
      /\ request' = IF fs = <<>> THEN request ELSE Append(request, q)
      /\ file' = [f \in Files |-> IF f \in Range(fs) THEN SetRequestData(file[f], Len(request) + 1, PlaceOf(fs, f))
                                   ELSE file[f]]
      /\ entry' = [entry EXCEPT ![e] = [state |-> "open", files |-> fs]]
  BY DEF PrepareEntry, keys, losses, PlaceOf
<1>2. fs \in Seq(Files \ StoreFiles) /\ fs \in Seq(Files) /\ Range(fs) \subseteq Files
  BY Constants, ElementOfSeq DEF Range
<1>3. DOMAIN fs = 1..Len(fs) /\ Len(fs) \in Nat /\ \A i \in 1..Len(fs) : fs[i] \in Files
  BY <1>2, LenProperties, ElementOfSeq
<1>4. sizes \in [1..Len(fs) -> Nat]
  BY <1>3, Constants
<1> HIDE DEF sizes
<1>5. q \in Seq(SentType)
  BY <1>3, <1>4, NewRequestFact, Zenon
<1> HIDE DEF q
<1>7. request \in Seq(Seq(SentType)) /\ Len(request) \in Nat
  BY LenProperties DEF Types
<1>8. /\ request' \in Seq(Seq(SentType)) /\ (fs = <<>> => request' = request)
      /\ \A a \in 1..Len(request) : a \in 1..Len(request') /\ request'[a] = request[a]
  <2>1. CASE fs = <<>>
    BY <1>1, <1>7, <2>1
  <2>2. CASE fs # <<>>
    BY <1>1, <1>5, <2>2, AppendRequest
  <2>3. QED
    BY <2>1, <2>2
<1>9. /\ file' \in [Files -> FileType]
      /\ \A f \in Files : f \in Range(fs) =>
           file'[f] = SetRequestData(file[f], Len(request) + 1, PlaceOf(fs, f))
      /\ \A f \in Files : f \notin Range(fs) => file'[f] = file[f]
  <2>1. ASSUME NEW f \in Range(fs) PROVE SetRequestData(file[f], Len(request) + 1, PlaceOf(fs, f)) \in FileType
    <3>1. PlaceOf(fs, f) \in Nat /\ Len(request) + 1 \in Nat /\ file[f] \in FileType
      BY <1>2, <1>7, PlaceFact, LenProperties, SMT DEF Types
    <3>2. QED
      BY <3>1, SetRequestFact
  <2>2. QED
    BY <1>1, <2>1 DEF Types
<1>10. /\ entry' \in [Entries -> EntryType] /\ entry'[e] = [state |-> "open", files |-> fs]
       /\ \A d \in Entries \ {e} : entry'[d] = entry[d]
  <2>1. [state |-> "open", files |-> fs] \in EntryType
    BY <1>2 DEF EntryType
  <2>2. QED
    BY <1>1, <2>1 DEF Types
<1>11. QED
  BY <1>1, <1>2, <1>7, <1>8, <1>9, <1>10

LEMMA PrepareEntryFile ==
  ASSUME NEW e, NEW fs, PrepareEntry(e, fs), NEW f \in Files, f \in Range(fs)
  PROVE  file'[f] = SetRequestData(file[f], Len(request) + 1, PlaceOf(fs, f))
BY DEF PrepareEntry, PlaceOf

LEMMA PrepareEntryTypes ==
  ASSUME Types, CallHasFile, NEW e \in Entries, NEW fs \in EntryFiles, PrepareEntry(e, fs)
  PROVE  Types' /\ CallHasFile'
<1> DEFINE r == Len(request) + 1
<1>0. r = Len(request) + 1 /\ r \in Nat
  BY PrepareEntryIs
<1>a. /\ \A f \in Files : f \in Range(fs) => file'[f] = SetRequestData(file[f], Len(request) + 1, PlaceOf(fs, f))
      /\ \A f \in Files : f \notin Range(fs) => file'[f] = file[f]
      /\ fs \in Seq(Files) /\ Len(request) \in Nat
  <2>1. \A f \in Files : f \in Range(fs) => file'[f] = SetRequestData(file[f], Len(request) + 1, PlaceOf(fs, f))
    BY PrepareEntryFile
  <2>2. \A f \in Files : f \notin Range(fs) => file'[f] = file[f]
    BY PrepareEntryIs, ZenonT(60)
  <2>3. fs \in Seq(Files) /\ Len(request) \in Nat
    BY PrepareEntryIs, Zenon
  <2>4. QED
    BY <2>1, <2>2, <2>3, Zenon
<1>b. \A a \in 1..Len(request) : a \in 1..Len(request') /\ request'[a] = request[a]
  BY PrepareEntryIs, Zenon
<1>1. Types'
  <2>1. /\ UNCHANGED <<call, stored, storeKey, cachedKey, outcome, faults, faulty>>
        /\ entry' \in [Entries -> EntryType] /\ file' \in [Files -> FileType] /\ request' \in Seq(Seq(SentType))
    BY PrepareEntryIs, Zenon
  <2>2. QED
    BY <2>1 DEF Types
<1>2. ASSUME NEW f \in Files, file'[f].request # None
      PROVE  file'[f].request \in 1..Len(request') /\ file'[f].index \in 1..Len(request'[file'[f].request])
  <2>1. CASE f \in Range(fs)
    <3>1. fs # <<>> /\ PlaceOf(fs, f) \in 1..Len(fs) /\ PlaceOf(fs, f) \in Nat /\ file[f] \in FileType
      <4>1. fs # <<>>
        BY <2>1 DEF Range
      <4>2. PlaceOf(fs, f) \in 1..Len(fs)
        BY <1>a, <2>1, PlaceFact
      <4>3. Len(fs) \in Nat
        BY <1>a, LenProperties
      <4>4. QED
        BY <4>1, <4>2, <4>3 DEF Types
    <3>2. file'[f] = SetRequestData(file[f], r, PlaceOf(fs, f))
      BY <1>a, <2>1
    <3>3. file'[f].request = r /\ file'[f].index = PlaceOf(fs, f)
      <4>1. SetRequestData(file[f], r, PlaceOf(fs, f)).request = r
        BY <1>0, <3>1, SetRequestFact
      <4>2. SetRequestData(file[f], r, PlaceOf(fs, f)).index = PlaceOf(fs, f)
        BY <1>0, <3>1, SetRequestFact
      <4>3. QED
        BY <3>2, <4>1, <4>2
    <3>4. Len(request') = r /\ Len(request'[r]) = Len(fs)
      BY <3>1, PrepareEntryRequest
    <3>5. QED
      BY <1>0, <3>1, <3>3, <3>4
  <2>2. CASE f \notin Range(fs)
    <3>1. file'[f] = file[f]
      BY <1>a, <2>2
    <3>2. file[f].request \in 1..Len(request) /\ file[f].index \in 1..Len(request[file[f].request])
      BY <1>2, <3>1 DEF CallHasFile
    <3>3. QED
      BY <1>b, <3>1, <3>2
  <2>3. QED
    BY <2>1, <2>2
<1>3. CallShape(call)'
  <2>1. call' = Idle
    BY PrepareEntryIs
  <2>2. QED
    BY <2>1 DEF CallShape, Idle
<1>4. QED
  BY <1>1, <1>2, <1>3 DEF CallHasFile

(* sendEntry, by cases.                                                    *)
LEMMA SendEntryCases ==
  ASSUME Types, NEW e \in Entries, SendEntry(e)
  PROVE  /\ call = Idle /\ entry[e].state = "open" /\ entry[e].files # <<>>
         /\ UNCHANGED <<request, stored, storeKey, cachedKey, faults, faulty>>
         /\ \/ /\ AllReady(entry[e].files) /\ call' = Started("send", entry[e].files[1], e, "finalize")
               /\ UNCHANGED <<file, entry, outcome>>
            \/ /\ ~AllReady(entry[e].files)
               /\ entry' = [entry EXCEPT ![e].state = "gone"] /\ RemoveFileHandles(entry[e].files)
               /\ outcome' = [outcome EXCEPT ![e] =
                                IF Missing(entry[e].files) = {} THEN "different" ELSE "handle"]
               /\ UNCHANGED call
BY DEF SendEntry, keys, losses

LEMMA SendEntryTypes ==
  ASSUME Types, CallHasFile, NEW e \in Entries, SendEntry(e)
  PROVE  Types' /\ CallHasFile'
<1>0. /\ call = Idle /\ entry[e].files # <<>> /\ UNCHANGED <<request, stored, storeKey, cachedKey, faults, faulty>>
  BY SendEntryCases
<1>1. CASE /\ call' = Started("send", entry[e].files[1], e, "finalize")
           /\ UNCHANGED <<file, entry, outcome>>
  <2>1. entry[e].files \in Seq(Files) /\ Len(entry[e].files) \in Nat /\ Len(entry[e].files) # 0
    BY <1>0, Constants, LenProperties, EmptySeq DEF Types, EntryType
  <2>2. 1 \in 1..Len(entry[e].files) /\ entry[e].files[1] \in Files
    BY <2>1, ElementOfSeq, SMT
  <2> DEFINE f == entry[e].files[1]
  <2>3. f \in Files /\ f = entry[e].files[1] /\ call' = Started("send", f, e, "finalize")
    BY <1>1, <2>2
  <2> HIDE DEF f
  <2>4. /\ call' \in CallType /\ call'.op = "send" /\ call'.f = f /\ call'.e = e /\ call'.pc = "finalize"
        /\ call'.part = 0 /\ call'.at = 1
    BY <2>3 DEF Started, Idle, CallType
  <2>5. CallShape(call)'
    BY <1>1, <2>2, <2>3, <2>4 DEF CallShape, PartsShape
  <2>6. QED
    BY <1>0, <1>1, <2>4, <2>5 DEF Types, CallHasFile
<1>2. CASE /\ entry' = [entry EXCEPT ![e].state = "gone"] /\ RemoveFileHandles(entry[e].files)
           /\ outcome' = [outcome EXCEPT ![e] = IF Missing(entry[e].files) = {} THEN "different" ELSE "handle"]
           /\ UNCHANGED call
  <2>1. entry' \in [Entries -> EntryType]
    BY <1>2, EntryGone
  <2>2. outcome' \in [Files \cup Entries -> Outcomes]
    BY <1>2 DEF Types, Outcomes
  <2>3. Types'
    BY <1>0, <1>2, <2>1, <2>2, RemoveFact DEF Types
  <2>4. CallShape(call)'
    BY <1>0, <1>2 DEF CallShape, Idle
  <2>5. QED
    BY <1>0, <1>2, <2>3, <2>4, RemoveFact DEF CallHasFile
<1>3. QED
  BY <1>1, <1>2, SendEntryCases

LEMMA SendTextTypes ==
  ASSUME Types, CallHasFile, NEW e \in Entries, NEW lost \in Losses, SendText(e, lost)
  PROVE  Types' /\ CallHasFile'
<1>1. /\ call = Idle /\ stored' \in {stored, Created(e, None, <<>>)}
      /\ outcome' = [outcome EXCEPT ![e] = IF lost = "no" THEN "stored" ELSE "lost"]
      /\ faults' = faults + (IF lost = "no" THEN 0 ELSE 1)
      /\ UNCHANGED <<file, entry, call, request, storeKey, cachedKey, faulty>>
  BY DEF SendText, keys
<1>2. Created(e, None, <<>>) \in Seq(StoredType)
  BY CreatedFact, EmptySeq
<1>a. outcome' \in [Files \cup Entries -> Outcomes]
  BY <1>1 DEF Types, Outcomes
<1>b. stored' \in Seq(StoredType) /\ faults' \in Nat
  BY <1>1, <1>2 DEF Types
<1>3. Types'
  BY <1>1, <1>a, <1>b DEF Types
<1>4. CallShape(call)'
  BY <1>1 DEF CallShape, Idle
<1>5. QED
  BY <1>1, <1>3, <1>4 DEF CallHasFile

LEMMA RotateTypes ==
  ASSUME Types, CallHasFile, RotateKey
  PROVE  Types' /\ CallHasFile'
<1>1. storeKey' = storeKey + 1 /\ UNCHANGED <<file, entry, call, request, stored, cachedKey, outcome, faults, faulty>>
  BY DEF RotateKey, losses
<1>2. Types'
  BY <1>1 DEF Types
<1>3. CallShape(call)'
  BY <1>1 DEF CallHasFile, CallShape, PartsShape, Idle
<1>4. QED
  BY <1>1, <1>2, <1>3 DEF CallHasFile

LEMMA TypesInit == ASSUME Init PROVE Types /\ CallHasFile
<1>1. \A f \in Files : file[f] = [NewFile EXCEPT !.state = "none"]
  BY DEF Init
<1>2. file \in [Files -> FileType] /\ \A f \in Files : file[f].request = None
  BY <1>1, NewFileFact DEF Init
<1>3. entry \in [Entries -> EntryType]
  BY EmptySeq DEF Init, EntryType
<1>4. request \in Seq(Seq(SentType)) /\ stored \in Seq(StoredType)
  BY EmptySeq DEF Init
<1>a. outcome \in [Files \cup Entries -> Outcomes] /\ cachedKey \in Nat \cup {None} /\ storeKey \in Nat
      /\ faults \in Nat /\ faulty \in SUBSET Files
  <2>1. outcome \in [Files \cup Entries -> Outcomes]
    BY DEF Init, Outcomes
  <2>2. storeKey = 0 /\ cachedKey \in {None, 0} /\ faults = 0 /\ faulty = {}
    BY Zenon DEF Init
  <2>3. QED
    BY <2>1, <2>2
<1>b. call \in CallType
  BY IdleFacts DEF Init
<1>5. Types
  BY <1>2, <1>3, <1>4, <1>a, <1>b DEF Types
<1>6. QED
  BY <1>2, <1>5, Zenon DEF Init, CallHasFile, CallShape

(* One step of the specification, by kind.                                 *)
LEMMA BeginCases ==
  ASSUME Begin
  PROVE  \/ \E f \in Files, update \in BOOLEAN : CreateFile(f, update)
         \/ \E f \in Files : CloseFile(f) \/ CreateFileHandle(f)
         \/ \E f \in Files, len \in Nat : Write(f, len)
         \/ \E e \in Entries : SendEntry(e) \/ \E fs \in EntryFiles : PrepareEntry(e, fs)
         \/ \E e \in Entries, lost \in Losses : SendText(e, lost)
BY Constants DEF Begin, WriteToFile, WriteToEntryFile

LEMMA TypesNext == ASSUME Types, CallHasFile, [Next]_vars PROVE Types' /\ CallHasFile'
<1>1. CASE Begin
  BY <1>1, BeginCases, CreateFileTypes, CloseFileTypes, CreateFileHandleTypes, WriteTypes, SendEntryTypes,
     PrepareEntryTypes, SendTextTypes, Zenon
<1>2. CASE Step
  BY <1>2, StepIs, WorkEffect, ReleaseTypes, Zenon DEF Effect
<1>3. CASE RotateKey
  BY <1>3, RotateTypes
<1>4. CASE UNCHANGED vars
  <2>1. UNCHANGED <<file, entry, call, request, stored, storeKey, cachedKey, outcome, faults, faulty>>
    BY <1>4 DEF vars, keys, losses
  <2>2. CallShape(call)'
    BY <2>1 DEF CallHasFile, CallShape, PartsShape, Idle
  <2>3. QED
    BY <2>1, <2>2 DEF Types, CallHasFile
<1>5. QED
  BY <1>1, <1>2, <1>3, <1>4 DEF Next

(* The handles, the call under way and what the server has are of the types *)
(* above, and a call has the file, the entry and the key that its place     *)
(* needs: through every step of write, finalize, closeFile and sendEntry,   *)
(* also after one that threw.                                               *)
THEOREM TypesAlways == Spec => [](Types /\ CallHasFile)
<1>1. Init => Types /\ CallHasFile
  BY TypesInit
<1>2. (Types /\ CallHasFile) /\ [Next]_vars => (Types /\ CallHasFile)'
  BY TypesNext
<1>3. QED
  BY <1>1, <1>2, PTL DEF Spec

-----------------------------------------------------------------------------
(* How calls end, and where they go on.                                    *)

Fails(error) ==
  /\ call' = Idle /\ outcome' = [outcome EXCEPT ![Caller] = error]
  /\ error = "InvalidKey" => /\ call.pc = "sendFile" /\ call.keyId # storeKey
                             /\ file[call.f].update \/ call.retried
  /\ error = "different" => file[call.f].total # FileSize[call.f]

GoesOn ==
  /\ outcome' = outcome /\ call'.op = call.op /\ call'.e = call.e
  /\ call.op = "close" => call'.f = call.f
  /\ call'.retried = call.retried \/ call.pc = "sendFile"
  /\ call.pc \in {"fetch", "sendFile"} => call'.pc \in {"fetch", "sendFile"}
  /\ call'.pc = "sendFile" => \/ call'.keyId = storeKey
                              \/ /\ call.pc = "last" /\ ~file[call.f].update
                                 /\ call'.keyId = cachedKey /\ cachedKey # None

Result ==
  /\ storeKey' = storeKey /\ cachedKey' \in {cachedKey, storeKey}
  /\ \/ \E error \in Outcomes : Fails(error)
     \/ call' = Idle /\ outcome' = outcome
     \/ GoesOn

LEMMA ThrowResult ==
  ASSUME NEW g, NEW error \in Outcomes, Throw(g, error), error \notin {"InvalidKey", "different"},
         UNCHANGED storeKey, cachedKey' \in {cachedKey, storeKey}
  PROVE  Result
BY DEF Result, Fails, Throw

LEMMA RequestResult ==
  ASSUME NEW takes, NEW lost, NEW s, NEW before, NEW after, NEW next,
         Request(takes, lost, s, before, after, next),
         outcome' = outcome /\ call' = next => GoesOn
  PROVE  Result
<1>1. UNCHANGED <<storeKey, cachedKey>>
  BY DEF Request, keys
<1>2. CASE Continue(after, next)
  BY <1>1, <1>2 DEF Continue, Result
<1>3. CASE Throw(before, IF lost = "no" THEN "refused" ELSE "lost")
  <2> DEFINE error == IF lost = "no" THEN "refused" ELSE "lost"
  <2>1. error \in Outcomes /\ error \notin {"InvalidKey", "different"} /\ Throw(before, error)
    BY <1>3 DEF Outcomes
  <2> HIDE DEF error
  <2>2. QED
    BY <1>1, <2>1, ThrowResult
<1>4. QED
  BY <1>2, <1>3 DEF Request

LEMMA PrepareResult ==
  ASSUME NEW g, NEW data, NEW after, PrepareAndSendChunk(g, data, after), call \in CallType,
         call.pc \notin {"fetch", "sendFile"}
  PROVE  Result
<1>1. UNCHANGED <<storeKey, cachedKey>>
  BY DEF PrepareAndSendChunk, keys
<1>2. CASE \E h : Throw(h, "size")
  <2>1. "size" \in Outcomes
    BY DEF Outcomes
  <2>2. QED
    BY <1>1, <1>2, <2>1, ThrowResult
<1>3. CASE /\ outcome' = outcome
           /\ call' = [call EXCEPT !.pc = "parts", !.part = 0, !.length = Len(data), !.after = after]
  <2>1. call'.op = call.op /\ call'.e = call.e /\ call'.f = call.f /\ call'.retried = call.retried /\ call'.pc = "parts"
    BY <1>3 DEF CallType
  <2>2. QED
    BY <1>1, <1>3, <2>1 DEF Result, GoesOn
<1>4. QED
  BY <1>2, <1>3, Zenon DEF PrepareAndSendChunk, Continue

LEMMA WorkResult ==
  ASSUME Types, CallHasFile, Work
  PROVE  Result
<1>0. call \in CallType
  BY DEF Types
<1>1. CASE WriteChunk
  BY <1>0, <1>1, PrepareResult DEF WriteChunk
<1>2. CASE WriteEnds
  BY <1>2 DEF WriteEnds, Continue, Result, keys
<1>3. CASE PartsSent
  <2>1. call.pc = "parts" /\ call' = Returned(call) /\ outcome' = outcome /\ UNCHANGED <<storeKey, cachedKey>>
    BY <1>3 DEF PartsSent, Returned, Continue, keys
  <2>2. CallShape(call)
    BY DEF CallHasFile
  <2>3. /\ Returned(call).op = call.op /\ Returned(call).e = call.e /\ Returned(call).f = call.f
        /\ Returned(call).pc \in {"write", "check", "last"}
    BY <1>0, <2>1, <2>2, ReturnedFact
  <2>4. Returned(call).retried = call.retried
    BY <1>0 DEF Returned, CallType
  <2>5. QED
    BY <2>1, <2>3, <2>4 DEF Result, GoesOn
<1>4. CASE Finalize
  <2>1. CASE /\ file[call.f].total # FileSize[call.f] /\ Throw(file[call.f], "different")
             /\ UNCHANGED <<entry, request, stored, keys, losses>>
    <3>1. Fails("different") /\ "different" \in Outcomes
      BY <2>1 DEF Throw, Fails, Outcomes
    <3>2. QED
      BY <2>1, <3>1 DEF Result, keys
  <2>2. CASE PrepareAndSendChunk(Rest(file[call.f]), LastChunk(file[call.f]), "check")
    BY <1>0, <1>4, <2>2, PrepareResult, FinalizeCases
  <2>3. CASE /\ Continue(Rest(file[call.f]), [call EXCEPT !.pc = "check"])
             /\ UNCHANGED <<entry, request, stored, keys, losses>>
    <3>1. call.pc = "finalize"
      BY <1>4, FinalizeCases
    <3>2. call'.op = call.op /\ call'.e = call.e /\ call'.f = call.f /\ call'.retried = call.retried /\ call'.pc = "check"
      BY <1>0, <2>3 DEF Continue, CallType
    <3>3. QED
      BY <2>3, <3>1, <3>2 DEF Continue, Result, GoesOn, keys
  <2>4. QED
    BY <1>4, <2>1, <2>2, <2>3, FinalizeCases
<1>5. CASE CheckSize
  <2>1. CASE Throw(file[call.f], "smaller")
    BY <1>5, <2>1, ThrowResult DEF CheckSize, Outcomes, keys
  <2>2. CASE Continue(file[call.f], [call EXCEPT !.pc = "parts", !.after = "last"])
    <3>2. call'.op = call.op /\ call'.e = call.e /\ call'.f = call.f /\ call'.retried = call.retried /\ call'.pc = "parts"
      BY <1>0, <2>2 DEF Continue, CallType
    <3>3. QED
      BY <1>5, <2>2, <3>2 DEF CheckSize, Continue, Result, GoesOn, keys
  <2>3. QED
    BY <1>5, <2>1, <2>2 DEF CheckSize
<1>6. ASSUME NEW lost \in Losses, SendPart(lost) PROVE Result
  <2> DEFINE g == file[call.f]
             data == GetFullChunk(g.encrypted, PartSize, call.part)
  <2>1. /\ Request(TakesChunk(g, data), lost, [Sent(g) EXCEPT !.data = @ \o data, !.parts = @ + 1],
                   g, [g EXCEPT !.serverSeq = @ + 1], [call EXCEPT !.part = @ + 1])
        /\ call.pc = "parts"
    BY <1>6, Zenon DEF SendPart, SendChunkToServer
  <2>2. ASSUME outcome' = outcome, call' = [call EXCEPT !.part = @ + 1] PROVE GoesOn
    <3>1. call'.op = call.op /\ call'.e = call.e /\ call'.f = call.f /\ call'.retried = call.retried /\ call'.pc = "parts"
      BY <1>0, <2>1, <2>2 DEF CallType
    <3>2. QED
      BY <2>1, <2>2, <3>1 DEF GoesOn
  <2>3. QED
    BY <2>1, <2>2, RequestResult
<1>7. ASSUME NEW lost \in Losses, SendLast(lost) PROVE Result
  <2> DEFINE g == [file[call.f] EXCEPT !.encrypted = <<>>]
             data == file[call.f].encrypted
  <2>1. /\ Request(TakesChunk(g, data), lost, [Sent(g) EXCEPT !.data = @ \o data, !.parts = @ + 1],
                   g, [g EXCEPT !.serverSeq = @ + 1], call)
        /\ call.pc = "last"
    BY <1>7, Zenon DEF SendLast, SendChunkToServer
  <2>2. ASSUME outcome' = outcome, call' = call PROVE GoesOn
    BY <2>1, <2>2 DEF GoesOn
  <2>3. QED
    BY <2>1, <2>2, RequestResult
<1>8. ASSUME NEW lost \in Losses, CommitFile(lost) PROVE Result
  <2> DEFINE g == file[call.f]
  <2>1. /\ Request(TakesCommit(g), lost, [Sent(g) EXCEPT !.committed = TRUE, !.sums = g.sums], g, g, Committed)
        /\ call.pc = "last"
    BY <1>8, Zenon DEF CommitFile
  <2>2. ASSUME outcome' = outcome, call' = Committed PROVE GoesOn
    <3>1. Committed.retried = call.retried
      BY <1>0 DEF Committed, CallType
    <3>2. QED
      BY <2>1, <2>2, <3>1, CommittedFact DEF GoesOn
  <2>3. QED
    BY <2>1, <2>2, RequestResult
<1>9. ASSUME NEW lost \in Losses, FetchKey(lost) PROVE Result
  <2>1. CASE Throw(file[call.f], "lost")
    BY <1>9, <2>1, ThrowResult DEF FetchKey, Outcomes
  <2>2. CASE Continue(file[call.f], [call EXCEPT !.pc = "sendFile", !.keyId = storeKey])
    <3>2. /\ call'.op = call.op /\ call'.e = call.e /\ call'.f = call.f /\ call'.retried = call.retried
          /\ call'.pc = "sendFile" /\ call'.keyId = storeKey
      BY <1>0, <2>2 DEF Continue, CallType
    <3>3. QED
      BY <1>9, <2>2, <3>2 DEF FetchKey, Continue, Result, GoesOn
  <2>3. QED
    BY <1>9, <2>1, <2>2 DEF FetchKey
<1>10. ASSUME NEW lost \in Losses, SendFile(lost) PROVE Result
  <2> DEFINE g == file[call.f]
             fresh == call.keyId = storeKey
             takes == fresh /\ TakesRequest(g.request, 1)
             error == IF lost # "no" THEN "lost" ELSE IF takes THEN "stored"
                      ELSE IF fresh THEN "refused" ELSE "InvalidKey"
  <2>1. /\ call.pc = "sendFile" /\ UNCHANGED <<storeKey, cachedKey>>
        /\ \/ Continue(g, [call EXCEPT !.pc = "fetch", !.retried = TRUE])
           \/ /\ lost # "no" \/ fresh \/ ~Retries(g)
              /\ Throw(g, error)
    BY <1>10 DEF SendFile, keys
  <2>2. CASE Continue(g, [call EXCEPT !.pc = "fetch", !.retried = TRUE])
    <3>2. /\ call'.op = call.op /\ call'.e = call.e /\ call'.f = call.f /\ call'.pc = "fetch"
      BY <1>0, <2>2 DEF Continue, CallType
    <3>3. QED
      BY <2>1, <2>2, <3>2 DEF Continue, Result, GoesOn
  <2>3. CASE (lost # "no" \/ fresh \/ ~Retries(g)) /\ Throw(g, error)
    <3>1. error \in Outcomes /\ error # "different"
          /\ (error = "InvalidKey" => lost = "no" /\ ~fresh)
      BY DEF Outcomes
    <3>2. error = "InvalidKey" => call.keyId # storeKey /\ (file[call.f].update \/ call.retried)
      BY <2>3, <3>1 DEF Retries
    <3> HIDE DEF error
    <3>3. Fails(error)
      BY <2>1, <2>3, <3>1, <3>2 DEF Fails, Throw
    <3>4. QED
      BY <2>1, <3>1, <3>3 DEF Result
  <2>4. QED
    BY <2>1, <2>2, <2>3
<1>11. ASSUME NEW lost \in Losses, InboxSend(lost) PROVE Result
  <2> DEFINE error == IF lost # "no" THEN "lost"
                      ELSE IF TakesRequest(file[entry[call.e].files[1]].request, Len(entry[call.e].files))
                           THEN "stored" ELSE "refused"
  <2>1. Throw(file[call.f], error) /\ UNCHANGED <<storeKey, cachedKey>>
    BY <1>11 DEF InboxSend, keys
  <2>2. error \in Outcomes /\ error \notin {"InvalidKey", "different"}
    BY DEF Outcomes
  <2> HIDE DEF error
  <2>3. QED
    BY <2>1, <2>2, ThrowResult
<1>12. QED
  BY <1>1, <1>2, <1>3, <1>4, <1>5, <1>6, <1>7, <1>8, <1>9, <1>10, <1>11, Zenon DEF Work

-----------------------------------------------------------------------------
(* Keys of the Store.                                                      *)

(* The key a call of closeFile works with is not older than the call when  *)
(* it was read for it: for an update, and for the second try of a file.    *)
KeyInv ==
  /\ \A f \in Files : file[f].began <= storeKey
  /\ call.op = "close" => file[call.f].state = "gone"
  /\ cachedKey # None => cachedKey <= storeKey
  /\ call.retried => call.pc \in {"fetch", "sendFile"}
  /\ call.pc = "sendFile" =>
       /\ call.keyId \in Nat /\ call.keyId <= storeKey
       /\ file[call.f].update \/ call.retried => call.keyId >= file[call.f].began
  /\ \A f \in Files : outcome[f] = "InvalidKey" => file[f].state = "gone" /\ file[f].began < storeKey

LEMMA KeyWork ==
  ASSUME Types, CallHasFile, KeyInv, Work
  PROVE  KeyInv'
<1>1. Effect /\ Result
  BY WorkEffect, WorkResult
<1>2. \A f \in Files : Kept(file[f], file'[f])
  BY <1>1, ShapeKept DEF Effect
<1>3. \A f \in Files : file'[f].state = file[f].state /\ file'[f].began = file[f].began /\ file'[f].update = file[f].update
  BY <1>2, Zenon DEF Kept
<1>4. /\ call.f \in Files /\ storeKey' = storeKey /\ cachedKey' \in {cachedKey, storeKey}
      /\ storeKey \in Nat /\ cachedKey \in Nat \cup {None} /\ file[call.f].began \in Nat
  BY <1>1 DEF Effect, FileStep, Result, Types, FileType
<1>5. Idle.op = "none" /\ Idle.pc = "idle" /\ Idle.retried = FALSE
  BY DEF Idle
<1>6. CASE call' = Idle /\ outcome' = outcome
  BY <1>3, <1>4, <1>5, <1>6 DEF KeyInv
<1>7. ASSUME NEW error \in Outcomes, Fails(error) PROVE KeyInv'
  <2>1. ASSUME NEW f \in Files, outcome'[f] = "InvalidKey"
        PROVE  file[f].state = "gone" /\ file[f].began < storeKey
    <3>1. CASE outcome[f] = "InvalidKey"
      BY <3>1 DEF KeyInv
    <3>2. CASE outcome[f] # "InvalidKey"
      <4>1. f = Caller /\ error = "InvalidKey"
        BY <1>7, <2>1, <3>2 DEF Fails, Types
      <4>2. call.pc = "sendFile" /\ call.keyId # storeKey /\ (file[call.f].update \/ call.retried)
        BY <1>7, <4>1, Zenon DEF Fails
      <4>3. call # Idle
        BY <1>5, <4>2
      <4>4. call.op = "close"
        BY <4>2, <4>3 DEF CallHasFile, CallShape
      <4>5. f = call.f
        BY <4>1, <4>4 DEF Caller
      <4>6. call.keyId \in Nat /\ call.keyId <= storeKey /\ call.keyId >= file[f].began /\ file[f].state = "gone"
        BY <4>2, <4>4, <4>5 DEF KeyInv
      <4>7. QED
        BY <1>4, <4>2, <4>5, <4>6
    <3>3. QED
      BY <3>1, <3>2
  <2>2. call' = Idle
    BY <1>7 DEF Fails
  <2>3. QED
    BY <1>3, <1>4, <1>5, <2>1, <2>2 DEF KeyInv
<1>8. CASE GoesOn
  <2>1. call'.op = "close" => file'[call'.f].state = "gone"
    BY <1>3, <1>4, <1>8 DEF GoesOn, KeyInv
  <2>2. ASSUME call'.retried PROVE call'.pc \in {"fetch", "sendFile"}
    BY <1>8, <2>2 DEF GoesOn, KeyInv
  <2>3. ASSUME call'.pc = "sendFile"
        PROVE  /\ call'.keyId \in Nat /\ call'.keyId <= storeKey
               /\ file'[call'.f].update \/ call'.retried => call'.keyId >= file'[call'.f].began
    <3>1. call'.op = "close" /\ call'.f = call.f
      <4>1. call' # Idle
        BY <1>5, <2>3
      <4>2. CallShape(call)'
        BY <1>1 DEF Effect, CallHasFile
      <4>3. call'.op = "close"
        BY <2>3, <4>1, <4>2 DEF CallShape, Idle
      <4>4. QED
        BY <1>8, <4>3 DEF GoesOn
    <3>2. file'[call'.f].began = file[call.f].began /\ file'[call'.f].update = file[call.f].update
      BY <1>3, <1>4, <3>1
    <3>3. CASE call'.keyId = storeKey
      BY <1>4, <3>2, <3>3 DEF KeyInv
    <3>4. CASE call.pc = "last" /\ ~file[call.f].update /\ call'.keyId = cachedKey /\ cachedKey # None
      <4>1. ~call'.retried
        BY <1>8, <3>4 DEF GoesOn, KeyInv
      <4>2. QED
        BY <1>4, <3>2, <3>4, <4>1 DEF KeyInv
    <3>5. QED
      BY <1>8, <2>3, <3>3, <3>4 DEF GoesOn
  <2>4. outcome' = outcome
    BY <1>8 DEF GoesOn
  <2>5. QED
    BY <1>3, <1>4, <2>1, <2>2, <2>3, <2>4 DEF KeyInv
<1>9. QED
  BY <1>1, <1>6, <1>7, <1>8 DEF Result

(* A call that is not closeFile, or that has not come to its key.          *)
LEMMA KeyOther ==
  ASSUME KeyInv, Types, UNCHANGED <<storeKey, cachedKey>>,
         \A f \in Files : file'[f].began = file[f].began /\ (file[f].state = "gone" => file'[f].state = "gone"),
         call'.op # "close", ~call'.retried, call'.pc # "sendFile",
         \A f \in Files : outcome'[f] = "InvalidKey" => outcome[f] = "InvalidKey"
  PROVE  KeyInv'
BY DEF KeyInv

LEMMA KeyRelease == ASSUME Types, CallHasFile, KeyInv, ReleaseHandles PROVE KeyInv'
<1>1. /\ call.pc = "release" /\ call' \in {[call EXCEPT !.pc = "send"], Idle}
      /\ UNCHANGED <<storeKey, cachedKey>> /\ RemoveFileHandles(entry[call.e].files)
      /\ outcome' \in {outcome, [outcome EXCEPT ![call.e] = "handle"]}
  BY DEF ReleaseHandles, keys, losses
<1>2. call.op = "send" /\ call \in CallType /\ ~call.retried
  BY <1>1, IdleFacts DEF CallHasFile, CallShape, Types, KeyInv
<1>3. call'.op # "close" /\ ~call'.retried /\ call'.pc # "sendFile"
  BY <1>1, <1>2 DEF Idle, CallType
<1>4. \A f \in Files : file'[f].began = file[f].began /\ (file[f].state = "gone" => file'[f].state = "gone")
  BY <1>1, RemoveFact, GoneFact DEF Types
<1>5. \A f \in Files : outcome'[f] = "InvalidKey" => outcome[f] = "InvalidKey"
  BY <1>1 DEF Types
<1>6. QED
  BY <1>1, <1>3, <1>4, <1>5, KeyOther

LEMMA KeyBegin == ASSUME Types, CallHasFile, KeyInv, Begin PROVE KeyInv'
<1>0. Idle.op = "none" /\ Idle.pc = "idle" /\ Idle.retried = FALSE
  BY DEF Idle
<1>1. ASSUME NEW f \in Files, NEW update \in BOOLEAN, CreateFile(f, update) PROVE KeyInv'
  <2>1. /\ call' = Idle /\ file[f].state = "none" /\ UNCHANGED <<storeKey, cachedKey, outcome>>
        /\ \A h \in Files \ {f} : file'[h] = file[h]
    BY <1>1 DEF CreateFile, keys, Types
  <2>2. file'[f].began = 0
    BY <1>1 DEF CreateFile, NewFile, Types
  <2>3. QED
    <3>0. storeKey \in Nat /\ \A h \in Files : file[h].began <= storeKey
      BY Zenon DEF KeyInv, Types
    <3>1. \A h \in Files : file'[h].began <= storeKey
      BY <2>1, <2>2, <3>0
    <3>2. \A h \in Files : outcome[h] = "InvalidKey" => file'[h].state = "gone" /\ file'[h].began < storeKey
      <4>1. ASSUME NEW h \in Files, outcome[h] = "InvalidKey"
            PROVE  file'[h].state = "gone" /\ file'[h].began < storeKey
        <5>1. file[h].state = "gone" /\ file[h].began < storeKey
          BY <4>1, Zenon DEF KeyInv
        <5>2. h # f
          BY <2>1, <5>1
        <5>3. QED
          BY <2>1, <5>1, <5>2
      <4>2. QED
        BY <4>1
    <3>3. QED
      BY <1>0, <2>1, <3>1, <3>2 DEF KeyInv
<1>2. ASSUME NEW f \in Files, CreateFileHandle(f) PROVE KeyInv'
  <2>1. /\ call' = Idle /\ file[f].state = "none" /\ UNCHANGED <<storeKey, cachedKey, outcome>>
        /\ \A h \in Files \ {f} : file'[h] = file[h]
    BY <1>2 DEF CreateFileHandle, keys, Types
  <2>2. file'[f].began = 0
    BY <1>2 DEF CreateFileHandle, NewFile, Types
  <2>3. QED
    <3>0. storeKey \in Nat /\ \A h \in Files : file[h].began <= storeKey
      BY Zenon DEF KeyInv, Types
    <3>1. \A h \in Files : file'[h].began <= storeKey
      BY <2>1, <2>2, <3>0
    <3>2. \A h \in Files : outcome[h] = "InvalidKey" => file'[h].state = "gone" /\ file'[h].began < storeKey
      <4>1. ASSUME NEW h \in Files, outcome[h] = "InvalidKey"
            PROVE  file'[h].state = "gone" /\ file'[h].began < storeKey
        <5>1. file[h].state = "gone" /\ file[h].began < storeKey
          BY <4>1, Zenon DEF KeyInv
        <5>2. h # f
          BY <2>1, <5>1
        <5>3. QED
          BY <2>1, <5>1, <5>2
      <4>2. QED
        BY <4>1
    <3>3. QED
      BY <1>0, <2>1, <3>1, <3>2 DEF KeyInv
<1>3. ASSUME NEW f \in Files, CloseFile(f) PROVE KeyInv'
  <2>1. /\ file[f].state = "open" /\ UNCHANGED <<storeKey, cachedKey, outcome>>
        /\ \A h \in Files \ {f} : file'[h] = file[h]
        /\ call' = Started("close", f, None, "finalize")
    BY <1>3 DEF CloseFile, keys, Types
  <2>2. file'[f].state = "gone" /\ file'[f].began = storeKey
    BY <1>3 DEF CloseFile, Types, FileType
  <2>3. call'.f = f /\ call'.pc = "finalize" /\ ~call'.retried
    BY <2>1 DEF Started, Idle
  <2>4. storeKey \in Nat /\ \A h \in Files : file[h].began <= storeKey
    BY Zenon DEF KeyInv, Types
  <2>5. \A h \in Files : file'[h].began <= storeKey
    BY <2>1, <2>2, <2>4
  <2>6. \A h \in Files : outcome[h] = "InvalidKey" => file[h].state = "gone" /\ file[h].began < storeKey
    BY Zenon DEF KeyInv
  <2>7. outcome[f] # "InvalidKey"
    BY <2>1, <2>6
  <2>8. \A h \in Files : outcome[h] = "InvalidKey" => file'[h].state = "gone" /\ file'[h].began < storeKey
    BY <2>1, <2>6, <2>7, Zenon
  <2>9. cachedKey # None => cachedKey <= storeKey
    BY Zenon DEF KeyInv
  <2>10. QED
    BY <2>1, <2>2, <2>3, <2>5, <2>8, <2>9 DEF KeyInv
<1>4. ASSUME NEW f \in Files, NEW len \in Nat, Write(f, len) PROVE KeyInv'
  <2>1. /\ \A h \in Files : file'[h].began = file[h].began /\ file'[h].state = file[h].state
        /\ UNCHANGED <<storeKey, cachedKey>>
        /\ \A h \in Files : outcome'[h] = "InvalidKey" => outcome[h] = "InvalidKey"
    <3>1. Buffered(file[f], f, len).began = file[f].began /\ Buffered(file[f], f, len).state = file[f].state
      BY BufferedFact DEF Types
    <3>2. QED
      BY <1>4, <3>1, WriteCases DEF Types
  <2>2. call' = Idle \/ call' = Started("write", f, None, "write")
    BY <1>4, WriteCases
  <2>3. call'.op # "close" /\ ~call'.retried /\ call'.pc # "sendFile"
    <3>1. /\ Started("write", f, None, "write").op = "write" /\ Started("write", f, None, "write").pc = "write"
          /\ Started("write", f, None, "write").retried = FALSE
      BY DEF Started, Idle
    <3>2. QED
      BY <1>0, <2>2, <3>1, Zenon
  <2>4. QED
    BY <2>1, <2>3, KeyOther
<1>5. ASSUME NEW e \in Entries, SendEntry(e) PROVE KeyInv'
  <2>1. /\ \A h \in Files : file'[h].began = file[h].began /\ (file[h].state = "gone" => file'[h].state = "gone")
        /\ UNCHANGED <<storeKey, cachedKey>>
    BY <1>5, SendEntryCases, RemoveFact, GoneFact DEF Types
  <2>2. \A h \in Files : outcome'[h] = outcome[h]
    BY <1>5, SendEntryCases, Constants DEF Types
  <2>3. call' = Idle \/ call' = Started("send", entry[e].files[1], e, "finalize")
    BY <1>5, SendEntryCases
  <2>4. call'.op # "close" /\ ~call'.retried /\ call'.pc # "sendFile"
    <3> DEFINE c == Started("send", entry[e].files[1], e, "finalize")
    <3>1. c.op = "send" /\ c.pc = "finalize" /\ c.retried = FALSE
      BY DEF Started, Idle
    <3>2. QED
      BY <1>0, <2>3, <3>1, Zenon
  <2>5. QED
    BY <2>1, <2>2, <2>4, KeyOther
<1>6. ASSUME NEW e \in Entries, NEW fs \in EntryFiles, PrepareEntry(e, fs) PROVE KeyInv'
  <2>1. call' = Idle /\ UNCHANGED <<storeKey, cachedKey, outcome>>
    BY <1>6 DEF PrepareEntry, keys
  <2>2. file' = [f \in Files |-> IF f \in Range(fs) THEN SetRequestData(file[f], Len(request) + 1, PlaceOf(fs, f)) ELSE file[f]]
    BY <1>6 DEF PrepareEntry, PlaceOf
  <2>3. \A h \in Files : \A r, i : SetRequestData(file[h], r, i).began = file[h].began /\ SetRequestData(file[h], r, i).state = file[h].state
    BY DEF SetRequestData, Types, FileType
  <2>4. \A h \in Files : file'[h].began = file[h].began /\ file'[h].state = file[h].state
    BY <2>2, <2>3, Zenon
  <2>5. QED
    BY <1>0, <2>1, <2>4, KeyOther
<1>7. ASSUME NEW e \in Entries, NEW lost \in Losses, SendText(e, lost) PROVE KeyInv'
  <2>1. call' = Idle /\ UNCHANGED <<file, storeKey, cachedKey>>
    BY <1>7 DEF SendText, keys
  <2>2. \A h \in Files : outcome'[h] = outcome[h]
    BY <1>7, Constants DEF SendText, Types
  <2>3. QED
    BY <1>0, <2>1, <2>2, KeyOther
<1>8. QED
  BY <1>1, <1>2, <1>3, <1>4, <1>5, <1>6, <1>7, BeginCases, Zenon

LEMMA KeyNext == ASSUME Types, CallHasFile, KeyInv, [Next]_vars PROVE KeyInv'
<1>1. CASE RotateKey
  <2>1. storeKey' = storeKey + 1 /\ UNCHANGED <<file, call, cachedKey, outcome>>
    BY <1>1 DEF RotateKey
  <2>2. /\ storeKey \in Nat /\ cachedKey \in Nat \cup {None} /\ \A f \in Files : file[f].began \in Nat
    BY DEF Types, FileType
  <2>3. QED
    BY <2>1, <2>2 DEF KeyInv
<1>2. CASE UNCHANGED vars
  BY <1>2 DEF KeyInv, vars, keys
<1>3. QED
  BY <1>1, <1>2, KeyBegin, KeyWork, KeyRelease, StepIs DEF Next

LEMMA KeyInit == ASSUME Init PROVE KeyInv
<1>1. \A f \in Files : file[f].began = 0 /\ outcome[f] = "none"
  BY DEF Init, NewFile
<1>2. storeKey = 0 /\ cachedKey \in {None, 0} /\ call = Idle
  BY DEF Init
<1>3. Idle.op = "none" /\ Idle.pc = "idle" /\ Idle.retried = FALSE
  BY DEF Idle
<1>4. \A f \in Files : file[f].began <= storeKey
  BY <1>1, <1>2, 0 <= 0, Zenon
<1>a. cachedKey # None => cachedKey = 0
  BY <1>2
<1>5. cachedKey # None => cachedKey <= storeKey
  BY <1>2, <1>a, 0 <= 0, Zenon
<1>6. QED
  BY <1>1, <1>2, <1>3, <1>4, <1>5, Zenon DEF KeyInv

(* closeFile throws for the key of the Store only if the key was changed    *)
(* after the call began: its second try has a key read during the call.     *)
THEOREM RefusedOnlyByRotationAlways == Spec => []RefusedOnlyByRotation
<1>1. Init => KeyInv
  BY KeyInit
<1>2. (Types /\ CallHasFile) /\ KeyInv /\ [Next]_vars => KeyInv'
  BY KeyNext
<1>3. KeyInv => RefusedOnlyByRotation
  BY DEF KeyInv, RefusedOnlyByRotation
<1>4. QED
  BY <1>1, <1>2, <1>3, TypesAlways, PTL DEF Spec

-----------------------------------------------------------------------------
(* Lists of files, and their places in the requests.                       *)

(* The file is in several entries, or twice in one.                        *)
Twice(lists, f) ==
  \E d, e \in Entries : \E i \in DOMAIN lists[d].files, j \in DOMAIN lists[e].files :
    <<d, i>> # <<e, j>> /\ lists[d].files[i] = f /\ lists[e].files[j] = f

(* Two files never share what the server has of them, and what it has is   *)
(* of the declared size.                                                   *)
PlacesInv ==
  /\ \A f, g \in Files : f # g /\ file[f].request # None /\ file[f].request = file[g].request =>
       file[f].index # file[g].index /\ f \notin StoreFiles
  /\ \A f \in Files : file[f].request # None =>
       /\ file[f].state # "none" /\ file[f].key = <<file[f].request, file[f].index>>
       /\ Sent(file[f]).size = DeclaredSize(FileSize[f]) /\ Sent(file[f]).chunks = NumberOfChunks(FileSize[f])
       /\ Len(Sent(file[f]).data) <= Sent(file[f]).size
  /\ \A f \in StoreFiles : file[f].state # "none" =>
       file[f].request # None /\ Len(request[file[f].request]) = 1 /\ file[f].index = 1

(* The files of a list are the files of one request, in their order, but   *)
(* for those that are in a list twice.                                     *)
InList(e, i) ==
  LET f == entry[e].files[i]
  IN /\ file[f].index = i /\ Len(request[file[f].request]) = Len(entry[e].files)
     /\ \A g \in Files : file[g].request = file[f].request => g \in Range(entry[e].files)
     /\ \A j \in DOMAIN entry[e].files :
          ~Twice(entry, entry[e].files[j]) => file[entry[e].files[j]].request = file[f].request

ListsInv ==
  /\ \A e \in Entries : entry[e].state = "none" => entry[e].files = <<>>
  /\ \A e \in Entries : \A i \in DOMAIN entry[e].files :
       /\ file[entry[e].files[i]].request # None
       /\ ~Twice(entry, entry[e].files[i]) => InList(e, i)

(* Steps that make no list and no request.                                 *)
Same ==
  /\ \A e \in Entries : /\ entry'[e].files = entry[e].files
                        /\ entry'[e].state = "none" => entry[e].state = "none"
  /\ \A f \in Files : /\ file'[f].request = file[f].request /\ file'[f].index = file[f].index
                      /\ file'[f].key = file[f].key
                      /\ file'[f].state = "none" <=> file[f].state = "none"
  /\ Len(request') = Len(request)
  /\ \A a \in 1..Len(request) :
       /\ Len(request'[a]) = Len(request[a])
       /\ \A b \in 1..Len(request[a]) :
            /\ request'[a][b].size = request[a][b].size /\ request'[a][b].chunks = request[a][b].chunks
            /\ request'[a][b].data = request[a][b].data \/ Len(request'[a][b].data) <= request'[a][b].size

LEMMA WorkSame == ASSUME Types, CallHasFile, Work PROVE Same
<1>1. FileStep /\ SentStep /\ entry' = entry
  BY WorkEffect DEF Effect
<1>2. \A f \in Files : Kept(file[f], file'[f])
  BY <1>1, ShapeKept
<1>3. \A f \in Files : /\ file'[f].request = file[f].request /\ file'[f].index = file[f].index
                       /\ file'[f].key = file[f].key /\ file'[f].state = file[f].state
  BY <1>2, Zenon DEF Kept
<1>4. /\ Len(request') = Len(request)
      /\ \A a \in 1..Len(request) :
           /\ Len(request'[a]) = Len(request[a])
           /\ \A b \in 1..Len(request[a]) :
                /\ request'[a][b].size = request[a][b].size /\ request'[a][b].chunks = request[a][b].chunks
                /\ request'[a][b] = request[a][b] \/ Len(request'[a][b].data) <= request'[a][b].size
  BY <1>1, ShapeKept
<1>5. QED
  BY <1>1, <1>3, <1>4 DEF Same

LEMMA RequestsSame ==
  ASSUME request' = request,
         \A e \in Entries : /\ entry'[e].files = entry[e].files
                            /\ entry'[e].state = "none" => entry[e].state = "none",
         \A f \in Files : /\ file'[f].request = file[f].request /\ file'[f].index = file[f].index
                          /\ file'[f].key = file[f].key
                          /\ file'[f].state = "none" <=> file[f].state = "none"
  PROVE  Same
BY DEF Same

LEMMA ReleaseSame ==
  ASSUME Types, NEW e \in Entries, NEW fs, RemoveFileHandles(fs), request' = request,
         entry' = [entry EXCEPT ![e].state = "gone"], fs \in Seq(Files),
         \A i \in DOMAIN fs : file[fs[i]].state # "none"
  PROVE  Same
<1>1. \A d \in Entries : entry'[d].files = entry[d].files /\ (entry'[d].state = "none" => entry[d].state = "none")
  BY EntryGone
<1>2. ASSUME NEW f \in Files
      PROVE  /\ file'[f].request = file[f].request /\ file'[f].index = file[f].index
             /\ file'[f].key = file[f].key /\ (file'[f].state = "none" <=> file[f].state = "none")
  <2>1. CASE f \in Removed(fs)
    <3>1. file'[f] = Gone(file[f])
      BY <2>1, RemoveFact
    <3>2. file[f].state # "none"
      BY <2>1 DEF Removed
    <3>3. QED
      BY <3>1, <3>2, GoneFact DEF Types
  <2>2. CASE f \notin Removed(fs)
    BY <2>2, RemoveFact
  <2>3. QED
    BY <2>1, <2>2
<1>3. QED
  BY <1>1, <1>2, RequestsSame

LEMMA ListFact ==
  ASSUME Types, NEW e \in Entries
  PROVE  /\ entry[e].files \in Seq(Files) /\ DOMAIN entry[e].files = 1..Len(entry[e].files)
         /\ Len(entry[e].files) \in Nat
         /\ \A i \in DOMAIN entry[e].files : entry[e].files[i] \in Files \ StoreFiles
         /\ Range(entry[e].files) \subseteq Files \ StoreFiles
<1>1. entry[e].files \in Seq(Files \ StoreFiles)
  BY DEF Types, EntryType
<1>2. DOMAIN entry[e].files = 1..Len(entry[e].files) /\ Len(entry[e].files) \in Nat
      /\ \A i \in DOMAIN entry[e].files : entry[e].files[i] \in Files \ StoreFiles
  BY <1>1, LenProperties, ElementOfSeq
<1>3. QED
  BY <1>1, <1>2 DEF Range

LEMMA StepSame ==
  ASSUME Types, CallHasFile, PlacesInv, ListsInv, [Next]_vars
  PROVE  \/ Same
         \/ \E f \in Files : CreateFileHandle(f) \/ \E update \in BOOLEAN : CreateFile(f, update)
         \/ \E e \in Entries, fs \in EntryFiles : PrepareEntry(e, fs)
<1>0. \A e \in Entries : \A i \in DOMAIN entry[e].files :
        entry[e].files[i] \in Files /\ file[entry[e].files[i]].state # "none"
  BY ListFact DEF ListsInv, PlacesInv
<1>1. CASE Work
  BY <1>1, WorkSame
<1>2. CASE ReleaseHandles
  <2>1. call.e \in Entries /\ entry[call.e].files \in Seq(Files)
    BY <1>2, IdleFacts, ListFact DEF ReleaseHandles, CallHasFile, CallShape
  <2>2. RemoveFileHandles(entry[call.e].files) /\ request' = request /\ entry' = [entry EXCEPT ![call.e].state = "gone"]
    BY <1>2 DEF ReleaseHandles
  <2>3. QED
    BY <1>0, <2>1, <2>2, ReleaseSame
<1>3. ASSUME NEW e \in Entries, SendEntry(e) PROVE Same
  <2>1. CASE UNCHANGED <<file, entry, request>>
    BY <2>1, RequestsSame
  <2>2. CASE RemoveFileHandles(entry[e].files) /\ request' = request /\ entry' = [entry EXCEPT ![e].state = "gone"]
    BY <1>0, <2>2, ReleaseSame, ListFact
  <2>3. QED
    BY <1>3, <2>1, <2>2, SendEntryCases
<1>4. ASSUME NEW f \in Files, NEW len \in Nat, Write(f, len) PROVE Same
  <2>1. UNCHANGED <<entry, request>> /\ (file' = file \/ file' = [file EXCEPT ![f] = Buffered(file[f], f, len)])
    BY <1>4, WriteCases
  <2>2. LET h == Buffered(file[f], f, len)
        IN h.state = file[f].state /\ h.request = file[f].request /\ h.index = file[f].index /\ h.key = file[f].key
    BY BufferedFact DEF Types
  <2>3. QED
    BY <2>1, <2>2, RequestsSame DEF Types
<1>5. ASSUME NEW f \in Files, CloseFile(f) PROVE Same
  <2> DEFINE h == [file[f] EXCEPT !.state = "gone", !.began = storeKey]
  <2>1. UNCHANGED <<entry, request>> /\ file[f].state = "open" /\ file' = [file EXCEPT ![f] = h]
    BY <1>5 DEF CloseFile, Types
  <2>2. h.state = "gone" /\ h.request = file[f].request /\ h.index = file[f].index /\ h.key = file[f].key
    BY DEF Types, FileType
  <2> HIDE DEF h
  <2>3. QED
    BY <2>1, <2>2, RequestsSame DEF Types
<1>6. CASE RotateKey \/ UNCHANGED vars \/ \E e \in Entries, lost \in Losses : SendText(e, lost)
  <2>1. UNCHANGED <<file, entry, request>>
    BY <1>6 DEF RotateKey, vars, SendText
  <2>2. QED
    BY <2>1, RequestsSame
<1>7. QED
  BY <1>1, <1>2, <1>3, <1>4, <1>5, <1>6, BeginCases, StepIs, Zenon DEF Next

LEMMA TwiceSame == ASSUME Same, NEW f PROVE Twice(entry', f) <=> Twice(entry, f)
<1>1. \A e \in Entries : entry'[e].files = entry[e].files
  BY DEF Same
<1>2. QED
  BY <1>1 DEF Twice

LEMMA PlacesSame == ASSUME Types, CallHasFile, PlacesInv, Same PROVE PlacesInv'
<1>0. \A f \in Files : /\ file'[f].request = file[f].request /\ file'[f].index = file[f].index
                       /\ file'[f].key = file[f].key
                       /\ file'[f].state = "none" <=> file[f].state = "none"
  BY DEF Same
<1>1. ASSUME NEW f \in Files, file[f].request # None
      PROVE  /\ Sent(file[f])' = request'[file[f].request][file[f].index]
             /\ Sent(file[f])'.size = DeclaredSize(FileSize[f])
             /\ Sent(file[f])'.chunks = NumberOfChunks(FileSize[f])
             /\ Len(Sent(file[f])'.data) <= Sent(file[f])'.size
             /\ Len(request'[file[f].request]) = Len(request[file[f].request])
             /\ file'[f].state # "none" /\ file'[f].key = <<file'[f].request, file'[f].index>>
  <2>1. Sent(file[f])' = request'[file[f].request][file[f].index]
    BY <1>0 DEF Sent
  <2>2. /\ Sent(file[f])'.size = Sent(file[f]).size /\ Sent(file[f])'.chunks = Sent(file[f]).chunks
        /\ Sent(file[f])'.data = Sent(file[f]).data \/ Len(Sent(file[f])'.data) <= Sent(file[f])'.size
        /\ Len(request'[file[f].request]) = Len(request[file[f].request])
    BY <1>1, <2>1, SentFact, ZenonT(60) DEF Same, Sent
  <2>3. QED
    BY <1>0, <1>1, <2>1, <2>2 DEF PlacesInv
<1>2. \A f, g \in Files : f # g /\ file'[f].request # None /\ file'[f].request = file'[g].request =>
       file'[f].index # file'[g].index /\ f \notin StoreFiles
  BY <1>0 DEF PlacesInv
<1>3. \A f \in StoreFiles : file'[f].state # "none" =>
        file'[f].request # None /\ Len(request'[file'[f].request]) = 1 /\ file'[f].index = 1
  BY <1>0, <1>1, Constants DEF PlacesInv
<1>4. QED
  BY <1>0, <1>1, <1>2, <1>3 DEF PlacesInv

LEMMA ListsSame == ASSUME Types, CallHasFile, ListsInv, Same PROVE ListsInv'
<1>0. /\ \A f \in Files : file'[f].request = file[f].request /\ file'[f].index = file[f].index
      /\ \A e \in Entries : /\ entry'[e].files = entry[e].files
                            /\ entry'[e].state = "none" => entry[e].state = "none"
  BY DEF Same
<1>1. ASSUME NEW e \in Entries, NEW i \in DOMAIN entry[e].files, ~Twice(entry, entry[e].files[i])
      PROVE  InList(e, i)'
  <2> DEFINE f == entry[e].files[i]
  <2>1. f \in Files /\ file[f].request # None /\ InList(e, i)
    BY <1>1, ListFact DEF ListsInv
  <2>2. /\ f = entry'[e].files[i] /\ file'[f].index = i
        /\ \A g \in Files : file'[g].request = file'[f].request => g \in Range(entry'[e].files)
    BY <1>0, <2>1 DEF InList
  <2>3. Len(request'[file'[f].request]) = Len(entry'[e].files)
    BY <1>0, <2>1, SentFact DEF InList, Same
  <2>4. \A j \in DOMAIN entry'[e].files : ~Twice(entry', entry'[e].files[j]) => file'[entry'[e].files[j]].request = file'[f].request
    <3> SUFFICES ASSUME NEW j \in DOMAIN entry[e].files, ~Twice(entry', entry[e].files[j])
                 PROVE  file'[entry[e].files[j]].request = file'[f].request
      BY <1>0
    <3>1. ~Twice(entry, entry[e].files[j])
      BY <1>0, TwiceSame
    <3>2. file[entry[e].files[j]].request = file[f].request
      BY <2>1, <3>1 DEF InList
    <3>3. QED
      BY <1>0, <2>1, <3>2, ListFact
  <2> HIDE DEF f
  <2>5. QED
    BY <2>2, <2>3, <2>4 DEF InList
<1>2. \A e \in Entries : entry'[e].state = "none" => entry'[e].files = <<>>
  BY <1>0 DEF ListsInv
<1>3. ASSUME NEW e \in Entries, NEW i \in DOMAIN entry'[e].files
      PROVE  /\ file'[entry'[e].files[i]].request # None
             /\ ~Twice(entry', entry'[e].files[i]) => InList(e, i)'
  <2>1. i \in DOMAIN entry[e].files /\ entry'[e].files[i] = entry[e].files[i] /\ entry[e].files[i] \in Files
    BY <1>0, ListFact
  <2>2. file'[entry'[e].files[i]].request # None
    BY <1>0, <2>1 DEF ListsInv
  <2>3. Twice(entry', entry[e].files[i]) <=> Twice(entry, entry[e].files[i])
    BY TwiceSame
  <2>4. QED
    BY <1>1, <2>1, <2>2, <2>3
<1>4. QED
  BY <1>2, <1>3 DEF ListsInv

(* createFile and updateFile, in detail.                                   *)
LEMMA CreateFileIs ==
  ASSUME Types, NEW f \in Files, NEW update \in BOOLEAN, CreateFile(f, update)
  PROVE  LET r == Len(request) + 1
             g == [NewFile EXCEPT !.request = r, !.index = 1, !.key = <<r, 1>>, !.update = update]
         IN /\ call = Idle /\ f \in StoreFiles /\ file[f].state = "none" /\ r \in Nat
            /\ UNCHANGED <<entry, call, stored, storeKey, cachedKey, outcome, faults, faulty>>
            /\ file'[f] = g /\ \A h \in Files \ {f} : file'[h] = file[h]
            /\ \A a \in 1..Len(request) : a \in 1..Len(request') /\ request'[a] = request[a]
            /\ Len(request') = r /\ Len(request'[r]) = 1 /\ request'[r][1] = NewSent(FileSize[f])
<1> DEFINE r == Len(request) + 1
           q == NewRequest(<<FileSize[f]>>)
<1>1. /\ call = Idle /\ f \in StoreFiles /\ file[f].state = "none" /\ request' = Append(request, q)
      /\ file' = [file EXCEPT ![f] = [NewFile EXCEPT !.request = r, !.index = 1, !.key = <<r, 1>>, !.update = update]]
      /\ UNCHANGED <<entry, call, stored, storeKey, cachedKey, outcome, faults, faulty>>
  BY DEF CreateFile, keys, losses
<1>2. q \in Seq(SentType) /\ Len(q) = 1
  <2>1. <<FileSize[f]>> \in [1..1 -> Nat]
    BY Constants
  <2>2. QED
    BY <2>1, NewRequestFact, 1 \in Nat, Zenon
<1>3. q[1] = NewSent(FileSize[f])
  <2> DEFINE sizes == <<FileSize[f]>>
  <2>1. sizes \in [1..1 -> Nat] /\ sizes[1] = FileSize[f] /\ 1 \in 1..1
    BY Constants
  <2>2. q = NewRequest(sizes)
    OBVIOUS
  <2> HIDE DEF sizes, q
  <2>3. \A i \in 1..1 : q[i] =
          [size |-> DeclaredSize(sizes[i]), data |-> <<>>, parts |-> 0,
           chunks |-> NumberOfChunks(sizes[i]), sums |-> <<>>, committed |-> FALSE]
    BY <2>1, <2>2, NewRequestFact, 1 \in Nat, Zenon
  <2>4. QED
    BY <2>1, <2>3, Zenon DEF NewSent
<1> HIDE DEF q
<1>4. /\ \A a \in 1..Len(request) : a \in 1..Len(request') /\ request'[a] = request[a]
      /\ Len(request') = r /\ request'[r] = q /\ r \in Nat
  BY <1>1, <1>2, AppendRequest
<1>5. QED
  BY <1>1, <1>2, <1>3, <1>4 DEF Types

LEMMA CreateFilePlaces ==
  ASSUME Types, CallHasFile, PlacesInv, ListsInv, NEW f \in Files, NEW update \in BOOLEAN, CreateFile(f, update)
  PROVE  PlacesInv' /\ ListsInv'
<1> DEFINE r == Len(request) + 1
<1>1. /\ f \in StoreFiles /\ file[f].state = "none" /\ r \in Nat /\ entry' = entry
      /\ \A h \in Files \ {f} : file'[h] = file[h]
      /\ \A a \in 1..Len(request) : request'[a] = request[a]
      /\ Len(request'[r]) = 1 /\ request'[r][1] = NewSent(FileSize[f])
  BY CreateFileIs
<1>2. file'[f].request = r /\ file'[f].index = 1 /\ file'[f].state = "open" /\ file'[f].key = <<r, 1>>
  <2>1. file'[f] = [NewFile EXCEPT !.request = r, !.index = 1, !.key = <<r, 1>>, !.update = update]
    BY CreateFileIs
  <2>2. QED
    BY <2>1 DEF NewFile
<1>3. /\ Len(request) \in Nat /\ r \notin 1..Len(request) /\ r # None
  BY LenProperties, Constants DEF Types
<1>4. \A h \in Files \ {f} : file[h].request # r
  BY <1>3 DEF CallHasFile
<1>5. /\ NewSent(FileSize[f]).size = DeclaredSize(FileSize[f]) /\ NewSent(FileSize[f]).chunks = NumberOfChunks(FileSize[f])
      /\ Len(NewSent(FileSize[f]).data) = 0 /\ DeclaredSize(FileSize[f]) \in Nat
  BY DeclaredSizeNat, Constants DEF NewSent
<1>a. r = Len(request) + 1
  OBVIOUS
<1> HIDE DEF r
<1>6. PlacesInv'
  <2>1. \A g, h \in Files : g # h /\ file'[g].request # None /\ file'[g].request = file'[h].request =>
          file'[g].index # file'[h].index /\ g \notin StoreFiles
    BY <1>1, <1>2, <1>3, <1>4 DEF PlacesInv
  <2>2. ASSUME NEW h \in Files, file'[h].request # None
        PROVE  /\ file'[h].state # "none" /\ file'[h].key = <<file'[h].request, file'[h].index>>
               /\ Sent(file[h])'.size = DeclaredSize(FileSize[h])
               /\ Sent(file[h])'.chunks = NumberOfChunks(FileSize[h])
               /\ Len(Sent(file[h])'.data) <= Sent(file[h])'.size
    <3>1. CASE h = f
      BY <1>1, <1>2, <1>5, <3>1 DEF Sent
    <3>2. CASE h # f
      <4>1. file'[h] = file[h] /\ file[h].request \in 1..Len(request)
        BY <1>1, <2>2, <3>2 DEF CallHasFile
      <4>2. Sent(file[h])' = Sent(file[h])
        BY <1>1, <4>1 DEF Sent
      <4>3. QED
        BY <2>2, <4>1, <4>2 DEF PlacesInv
    <3>3. QED
      BY <3>1, <3>2
  <2>3. ASSUME NEW h \in StoreFiles, file'[h].state # "none"
        PROVE  file'[h].request # None /\ Len(request'[file'[h].request]) = 1 /\ file'[h].index = 1
    <3>1. CASE h = f
      BY <1>1, <1>2, <1>3, <3>1
    <3>2. CASE h # f
      <4>1. h \in Files /\ file'[h] = file[h]
        BY <1>1, <3>2, Constants
      <4>2. file[h].request # None /\ Len(request[file[h].request]) = 1 /\ file[h].index = 1
        BY <2>3, <4>1 DEF PlacesInv
      <4>3. file[h].request \in 1..Len(request)
        BY <4>1, <4>2 DEF CallHasFile
      <4>4. QED
        BY <1>1, <4>1, <4>2, <4>3
    <3>3. QED
      BY <3>1, <3>2
  <2>4. QED
    BY <2>1, <2>2, <2>3 DEF PlacesInv
<1>7. ListsInv'
  <2>1. ASSUME NEW e \in Entries, NEW i \in DOMAIN entry[e].files
        PROVE  /\ file'[entry[e].files[i]].request # None
               /\ ~Twice(entry, entry[e].files[i]) => InList(e, i)'
    <3> DEFINE h == entry[e].files[i]
    <3>1. h \in Files /\ h # f /\ file'[h] = file[h] /\ file[h].request # None
      BY <1>1, <2>1, ListFact DEF ListsInv
    <3>2. \A j \in DOMAIN entry[e].files : file'[entry[e].files[j]] = file[entry[e].files[j]]
      BY <1>1, ListFact
    <3>3. file[h].request \in 1..Len(request)
      BY <3>1 DEF CallHasFile
    <3>4. ASSUME ~Twice(entry, h), NEW g \in Files, file'[g].request = file[h].request
          PROVE  g \in Range(entry[e].files)
      <4>1. g # f
        BY <1>2, <1>3, <3>3, <3>4
      <4>2. file[g].request = file[h].request
        BY <1>1, <3>4, <4>1, SMTT(30)
      <4>3. QED
        BY <2>1, <3>4, <4>2 DEF ListsInv, InList
    <3>5. ASSUME ~Twice(entry, h) PROVE InList(e, i)'
      <4>1. InList(e, i)
        BY <2>1, <3>5 DEF ListsInv
      <4>2. request'[file[h].request] = request[file[h].request]
        BY <1>1, <3>3
      <4>3. QED
        BY <1>1, <3>1, <3>2, <3>4, <3>5, <4>1, <4>2 DEF InList
    <3>6. QED
      BY <3>1, <3>5
  <2>2. QED
    BY <1>1, <2>1 DEF ListsInv
<1>8. QED
  BY <1>6, <1>7

LEMMA CreateFileHandlePlaces ==
  ASSUME Types, CallHasFile, PlacesInv, ListsInv, NEW f \in Files, CreateFileHandle(f)
  PROVE  PlacesInv' /\ ListsInv'
<1>1. /\ f \notin StoreFiles /\ file[f].state = "none" /\ UNCHANGED <<entry, request>>
      /\ \A h \in Files \ {f} : file'[h] = file[h]
      /\ file'[f] = NewFile
  BY DEF CreateFileHandle, Types
<1>2. file[f].request = None /\ file'[f].request = None
  BY <1>1, NewFileFact DEF PlacesInv
<1>3. \A h \in Files : file'[h].request # None => file'[h] = file[h] /\ Sent(file[h])' = Sent(file[h])
  BY <1>1, <1>2 DEF Sent
<1>4. \A h \in Files : file'[h].request = file[h].request
  BY <1>1, <1>2
<1>5. \A h \in StoreFiles : h \in Files /\ file'[h] = file[h]
  BY <1>1, Constants
<1>6. PlacesInv'
  <2>1. \A g, h \in Files : g # h /\ file'[g].request # None /\ file'[g].request = file'[h].request =>
          file'[g].index # file'[h].index /\ g \notin StoreFiles
    BY <1>3, <1>4 DEF PlacesInv
  <2>2. QED
    BY <1>1, <1>3, <1>5, <2>1 DEF PlacesInv
<1>7. \A e \in Entries : \A i \in DOMAIN entry[e].files : file'[entry[e].files[i]] = file[entry[e].files[i]]
  <2> SUFFICES ASSUME NEW e \in Entries, NEW i \in DOMAIN entry[e].files
               PROVE  file'[entry[e].files[i]] = file[entry[e].files[i]]
    OBVIOUS
  <2>1. entry[e].files[i] \in Files /\ file[entry[e].files[i]].request # None
    BY ListFact DEF ListsInv
  <2>2. QED
    BY <1>1, <1>2, <2>1
<1>8. \A e \in Entries : \A i \in DOMAIN entry[e].files : InList(e, i) => InList(e, i)'
  BY <1>1, <1>4, <1>7 DEF InList
<1>9. ListsInv'
  BY <1>1, <1>7, <1>8 DEF ListsInv
<1>10. QED
  BY <1>6, <1>9

LEMMA PlaceOnce ==
  ASSUME Types, CallHasFile, NEW e \in Entries, NEW fs \in EntryFiles, PrepareEntry(e, fs),
         NEW i \in 1..Len(fs), ~Twice(entry', fs[i])
  PROVE  PlaceOf(fs, fs[i]) = i
<1>1. fs \in Seq(Files) /\ entry'[e] = [state |-> "open", files |-> fs]
  BY PrepareEntryIs, Zenon
<1>2. DOMAIN fs = 1..Len(fs) /\ fs[i] \in Range(fs) /\ entry'[e].files = fs
  BY <1>1, LenProperties DEF Range
<1>3. PlaceOf(fs, fs[i]) \in 1..Len(fs) /\ fs[PlaceOf(fs, fs[i])] = fs[i]
  BY <1>1, <1>2, PlaceFact
<1>4. QED
  BY <1>2, <1>3 DEF Twice

LEMMA PlaceApart ==
  ASSUME Types, NEW fs \in Seq(Files), NEW f \in Range(fs), NEW g \in Range(fs), f # g
  PROVE  PlaceOf(fs, f) # PlaceOf(fs, g)
BY PlaceFact

(* The lists of an entry stay, a new one is added.                         *)
LEMMA TwiceAdded ==
  ASSUME Types, CallHasFile, ListsInv, NEW e \in Entries, NEW fs \in EntryFiles, PrepareEntry(e, fs), NEW f
  PROVE  /\ Twice(entry, f) => Twice(entry', f)
         /\ \A d \in Entries \ {e} : \A i \in DOMAIN entry[d].files, j \in 1..Len(fs) :
              entry[d].files[i] = f /\ fs[j] = f => Twice(entry', f)
<1>1. /\ entry[e].state = "none" /\ fs \in Seq(Files) /\ entry'[e] = [state |-> "open", files |-> fs]
      /\ \A d \in Entries \ {e} : entry'[d] = entry[d]
  BY PrepareEntryIs, Zenon
<1>2. entry[e].files = <<>> /\ entry'[e].files = fs /\ DOMAIN fs = 1..Len(fs)
  BY <1>1, LenProperties DEF ListsInv
<1>3. DOMAIN entry[e].files = {}
  BY <1>2
<1>4. Twice(entry, f) => Twice(entry', f)
  BY <1>1, <1>3 DEF Twice
<1>5. ASSUME NEW d \in Entries \ {e}, NEW i \in DOMAIN entry[d].files, NEW j \in 1..Len(fs), entry[d].files[i] = f, fs[j] = f
      PROVE  Twice(entry', f)
  <2>1. <<d, i>> # <<e, j>> /\ i \in DOMAIN entry'[d].files /\ j \in DOMAIN entry'[e].files
        /\ entry'[d].files[i] = f /\ entry'[e].files[j] = f
    BY <1>1, <1>2, <1>5
  <2>2. QED
    BY <2>1 DEF Twice
<1>6. QED
  BY <1>4, <1>5

(* What prepareEntry makes of a file of its list.                          *)
LEMMA PreparedFile ==
  ASSUME Types, CallHasFile, NEW e \in Entries, NEW fs \in EntryFiles, PrepareEntry(e, fs), NEW f \in Range(fs)
  PROVE  LET r == Len(request) + 1
         IN /\ f \in Files \ StoreFiles /\ fs # <<>> /\ PlaceOf(fs, f) \in 1..Len(fs)
            /\ file'[f] = SetRequestData(file[f], r, PlaceOf(fs, f))
            /\ file'[f].request = r /\ file'[f].index = PlaceOf(fs, f) /\ file'[f].key = <<r, PlaceOf(fs, f)>>
            /\ file'[f].state = "open" /\ file'[f].total = file[f].total
            /\ Sent(file[f])' = NewSent(FileSize[f])
<1> DEFINE r == Len(request) + 1
           i == PlaceOf(fs, f)
<1>1. fs \in Seq(Files \ StoreFiles) /\ fs \in Seq(Files) /\ Len(request) \in Nat
      /\ \A h \in Range(fs) : file[h].state = "open"
  BY PrepareEntryIs, ZenonT(60)
<1>2. /\ f \in Files \ StoreFiles /\ fs # <<>> /\ file[f].state = "open"
  BY <1>1, ElementOfSeq DEF Range
<1>3. i \in 1..Len(fs) /\ fs[i] = f /\ i \in Nat /\ r \in Nat /\ file[f] \in FileType
  BY <1>1, <1>2, PlaceFact, LenProperties DEF Types
<1>4. file'[f] = SetRequestData(file[f], r, i)
  BY <1>2, PrepareEntryFile
<1>5. request'[r][i] = NewSent(FileSize[f])
  BY <1>2, <1>3, PrepareEntryRequest
<1>6. i = PlaceOf(fs, f) /\ r = Len(request) + 1
  OBVIOUS
<1> HIDE DEF r, i
<1>7. /\ file'[f].request = r /\ file'[f].index = i /\ file'[f].key = <<r, i>>
      /\ file'[f].state = "open" /\ file'[f].total = file[f].total
  BY <1>2, <1>3, <1>4 DEF SetRequestData, FileType
<1>8. QED
  BY <1>2, <1>3, <1>4, <1>5, <1>6, <1>7 DEF Sent

LEMMA PrepareEntryPlaces ==
  ASSUME Types, CallHasFile, PlacesInv, ListsInv, NEW e \in Entries, NEW fs \in EntryFiles, PrepareEntry(e, fs)
  PROVE  PlacesInv' /\ ListsInv'
<1> DEFINE r == Len(request) + 1
<1>0. r = Len(request) + 1 /\ r # None /\ r \notin 1..Len(request) /\ r \in Nat
  BY Constants, LenProperties DEF Types
<1>1. /\ entry[e].state = "none" /\ fs \in Seq(Files) /\ entry'[e] = [state |-> "open", files |-> fs]
      /\ \A d \in Entries \ {e} : entry'[d] = entry[d]
      /\ \A f \in Files : f \notin Range(fs) => file'[f] = file[f]
      /\ \A a \in 1..Len(request) : request'[a] = request[a]
  BY PrepareEntryIs, ZenonT(60)
<1>2. \A f \in Range(fs) : /\ f \in Files \ StoreFiles /\ file'[f].request = r /\ file'[f].index = PlaceOf(fs, f)
                           /\ file'[f].key = <<r, PlaceOf(fs, f)>> /\ file'[f].state = "open"
                           /\ Sent(file[f])' = NewSent(FileSize[f])
  BY PreparedFile
<1>3. fs # <<>> => Len(request'[r]) = Len(fs)
  BY PrepareEntryRequest
<1> HIDE DEF r
<1>4. \A f \in Files : f \notin Range(fs) /\ file[f].request # None =>
        file[f].request # r /\ request'[file[f].request] = request[file[f].request]
  BY <1>0, <1>1 DEF CallHasFile
<1>5. PlacesInv'
  <2>1. ASSUME NEW f \in Files, NEW g \in Files, f # g, file'[f].request # None, file'[f].request = file'[g].request
        PROVE  file'[f].index # file'[g].index /\ f \notin StoreFiles
    <3>1. CASE f \in Range(fs) /\ g \in Range(fs)
      BY <1>1, <1>2, <2>1, <3>1, PlaceApart
    <3>2. CASE f \notin Range(fs) /\ g \notin Range(fs)
      BY <1>1, <2>1, <3>2 DEF PlacesInv
    <3>3. CASE f \in Range(fs) /\ g \notin Range(fs)
      BY <1>0, <1>1, <1>2, <1>4, <2>1, <3>3
    <3>4. CASE f \notin Range(fs) /\ g \in Range(fs)
      BY <1>0, <1>1, <1>2, <1>4, <2>1, <3>4
    <3>5. QED
      BY <3>1, <3>2, <3>3, <3>4
  <2>2. ASSUME NEW h \in Files, file'[h].request # None
        PROVE  /\ file'[h].state # "none" /\ file'[h].key = <<file'[h].request, file'[h].index>>
               /\ Sent(file[h])'.size = DeclaredSize(FileSize[h])
               /\ Sent(file[h])'.chunks = NumberOfChunks(FileSize[h])
               /\ Len(Sent(file[h])'.data) <= Sent(file[h])'.size
    <3>1. CASE h \in Range(fs)
      <4>1. /\ NewSent(FileSize[h]).size = DeclaredSize(FileSize[h]) /\ NewSent(FileSize[h]).chunks = NumberOfChunks(FileSize[h])
            /\ Len(NewSent(FileSize[h]).data) = 0 /\ DeclaredSize(FileSize[h]) \in Nat
        BY DeclaredSizeNat, Constants DEF NewSent
      <4>2. QED
        BY <1>2, <3>1, <4>1
    <3>2. CASE h \notin Range(fs)
      <4>1. file'[h] = file[h] /\ file[h].request # None
        BY <1>1, <2>2, <3>2
      <4>2. Sent(file[h])' = Sent(file[h])
        BY <1>4, <3>2, <4>1 DEF Sent
      <4>3. QED
        BY <4>1, <4>2 DEF PlacesInv
    <3>3. QED
      BY <3>1, <3>2
  <2>3. ASSUME NEW h \in StoreFiles, file'[h].state # "none"
        PROVE  file'[h].request # None /\ Len(request'[file'[h].request]) = 1 /\ file'[h].index = 1
    <3>1. h \in Files /\ h \notin Range(fs)
      BY <1>2, Constants
    <3>2. file'[h] = file[h]
      BY <1>1, <3>1
    <3>3. file[h].request # None /\ Len(request[file[h].request]) = 1 /\ file[h].index = 1
      BY <2>3, <3>2 DEF PlacesInv
    <3>4. QED
      BY <1>4, <3>1, <3>2, <3>3
  <2>4. QED
    BY <2>1, <2>2, <2>3 DEF PlacesInv
<1>6. ASSUME NEW d \in Entries \ {e}, NEW i \in DOMAIN entry[d].files
      PROVE  /\ file'[entry[d].files[i]].request # None
             /\ ~Twice(entry', entry[d].files[i]) => InList(d, i)'
  <2> DEFINE h == entry[d].files[i]
  <2>1. h \in Files /\ file[h].request # None /\ (~Twice(entry, h) => InList(d, i))
    BY ListFact DEF ListsInv
  <2>2. file'[h].request # None
    BY <1>0, <1>1, <1>2, <2>1
  <2>3. ASSUME NEW j \in DOMAIN entry[d].files, ~Twice(entry', entry[d].files[j])
        PROVE  /\ entry[d].files[j] \in Files \ Range(fs) /\ file'[entry[d].files[j]] = file[entry[d].files[j]]
               /\ ~Twice(entry, entry[d].files[j])
    <3>1. entry[d].files[j] \in Files
      BY ListFact
    <3>2. entry[d].files[j] \notin Range(fs)
      <4>1. DOMAIN fs = 1..Len(fs)
        BY <1>1, LenProperties, SMTT(30)
      <4>2. QED
        BY <2>3, <4>1, TwiceAdded DEF Range
    <3>3. QED
      BY <1>1, <2>3, <3>1, <3>2, TwiceAdded
  <2>4. ASSUME ~Twice(entry', h)
        PROVE  InList(d, i)'
    <3>1. h \in Files \ Range(fs) /\ file'[h] = file[h] /\ InList(d, i) /\ entry'[d] = entry[d]
      BY <1>1, <2>1, <2>3, <2>4
    <3>2. request'[file[h].request] = request[file[h].request] /\ file[h].request # r
      BY <1>4, <2>1, <3>1
    <3>3. \A g \in Files : file'[g].request = file[h].request => file[g].request = file[h].request
      BY <1>1, <1>2, <3>2
    <3>4. \A j \in DOMAIN entry[d].files :
            ~Twice(entry', entry[d].files[j]) => file'[entry[d].files[j]].request = file[h].request
      BY <2>3, <3>1 DEF InList
    <3>5. QED
      BY <3>1, <3>2, <3>3, <3>4, ZenonT(60) DEF InList
  <2>5. QED
    BY <2>2, <2>4
<1>7. ASSUME NEW i \in 1..Len(fs)
      PROVE  /\ file'[fs[i]].request # None
             /\ ~Twice(entry', fs[i]) => InList(e, i)'
  <2>1. DOMAIN fs = 1..Len(fs) /\ \A j \in 1..Len(fs) : fs[j] \in Range(fs)
    BY <1>1, LenProperties DEF Range
  <2>2. \A j \in 1..Len(fs) : file'[fs[j]].request = r
    BY <1>2, <2>1
  <2>3. ASSUME ~Twice(entry', fs[i]) PROVE InList(e, i)'
    <3>1. file'[fs[i]].index = i
      BY <1>2, <2>1, <2>3, PlaceOnce
    <3>2. Len(request'[r]) = Len(fs)
      BY <1>2, <1>3, <2>1, PreparedFile
    <3>3. \A g \in Files : file'[g].request = r => g \in Range(fs)
      BY <1>0, <1>1, <1>4
    <3>4. entry'[e].files = fs
      BY <1>1
    <3>5. QED
      BY <2>1, <2>2, <3>1, <3>2, <3>3, <3>4 DEF InList
  <2>4. QED
    BY <1>0, <2>2, <2>3
<1>8. ListsInv'
  <2>1. entry'[e].state = "open" /\ entry'[e].files = fs /\ DOMAIN fs = 1..Len(fs)
    BY <1>1, LenProperties
  <2>2. \A d \in Entries : entry'[d].state = "none" => entry'[d].files = <<>>
    BY <1>1, <2>1 DEF ListsInv
  <2>3. ASSUME NEW d \in Entries, NEW i \in DOMAIN entry'[d].files
        PROVE  /\ file'[entry'[d].files[i]].request # None
               /\ ~Twice(entry', entry'[d].files[i]) => InList(d, i)'
    BY <1>1, <1>6, <1>7, <2>1
  <2>4. QED
    BY <2>2, <2>3 DEF ListsInv
<1>9. QED
  BY <1>5, <1>8

LEMMA PlacesNext ==
  ASSUME Types, CallHasFile, PlacesInv, ListsInv, [Next]_vars
  PROVE  PlacesInv' /\ ListsInv'
BY StepSame, PlacesSame, ListsSame, CreateFilePlaces, CreateFileHandlePlaces, PrepareEntryPlaces, Zenon

LEMMA PlacesInit == ASSUME Init PROVE PlacesInv /\ ListsInv
<1>1. \A f \in Files : file[f].request = None /\ file[f].state = "none"
  BY NewFileFact DEF Init, NewFile
<1>2. \A e \in Entries : entry[e].files = <<>>
  BY DEF Init
<1>3. QED
  BY <1>1, <1>2, Constants DEF PlacesInv, ListsInv

-----------------------------------------------------------------------------
(* Files that are complete, and files that are committed.                  *)

(* What every step does to a file: bytes are added to open files only, and *)
(* a file that is gone stays gone.                                         *)
Grows ==
  \A f \in Files :
    /\ file'[f].total <= FileSize[f]
    /\ file[f].state # "none" => /\ file'[f].state # "none" /\ file[f].total <= file'[f].total
    /\ file[f].state = "gone" => file'[f].state = "gone" /\ file'[f].total = file[f].total

TotalInv == \A f \in Files : file[f].total <= FileSize[f]

LEMMA TotalNat == ASSUME Types, NEW f \in Files PROVE file[f].total \in Nat /\ FileSize[f] \in Nat
BY Constants DEF Types, FileType

LEMMA SameGrows ==
  ASSUME Types, TotalInv,
         \A f \in Files : /\ file'[f].total = file[f].total
                          /\ file[f].state # "none" => file'[f].state # "none"
                          /\ file[f].state = "gone" => file'[f].state = "gone"
  PROVE  Grows
BY TotalNat DEF Grows, TotalInv

LEMMA RemovedGrows == ASSUME Types, TotalInv, NEW fs, RemoveFileHandles(fs) PROVE Grows
<1>1. \A f \in Files : /\ file'[f].total = file[f].total
                       /\ file[f].state # "none" => file'[f].state # "none"
                       /\ file[f].state = "gone" => file'[f].state = "gone"
  BY RemoveFact, GoneFact DEF Types
<1>2. QED
  BY <1>1, SameGrows

LEMMA NewGrows ==
  ASSUME Types, TotalInv, NEW f \in Files, file[f].state = "none", file'[f].total = 0,
         \A h \in Files \ {f} : file'[h] = file[h]
  PROVE  Grows
BY TotalNat DEF Grows, TotalInv

LEMMA GrowsNext == ASSUME Types, CallHasFile, TotalInv, [Next]_vars PROVE Grows
<1>1. CASE Work
  <2>1. FileStep /\ SentStep
    BY <1>1, WorkEffect DEF Effect
  <2>2. \A f \in Files : Kept(file[f], file'[f])
    BY <2>1, ShapeKept
  <2>3. \A f \in Files : file'[f].total = file[f].total /\ file'[f].state = file[f].state
    BY <2>2, Zenon DEF Kept
  <2>4. QED
    BY <2>3, SameGrows
<1>2. CASE ReleaseHandles
  BY <1>2, RemovedGrows DEF ReleaseHandles
<1>3. ASSUME NEW e \in Entries, SendEntry(e) PROVE Grows
  <2>1. CASE file' = file
    BY <2>1, SameGrows
  <2>2. CASE RemoveFileHandles(entry[e].files)
    BY <2>2, RemovedGrows
  <2>3. QED
    BY <1>3, <2>1, <2>2, SendEntryCases
<1>4. ASSUME NEW f \in Files, NEW len \in Nat, Write(f, len) PROVE Grows
  <2>1. CASE file' = file
    BY <2>1, SameGrows
  <2>2. CASE file[f].total + len <= FileSize[f] /\ file' = [file EXCEPT ![f] = Buffered(file[f], f, len)]
    <3>1. /\ Buffered(file[f], f, len).total = file[f].total + len
          /\ Buffered(file[f], f, len).state = file[f].state
      BY BufferedFact DEF Types
    <3>2. file[f].state = "open"
      BY <1>4, WriteCases
    <3>3. \A h \in Files \ {f} : file'[h] = file[h]
      BY <2>2 DEF Types
    <3>4. file'[f].total = file[f].total + len /\ file'[f].state = "open"
      BY <2>2, <3>1, <3>2 DEF Types
    <3>5. QED
      BY <2>2, <3>2, <3>3, <3>4, TotalNat DEF Grows, TotalInv
  <2>3. QED
    BY <1>4, <2>1, <2>2, WriteCases
<1>5. ASSUME NEW f \in Files, CloseFile(f) PROVE Grows
  <2> DEFINE h == [file[f] EXCEPT !.state = "gone", !.began = storeKey]
  <2>1. file' = [file EXCEPT ![f] = h]
    BY <1>5 DEF CloseFile, Types
  <2>2. h.state = "gone" /\ h.total = file[f].total
    BY DEF Types, FileType
  <2> HIDE DEF h
  <2>3. QED
    BY <2>1, <2>2, SameGrows DEF Types
<1>6. CASE RotateKey \/ UNCHANGED vars \/ \E e \in Entries, lost \in Losses : SendText(e, lost)
  <2>1. file' = file
    BY <1>6 DEF RotateKey, vars, SendText
  <2>2. QED
    BY <2>1, SameGrows
<1>7. ASSUME NEW f \in Files, NEW update \in BOOLEAN, CreateFile(f, update) PROVE Grows
  <2>1. /\ file[f].state = "none" /\ \A h \in Files \ {f} : file'[h] = file[h]
    BY <1>7, CreateFileIs
  <2>2. file'[f].total = 0
    BY <1>7 DEF CreateFile, NewFile, Types
  <2>3. QED
    BY <2>1, <2>2, NewGrows
<1>8. ASSUME NEW f \in Files, CreateFileHandle(f) PROVE Grows
  <2>1. /\ file[f].state = "none" /\ \A h \in Files \ {f} : file'[h] = file[h]
    BY <1>8 DEF CreateFileHandle, Types
  <2>2. file'[f].total = 0
    BY <1>8 DEF CreateFileHandle, NewFile, Types
  <2>3. QED
    BY <2>1, <2>2, NewGrows
<1>9. ASSUME NEW e \in Entries, NEW fs \in EntryFiles, PrepareEntry(e, fs) PROVE Grows
  <2>1. \A f \in Range(fs) : /\ f \in Files /\ file'[f].total = file[f].total /\ file'[f].state = "open"
                             /\ file[f].state = "open"
    <3>1. \A f \in Range(fs) : file[f].state = "open"
      BY <1>9 DEF PrepareEntry
    <3>2. QED
      BY <1>9, <3>1, PreparedFile
  <2>2. \A f \in Files : f \notin Range(fs) => file'[f] = file[f]
    BY <1>9, PrepareEntryIs, ZenonT(60)
  <2>3. QED
    BY <2>1, <2>2, SameGrows
<1>10. QED
  BY <1>1, <1>2, <1>3, <1>4, <1>5, <1>6, <1>7, <1>8, <1>9, BeginCases, StepIs, Zenon DEF Next

(* Only the last step of finalize commits a file, and only that file.      *)
LEMMA CommitStep ==
  ASSUME Types, CallHasFile, PlacesInv, ListsInv, [Next]_vars, NEW f \in Files, file'[f].request # None,
         Sent(file[f])'.committed
  PROVE  /\ file'[f].request = file[f].request /\ file'[f].index = file[f].index
         /\ Sent(file[f]).committed \/ (call.f = f /\ call.pc = "last")
<1>0. \A size : NewSent(size).committed = FALSE
  BY DEF NewSent
<1>1. CASE Work
  <2>1. FileStep /\ SentStep /\ call.f \in Files
    BY <1>1, WorkEffect DEF Effect, FileStep
  <2>2. Kept(file[f], file'[f])
    BY <2>1, ShapeKept
  <2>3. file'[f].request = file[f].request /\ file'[f].index = file[f].index
    BY <2>2, Zenon DEF Kept
  <2>4. file[f].request \in 1..Len(request) /\ file[f].index \in 1..Len(request[file[f].request])
    BY <2>3 DEF CallHasFile
  <2>5. Sent(file[f])' = request'[file[f].request][file[f].index]
    BY <2>3 DEF Sent
  <2>6. \/ request'[file[f].request][file[f].index] = request[file[f].request][file[f].index]
        \/ /\ file[f].request = file[call.f].request /\ file[f].index = file[call.f].index
           /\ request'[file[f].request][file[f].index].committed => call.pc = "last"
    BY <2>1, <2>4, ShapeKept
  <2>7. file[f].request = file[call.f].request /\ file[f].index = file[call.f].index => f = call.f
    BY <2>1, <2>3 DEF PlacesInv
  <2>8. QED
    BY <2>3, <2>5, <2>6, <2>7 DEF Sent
<1>2. ASSUME UNCHANGED request, Same
      PROVE  /\ file'[f].request = file[f].request /\ file'[f].index = file[f].index
             /\ Sent(file[f]).committed
  <2>1. file'[f].request = file[f].request /\ file'[f].index = file[f].index
    BY <1>2 DEF Same
  <2>2. QED
    BY <1>2, <2>1 DEF Sent
<1>3. CASE Same /\ ~Work
  <2>1. request' = request
    <3>1. CASE Begin
      <4>1. ASSUME NEW h \in Files, NEW update \in BOOLEAN, CreateFile(h, update) PROVE FALSE
        <5>1. Len(request') = Len(request) + 1 /\ Len(request) + 1 \in Nat
          BY <4>1, CreateFileIs
        <5>2. Len(request) \in Nat
          BY LenProperties DEF Types
        <5>3. QED
          BY <1>3, <5>1, <5>2 DEF Same
      <4>2. ASSUME NEW e \in Entries, NEW fs \in EntryFiles, PrepareEntry(e, fs) PROVE request' = request
        <5>1. CASE fs = <<>>
          BY <4>2, <5>1 DEF PrepareEntry
        <5>2. CASE fs # <<>>
          BY <1>3, <4>2, <5>2, PrepareEntryRequest, LenProperties DEF Same, Types
        <5>3. QED
          BY <5>1, <5>2
      <4>3. ASSUME NEW h \in Files, NEW len \in Nat, Write(h, len) PROVE request' = request
        BY <4>3, WriteCases
      <4>4. ASSUME NEW e \in Entries, SendEntry(e) PROVE request' = request
        BY <4>4, SendEntryCases
      <4>5. ASSUME NEW h \in Files, CloseFile(h) \/ CreateFileHandle(h) PROVE request' = request
        BY <4>5 DEF CloseFile, CreateFileHandle
      <4>6. ASSUME NEW e \in Entries, NEW lost \in Losses, SendText(e, lost) PROVE request' = request
        BY <4>6 DEF SendText
      <4>7. QED
        BY <3>1, <4>1, <4>2, <4>3, <4>4, <4>5, <4>6, BeginCases, Zenon
    <3>2. QED
      BY <1>3, <3>1, StepIs DEF Next, ReleaseHandles, RotateKey, vars
  <2>2. QED
    BY <1>2, <1>3, <2>1
<1>4. ASSUME NEW h \in Files, NEW update \in BOOLEAN, CreateFile(h, update)
      PROVE  /\ file'[f].request = file[f].request /\ file'[f].index = file[f].index
             /\ Sent(file[f]).committed
  <2> DEFINE r == Len(request) + 1
  <2>1. /\ \A g \in Files \ {h} : file'[g] = file[g]
        /\ \A a \in 1..Len(request) : request'[a] = request[a]
        /\ request'[r][1] = NewSent(FileSize[h])
    BY <1>4, CreateFileIs
  <2>2. file'[h].request = r /\ file'[h].index = 1
    <3>1. file'[h] = [NewFile EXCEPT !.request = r, !.index = 1, !.key = <<r, 1>>, !.update = update]
      BY <1>4, CreateFileIs
    <3>2. QED
      BY <3>1 DEF NewFile
  <2>3. f # h
    BY <1>0, <2>1, <2>2 DEF Sent
  <2>4. file'[f] = file[f] /\ file[f].request \in 1..Len(request)
    BY <2>1, <2>3 DEF CallHasFile
  <2>5. QED
    BY <2>1, <2>4 DEF Sent
<1>5. ASSUME NEW h \in Files, CreateFileHandle(h)
      PROVE  /\ file'[f].request = file[f].request /\ file'[f].index = file[f].index
             /\ Sent(file[f]).committed
  <2>1. request' = request /\ (f # h => file'[f] = file[f]) /\ file'[h] = NewFile
    BY <1>5 DEF CreateFileHandle, Types
  <2>2. f # h
    BY <2>1, NewFileFact
  <2>3. QED
    BY <2>1, <2>2 DEF Sent
<1>6. ASSUME NEW e \in Entries, NEW fs \in EntryFiles, PrepareEntry(e, fs)
      PROVE  /\ file'[f].request = file[f].request /\ file'[f].index = file[f].index
             /\ Sent(file[f]).committed
  <2>1. f \notin Range(fs)
    BY <1>0, <1>6, PreparedFile
  <2>2. file'[f] = file[f]
    <3>1. \A g \in Files : g \notin Range(fs) => file'[g] = file[g]
      BY <1>6, PrepareEntryIs, ZenonT(60)
    <3>2. QED
      BY <2>1, <3>1
  <2>3. file[f].request \in 1..Len(request)
    BY <2>2 DEF CallHasFile
  <2>4. request'[file[f].request] = request[file[f].request]
    BY <1>6, <2>3, PrepareEntryIs, Zenon
  <2>5. QED
    BY <2>2, <2>4 DEF Sent
<1>7. QED
  BY <1>1, <1>3, <1>4, <1>5, <1>6, StepSame, Zenon

(* The lists of the entries, step by step.                                 *)
LEMMA ListStep ==
  ASSUME Types, CallHasFile, PlacesInv, ListsInv, [Next]_vars
  PROVE  /\ \A e \in Entries : \/ entry'[e].files = entry[e].files
                               \/ entry[e].state = "none" /\ \E fs \in EntryFiles : PrepareEntry(e, fs)
         /\ \A f : Twice(entry, f) => Twice(entry', f)
<1>1. CASE Same
  BY <1>1, TwiceSame DEF Same
<1>2. CASE \E f \in Files : CreateFileHandle(f) \/ \E update \in BOOLEAN : CreateFile(f, update)
  <2>1. entry' = entry
    BY <1>2 DEF CreateFileHandle, CreateFile
  <2>2. QED
    BY <2>1
<1>3. ASSUME NEW e \in Entries, NEW fs \in EntryFiles, PrepareEntry(e, fs)
      PROVE  /\ \A d \in Entries : \/ entry'[d].files = entry[d].files
                                   \/ entry[d].state = "none" /\ \E gs \in EntryFiles : PrepareEntry(d, gs)
             /\ \A f : Twice(entry, f) => Twice(entry', f)
  <2>1. entry[e].state = "none" /\ \A d \in Entries \ {e} : entry'[d] = entry[d]
    BY <1>3, PrepareEntryIs, Zenon
  <2>2. \A f : Twice(entry, f) => Twice(entry', f)
    BY <1>3, TwiceAdded
  <2>3. QED
    BY <1>3, <2>1, <2>2
<1>4. QED
  BY <1>1, <1>2, <1>3, StepSame

(* A sendEntry that has begun found all of its files complete.             *)
SendingInv ==
  call.op = "send" => \A f \in Range(entry[call.e].files) : file[f].total = FileSize[f]

(* A file is committed only when all of the files of its entry are         *)
(* complete; an entry is refused as incomplete when one of its files can   *)
(* be complete no more.                                                    *)
CommitInv ==
  \A e \in Entries : \A f \in Range(entry[e].files) :
    ~Twice(entry, f) /\ Sent(file[f]).committed => AllReady(entry[e].files)

DifferentInv ==
  \A e \in Entries : outcome[e] = "different" =>
    /\ entry[e].state = "gone"
    /\ \E f \in Range(entry[e].files) : file[f].state = "gone" /\ file[f].total # FileSize[f]

(* Files that are complete stay complete.                                  *)
LEMMA ReadyStays ==
  ASSUME Types, Types', CallHasFile, PlacesInv, ListsInv, TotalInv, Grows, NEW e \in Entries, AllReady(entry[e].files)
  PROVE  \A f \in Range(entry[e].files) : file'[f].total = FileSize[f]
<1> SUFFICES ASSUME NEW f \in Range(entry[e].files) PROVE file'[f].total = FileSize[f]
  OBVIOUS
<1>1. f \in Files
  BY ListFact
<1>2. PICK i \in DOMAIN entry[e].files : entry[e].files[i] = f
  BY DEF Range
<1>3. file[f].request # None
  BY <1>2 DEF ListsInv
<1>4. file[f].state # "none" /\ file[f].total = FileSize[f]
  BY <1>1, <1>3 DEF PlacesInv, AllReady
<1>5. file'[f].total \in Nat /\ FileSize[f] \in Nat
  BY <1>1, Constants DEF Types, FileType
<1>6. QED
  BY <1>1, <1>4, <1>5 DEF Grows

LEMMA CommitNext ==
  ASSUME Types, Types', CallHasFile, PlacesInv, ListsInv, TotalInv, SendingInv, CommitInv, [Next]_vars
  PROVE  CommitInv'
<1> SUFFICES ASSUME NEW e \in Entries, NEW f \in Range(entry'[e].files), ~Twice(entry', f), Sent(file[f])'.committed
             PROVE  \A g \in Range(entry'[e].files) : file'[g].total = FileSize[g]
  BY DEF CommitInv, AllReady
<1>0. Grows
  BY GrowsNext
<1>1. f \in Files
  <2>1. entry'[e].files \in Seq(Files \ StoreFiles)
    BY DEF Types, EntryType
  <2>2. QED
    BY <2>1, ElementOfSeq DEF Range
<1>2. ASSUME NEW fs \in EntryFiles, PrepareEntry(e, fs) PROVE FALSE
  <2>1. entry'[e] = [state |-> "open", files |-> fs]
    BY <1>2, PrepareEntryIs, Zenon
  <2>2. f \in Range(fs)
    BY <2>1
  <2>3. Sent(file[f])' = NewSent(FileSize[f])
    BY <1>2, <2>2, PreparedFile
  <2>4. QED
    BY <2>3 DEF NewSent
<1>3. entry'[e].files = entry[e].files /\ ~Twice(entry, f)
  BY <1>2, ListStep
<1>4. PICK i \in DOMAIN entry[e].files : entry[e].files[i] = f
  BY <1>3 DEF Range
<1>5. file[f].request # None /\ f \notin StoreFiles
  BY <1>4, ListFact DEF ListsInv
<1>6. file'[f].request # None
  <2>1. (ListsInv)'
    BY PlacesNext
  <2>2. QED
    BY <1>3, <1>4, <2>1 DEF ListsInv
<1>7. Sent(file[f]).committed \/ (call.f = f /\ call.pc = "last")
  BY <1>1, <1>6, CommitStep
<1>8. AllReady(entry[e].files)
  <2>1. CASE Sent(file[f]).committed
    BY <1>3, <1>4, <2>1 DEF CommitInv, Range
  <2>2. CASE call.f = f /\ call.pc = "last"
    <3>1. call # Idle
      BY <2>2, IdleFacts
    <3>2. /\ call.op = "send" /\ call.e \in Entries /\ call.at \in 1..Len(entry[call.e].files)
          /\ call.f = entry[call.e].files[call.at]
      BY <1>5, <2>2, <3>1 DEF CallHasFile, CallShape
    <3>3. call.at \in DOMAIN entry[call.e].files
      BY <3>2, ListFact
    <3>4. call.e = e
      BY <1>3, <1>4, <2>2, <3>2, <3>3 DEF Twice
    <3>5. QED
      BY <3>2, <3>4 DEF SendingInv, AllReady
  <2>3. QED
    BY <1>7, <2>1, <2>2
<1>9. QED
  BY <1>0, <1>3, <1>8, ReadyStays

LEMMA SendingNext ==
  ASSUME Types, Types', CallHasFile, PlacesInv, ListsInv, TotalInv, SendingInv, [Next]_vars
  PROVE  SendingInv'
<1>0. Grows /\ Idle.op = "none"
  BY GrowsNext DEF Idle
<1>1. ASSUME call.op = "send", call'.e = call.e, call # Idle, entry'[call.e].files = entry[call.e].files
      PROVE  SendingInv'
  <2>1. call.e \in Entries
    BY <1>1 DEF CallHasFile, CallShape, Idle
  <2>2. AllReady(entry[call.e].files)
    BY <1>1 DEF SendingInv, AllReady
  <2>3. QED
    BY <1>0, <1>1, <2>1, <2>2, ReadyStays DEF SendingInv
<1>2. CASE Work
  <2>1. Result /\ entry' = entry
    BY <1>2, WorkEffect, WorkResult DEF Effect
  <2>2. CASE call' = Idle
    BY <1>0, <2>2 DEF SendingInv
  <2>3. CASE GoesOn /\ call' # Idle
    <3>1. call'.op = call.op /\ call'.e = call.e
      BY <2>3 DEF GoesOn
    <3>2. CASE call.op = "send"
      BY <1>0, <1>1, <2>1, <3>1, <3>2
    <3>3. CASE call.op # "send"
      BY <3>1, <3>3 DEF SendingInv
    <3>4. QED
      BY <3>2, <3>3
  <2>4. QED
    BY <2>1, <2>2, <2>3 DEF Result, Fails
<1>3. CASE ReleaseHandles
  <2>1. call.pc = "release" /\ (call' = Idle \/ call' = [call EXCEPT !.pc = "send"])
        /\ entry' = [entry EXCEPT ![call.e].state = "gone"]
    BY <1>3 DEF ReleaseHandles
  <2>2. call # Idle /\ call \in CallType
    BY <2>1, IdleFacts DEF Types
  <2>3. call.op = "send" /\ call.e \in Entries
    BY <2>1, <2>2 DEF CallHasFile, CallShape
  <2>4. CASE call' = Idle
    BY <1>0, <2>4 DEF SendingInv
  <2>5. CASE call' = [call EXCEPT !.pc = "send"]
    <3>1. call'.e = call.e
      BY <2>2, <2>5 DEF CallType
    <3>2. entry'[call.e].files = entry[call.e].files
      BY <2>1, <2>3, EntryGone
    <3>3. QED
      BY <1>1, <2>2, <2>3, <3>1, <3>2
  <2>6. QED
    BY <2>1, <2>4, <2>5
<1>4. ASSUME NEW e \in Entries, SendEntry(e) PROVE SendingInv'
  <2>1. CASE call' = call
    <3>1. call' = Idle
      BY <1>4, <2>1, SendEntryCases
    <3>2. QED
      BY <1>0, <3>1 DEF SendingInv
  <2>2. CASE /\ AllReady(entry[e].files) /\ call' = Started("send", entry[e].files[1], e, "finalize")
             /\ UNCHANGED <<file, entry>>
    <3>1. call'.e = e
      BY <2>2 DEF Started, Idle
    <3>2. QED
      BY <2>2, <3>1 DEF SendingInv, AllReady
  <2>3. QED
    BY <1>4, <2>1, <2>2, SendEntryCases
<1>5. ASSUME call'.op # "send" PROVE SendingInv'
  BY <1>5 DEF SendingInv
<1>6. ASSUME NEW f \in Files, NEW len \in Nat, Write(f, len) PROVE call'.op # "send"
  <2>1. call' = Idle \/ call' = Started("write", f, None, "write")
    BY <1>6, WriteCases
  <2>2. Started("write", f, None, "write").op = "write"
    BY DEF Started, Idle
  <2>3. QED
    BY <1>0, <2>1, <2>2, Zenon
<1>7. ASSUME NEW f \in Files, CloseFile(f) PROVE call'.op # "send"
  BY <1>7 DEF CloseFile, Started, Idle
<1>8. ASSUME \/ \E f \in Files, update \in BOOLEAN : CreateFile(f, update)
             \/ \E f \in Files : CreateFileHandle(f)
             \/ \E e \in Entries, fs \in EntryFiles : PrepareEntry(e, fs)
             \/ \E e \in Entries, lost \in Losses : SendText(e, lost)
      PROVE  call'.op # "send"
  <2>1. call' = Idle
    BY <1>8 DEF CreateFile, CreateFileHandle, PrepareEntry, SendText
  <2>2. QED
    BY <1>0, <2>1
<1>9. CASE RotateKey \/ UNCHANGED vars
  BY <1>9 DEF RotateKey, vars, SendingInv
<1>10. QED
  BY <1>2, <1>3, <1>4, <1>5, <1>6, <1>7, <1>8, <1>9, BeginCases, StepIs, Zenon DEF Next

LEMMA EntryStays ==
  ASSUME Types, CallHasFile, [Next]_vars, NEW e \in Entries, entry[e].state = "gone"
  PROVE  entry'[e].state = "gone"
<1>1. CASE Work
  BY <1>1, WorkEffect DEF Effect
<1>2. CASE ReleaseHandles
  <2>1. call.e \in Entries
    BY <1>2, IdleFacts DEF ReleaseHandles, CallHasFile, CallShape
  <2>2. QED
    BY <1>2, <2>1, EntryGone DEF ReleaseHandles
<1>3. ASSUME NEW d \in Entries, SendEntry(d) PROVE entry'[e].state = "gone"
  <2>1. entry' = entry \/ entry' = [entry EXCEPT ![d].state = "gone"]
    BY <1>3, SendEntryCases
  <2>2. QED
    BY <2>1, EntryGone
<1>4. ASSUME NEW d \in Entries, NEW fs \in EntryFiles, PrepareEntry(d, fs) PROVE entry'[e].state = "gone"
  <2>1. entry[d].state = "none" /\ \A c \in Entries \ {d} : entry'[c] = entry[c]
    BY <1>4, PrepareEntryIs, Zenon
  <2>2. QED
    BY <2>1
<1>5. ASSUME \/ \E f \in Files, update \in BOOLEAN : CreateFile(f, update)
             \/ \E f \in Files : CreateFileHandle(f) \/ CloseFile(f)
             \/ \E f \in Files, len \in Nat : Write(f, len)
             \/ \E d \in Entries, lost \in Losses : SendText(d, lost)
             \/ RotateKey \/ UNCHANGED vars
      PROVE  entry'[e].state = "gone"
  <2>1. entry' = entry
    BY <1>5 DEF CreateFile, CreateFileHandle, CloseFile, Write, SendText, RotateKey, vars
  <2>2. QED
    BY <2>1, SMTT(30)
<1>6. QED
  BY <1>1, <1>2, <1>3, <1>4, <1>5, BeginCases, StepIs, Zenon DEF Next

(* When nothing is missing, all of the handles of a list are removed.      *)
LEMMA AllRemoved == ASSUME NEW fs, Missing(fs) = {} PROVE Removed(fs) = Range(fs)
BY DEF Removed, Range

(* The only step that finds an entry incomplete is the first of sendEntry. *)
LEMMA DifferentStep ==
  ASSUME Types, CallHasFile, SendingInv, [Next]_vars, NEW e \in Entries,
         outcome'[e] = "different", outcome[e] # "different"
  PROVE  /\ entry' = [entry EXCEPT ![e].state = "gone"] /\ RemoveFileHandles(entry[e].files)
         /\ Missing(entry[e].files) = {} /\ ~AllReady(entry[e].files)
<1> DEFINE Goal == /\ entry' = [entry EXCEPT ![e].state = "gone"] /\ RemoveFileHandles(entry[e].files)
                   /\ Missing(entry[e].files) = {} /\ ~AllReady(entry[e].files)
<1>0. e \in Files \cup Entries /\ e \notin Files
  BY Constants
<1>1. ASSUME Work PROVE FALSE
  <2>1. Result /\ FileStep
    BY <1>1, WorkEffect, WorkResult DEF Effect
  <2>2. PICK error \in Outcomes : Fails(error)
    BY <2>1 DEF Result, GoesOn
  <2>3. e = Caller /\ error = "different"
    BY <1>0, <2>2 DEF Fails, Types
  <2>4. file[call.f].total # FileSize[call.f]
    BY <2>2, <2>3 DEF Fails
  <2>5. call.f \in Files
    BY <2>1 DEF FileStep
  <2>6. call.op = "send"
    BY <1>0, <2>3, <2>5 DEF Caller
  <2>7. call # Idle
    BY <2>6, IdleFacts
  <2>8. call.e \in Entries /\ call.at \in 1..Len(entry[call.e].files) /\ call.f = entry[call.e].files[call.at]
    BY <2>6, <2>7 DEF CallHasFile, CallShape
  <2>9. call.f \in Range(entry[call.e].files)
    BY <2>8, ListFact DEF Range
  <2>10. QED
    BY <2>4, <2>6, <2>9 DEF SendingInv
<1>2. ASSUME ReleaseHandles PROVE FALSE
  <2>1. outcome' = outcome \/ outcome' = [outcome EXCEPT ![call.e] = "handle"]
    BY <1>2 DEF ReleaseHandles
  <2>2. QED
    BY <2>1 DEF Types
<1>3. ASSUME NEW d \in Entries, SendEntry(d) PROVE Goal
  <2>1. CASE outcome' = outcome
    BY <2>1
  <2>2. CASE /\ ~AllReady(entry[d].files)
             /\ entry' = [entry EXCEPT ![d].state = "gone"] /\ RemoveFileHandles(entry[d].files)
             /\ outcome' = [outcome EXCEPT ![d] =
                              IF Missing(entry[d].files) = {} THEN "different" ELSE "handle"]
    <3>1. d = e /\ Missing(entry[d].files) = {}
      BY <1>0, <2>2 DEF Types
    <3>2. QED
      BY <2>2, <3>1
  <2>3. QED
    BY <1>3, <2>1, <2>2, SendEntryCases
<1>4. ASSUME NEW f \in Files, NEW len \in Nat, Write(f, len) PROVE FALSE
  <2>1. outcome' = outcome \/ outcome' = [outcome EXCEPT ![f] = "bigger"]
    BY <1>4, WriteCases
  <2>2. QED
    BY <2>1 DEF Types
<1>5. ASSUME NEW d \in Entries, NEW lost \in Losses, SendText(d, lost) PROVE FALSE
  <2>1. outcome' = [outcome EXCEPT ![d] = IF lost = "no" THEN "stored" ELSE "lost"]
    BY <1>5 DEF SendText
  <2>2. QED
    BY <2>1 DEF Types
<1>6. ASSUME \/ \E f \in Files, update \in BOOLEAN : CreateFile(f, update)
             \/ \E f \in Files : CreateFileHandle(f) \/ CloseFile(f)
             \/ \E d \in Entries, fs \in EntryFiles : PrepareEntry(d, fs)
             \/ RotateKey \/ UNCHANGED vars
      PROVE  FALSE
  <2>1. outcome' = outcome
    BY <1>6 DEF CreateFile, CreateFileHandle, CloseFile, PrepareEntry, RotateKey, vars
  <2>2. QED
    BY <2>1
<1>7. Goal
  BY <1>1, <1>2, <1>3, <1>4, <1>5, <1>6, BeginCases, StepIs, Zenon DEF Next
<1>8. QED
  BY <1>7

LEMMA DifferentNext ==
  ASSUME Types, CallHasFile, PlacesInv, ListsInv, TotalInv, SendingInv, DifferentInv, [Next]_vars
  PROVE  DifferentInv'
<1> SUFFICES ASSUME NEW e \in Entries, outcome'[e] = "different"
             PROVE  /\ entry'[e].state = "gone"
                    /\ \E f \in Range(entry'[e].files) : file'[f].state = "gone" /\ file'[f].total # FileSize[f]
  BY DEF DifferentInv
<1>0. Grows
  BY GrowsNext
<1>1. CASE outcome[e] = "different"
  <2>1. entry[e].state = "gone" /\ entry'[e].state = "gone"
    BY <1>1, EntryStays DEF DifferentInv
  <2>2. entry'[e].files = entry[e].files
    BY <2>1, ListStep
  <2>3. PICK f \in Range(entry[e].files) : file[f].state = "gone" /\ file[f].total # FileSize[f]
    BY <1>1 DEF DifferentInv
  <2>4. f \in Files
    BY ListFact
  <2>5. file'[f].state = "gone" /\ file'[f].total = file[f].total
    BY <1>0, <2>3, <2>4 DEF Grows
  <2>6. QED
    BY <2>1, <2>2, <2>3, <2>5
<1>2. CASE outcome[e] # "different"
  <2>1. /\ entry' = [entry EXCEPT ![e].state = "gone"] /\ RemoveFileHandles(entry[e].files)
        /\ Missing(entry[e].files) = {} /\ ~AllReady(entry[e].files)
    BY <1>2, DifferentStep
  <2>2. entry'[e].files = entry[e].files /\ entry'[e].state = "gone"
    BY <2>1, EntryGone
  <2>3. PICK f \in Range(entry[e].files) : file[f].total # FileSize[f]
    BY <2>1 DEF AllReady
  <2>4. f \in Files /\ f \in Removed(entry[e].files)
    BY <2>1, ListFact, AllRemoved
  <2>5. file'[f] = Gone(file[f]) /\ file[f] \in FileType
    BY <2>1, <2>4, RemoveFact DEF Types
  <2>6. QED
    BY <2>2, <2>3, <2>5, GoneFact
<1>3. QED
  BY <1>1, <1>2

(* An entry of which one file is not complete has none of its files on the *)
(* server when sendEntry refuses it.                                       *)
UploadInv == Types /\ CallHasFile /\ PlacesInv /\ ListsInv /\ TotalInv /\ SendingInv /\ CommitInv /\ DifferentInv

LEMMA UploadInit == ASSUME Init PROVE UploadInv
<1>1. Types /\ CallHasFile /\ PlacesInv /\ ListsInv
  BY TypesInit, PlacesInit
<1>2. call.op # "send"
  BY DEF Init, Idle
<1>3. \A f \in Files : file[f].total = 0
  BY DEF Init, NewFile
<1>4. \A e \in Entries : Range(entry[e].files) = {} /\ outcome[e] # "different"
  BY DEF Init, Range
<1>5. TotalInv
  BY <1>3, Constants DEF TotalInv
<1>6. QED
  BY <1>1, <1>2, <1>4, <1>5 DEF UploadInv, SendingInv, CommitInv, DifferentInv

LEMMA UploadNext == ASSUME UploadInv, [Next]_vars PROVE UploadInv'
<1>1. Types /\ CallHasFile /\ PlacesInv /\ ListsInv /\ TotalInv /\ SendingInv /\ CommitInv /\ DifferentInv
  BY DEF UploadInv
<1>2. Types' /\ CallHasFile' /\ PlacesInv' /\ ListsInv'
  BY <1>1, TypesNext, PlacesNext
<1>3. TotalInv'
  BY <1>1, GrowsNext DEF Grows, TotalInv
<1>4. SendingInv' /\ CommitInv' /\ DifferentInv'
  BY <1>1, <1>2, SendingNext, CommitNext, DifferentNext
<1>5. QED
  BY <1>2, <1>3, <1>4 DEF UploadInv

(* A sendEntry that finds one of its files incomplete (commitInboxHandle)   *)
(* has none of them committed at the server, also when an earlier sendEntry *)
(* of the entry, or of another one, failed half way.                        *)
THEOREM IncompleteCommitsNothingAlways == Spec => []IncompleteCommitsNothing
<1>1. Init => UploadInv
  BY UploadInit
<1>2. UploadInv /\ [Next]_vars => UploadInv'
  BY UploadNext
<1>3. UploadInv => IncompleteCommitsNothing
  <2> SUFFICES ASSUME UploadInv, NEW e \in Entries, outcome[e] = "different", NEW f \in Range(entry[e].files), ~Misused(f),
                      Sent(file[f]).committed
               PROVE  FALSE
    BY DEF IncompleteCommitsNothing
  <2>1. ~Twice(entry, f)
    BY DEF Misused, Twice
  <2>2. AllReady(entry[e].files)
    BY <2>1 DEF UploadInv, CommitInv
  <2>3. QED
    BY <2>2 DEF UploadInv, DifferentInv, AllReady
<1>4. QED
  BY <1>1, <1>2, <1>3, PTL DEF Spec
=============================================================================
