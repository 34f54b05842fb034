------------------------ MODULE UploadsContentProofs ------------------------
(***************************************************************************)
(* Proofs about Uploads, on top of UploadsProofs: the bytes of files, their *)
(* chunks and their streams, and what the server has made of them; the     *)
(* counters; what the server refuses.                                      *)
(***************************************************************************)
EXTENDS UploadsProofs

-----------------------------------------------------------------------------
(* The bytes of a file, its chunks and the stream of its encrypted bytes.  *)

FullSize == EncryptedSize(ChunkSize)

ChunksOf(f) == NumberOfChunks(FileSize[f])

PlainLen(f, i) == IF i < ChunksOf(f) THEN ChunkSize ELSE FileSize[f] - (i - 1) * ChunkSize

ChunkOf(f, key, i) == PrepareChunk(key, i - 1, DataOf(f, (i - 1) * ChunkSize, PlainLen(f, i)))

(* The byte at place p of the stream: all of the chunks but the last are   *)
(* full.                                                                   *)
StreamByte(f, key, p) == <<ChunkOf(f, key, (p - 1) \div FullSize + 1), ((p - 1) % FullSize) + 1>>

(* The length of the stream of the first n chunks.                         *)
StreamLen(f, n) == IF n = ChunksOf(f) THEN DeclaredSize(FileSize[f]) ELSE n * FullSize

LEMMA DivUnique ==
  ASSUME NEW s \in Nat \ {0}, NEW q \in Nat, NEW r \in Nat, r < s, NEW n, n = q * s + r
  PROVE  n \div s = q /\ n % s = r
<1>1. n \in Nat
  BY SMT
<1> DEFINE p == n \div s
<1>2. p \in Nat /\ p * s <= n /\ n < p * s + s /\ n = p * s + (n % s) /\ n % s \in Nat
  BY <1>1, DivFact
<1> HIDE DEF p
<1>3. p * s < (q + 1) * s /\ q * s < (p + 1) * s
  BY <1>2, MulSuc, SMT
<1>4. p < q + 1 /\ q < p + 1
  BY <1>2, <1>3, MulStrict
<1>5. p = q
  BY <1>2, <1>4, SMT
<1>6. QED
  BY <1>2, <1>5, SMT DEF p

LEMMA DivMono == ASSUME NEW a \in Nat, NEW b \in Nat, NEW s \in Nat \ {0}, a <= b PROVE a \div s <= b \div s
<1> DEFINE p == a \div s
           q == b \div s
<1>1. p \in Nat /\ p * s <= a /\ q \in Nat /\ b < q * s + s
  BY DivFact
<1> HIDE DEF p, q
<1>2. p * s < (q + 1) * s
  BY <1>1, MulSuc, SMT
<1>3. p < q + 1
  BY <1>1, <1>2, MulStrict
<1>4. QED
  BY <1>1, <1>3, SMT DEF p, q

LEMMA EncryptedSizeMono ==
  ASSUME NEW a \in Nat, NEW b \in Nat, a <= b PROVE EncryptedSize(a) <= EncryptedSize(b)
<1>1. Padding \in Nat \ {0} /\ Header \in Nat
  BY UploadsAssumption
<1> DEFINE p == a \div Padding
           q == b \div Padding
<1>2. /\ p \in Nat /\ q \in Nat /\ a % Padding \in Nat /\ b % Padding \in Nat
      /\ a = p * Padding + (a % Padding) /\ b = q * Padding + (b % Padding)
  BY <1>1, DivFact
<1>3. p <= q
  BY <1>1, DivMono
<1> HIDE DEF p, q
<1>4. p * Padding <= q * Padding /\ p * Padding \in Nat /\ q * Padding \in Nat
  BY <1>1, <1>2, <1>3, MulMono, MulSuc
<1>5. EncryptedSize(a) = p * Padding + Padding + Header /\ EncryptedSize(b) = q * Padding + Padding + Header
  BY <1>1, <1>2, <1>4, SMT DEF EncryptedSize
<1>6. QED
  BY <1>1, <1>4, <1>5, SMT

LEMMA ChunksFact ==
  ASSUME NEW f \in Files
  PROVE  /\ FileSize[f] \in Nat /\ ChunksOf(f) \in Nat /\ FullSize \in Nat \ {0} /\ ChunkSize \in Nat \ {0}
         /\ FileSize[f] <= ChunksOf(f) * ChunkSize /\ ChunksOf(f) * ChunkSize \in Nat
         /\ ChunksOf(f) = 0 <=> FileSize[f] = 0
         /\ ChunksOf(f) > 0 => (ChunksOf(f) - 1) * ChunkSize < FileSize[f]
<1>1. FileSize[f] \in Nat /\ ChunkSize \in Nat \ {0}
  BY Constants
<1>2. FullSize \in Nat \ {0}
  BY <1>1, EncryptedSizeNat, SMT DEF FullSize
<1>3. /\ ChunksOf(f) \in Nat /\ FileSize[f] <= ChunksOf(f) * ChunkSize
      /\ FileSize[f] = 0 => ChunksOf(f) = 0
      /\ FileSize[f] > 0 => ChunksOf(f) > 0 /\ (ChunksOf(f) - 1) * ChunkSize < FileSize[f]
  BY <1>1, NumberOfChunksFact DEF ChunksOf
<1>4. ChunksOf(f) * ChunkSize \in Nat
  BY <1>1, <1>3, MulSuc
<1>5. QED
  BY <1>1, <1>2, <1>3, <1>4

(* How many chunks there are is known from the bytes before the last one.  *)
LEMMA ChunksAre ==
  ASSUME NEW f \in Files, NEW n \in Nat, NEW d \in 1..ChunkSize, n * ChunkSize + d = FileSize[f]
  PROVE  ChunksOf(f) = n + 1
<1> DEFINE q == ChunksOf(f)
<1>1. /\ q \in Nat /\ ChunkSize \in Nat \ {0} /\ FileSize[f] \in Nat /\ FileSize[f] <= q * ChunkSize
      /\ q = 0 <=> FileSize[f] = 0
      /\ q > 0 => (q - 1) * ChunkSize < FileSize[f]
  BY ChunksFact
<1> HIDE DEF q
<1>2. n * ChunkSize \in Nat /\ (n + 1) * ChunkSize = n * ChunkSize + ChunkSize
  BY <1>1, MulSuc
<1>3. q > 0
  BY <1>1, <1>2, SMT
<1>4. n * ChunkSize < q * ChunkSize /\ (q - 1) * ChunkSize < (n + 1) * ChunkSize
  BY <1>1, <1>2, <1>3, SMT
<1>5. n < q /\ q - 1 < n + 1
  <2>1. q - 1 \in Nat /\ n + 1 \in Nat
    BY <1>1, <1>3, SMT
  <2>2. QED
    BY <1>1, <1>4, <2>1, MulStrict
<1>6. QED
  BY <1>1, <1>5, SMT DEF q

LEMMA ChunksAreFull ==
  ASSUME NEW f \in Files, NEW n \in Nat, n * ChunkSize = FileSize[f]
  PROVE  ChunksOf(f) = n
<1>1. ChunkSize \in Nat \ {0}
  BY ChunksFact
<1>2. CASE n = 0
  BY <1>1, <1>2, ChunksFact, SMT
<1>3. CASE n # 0
  <2>1. n - 1 \in Nat /\ ((n - 1) + 1) * ChunkSize = (n - 1) * ChunkSize + ChunkSize
    BY <1>1, <1>3, MulSuc, SMT
  <2>2. (n - 1) * ChunkSize + ChunkSize = FileSize[f] /\ ChunkSize \in 1..ChunkSize
    BY <1>1, <2>1, SMT
  <2>3. ChunksOf(f) = (n - 1) + 1
    BY <2>1, <2>2, ChunksAre
  <2>4. QED
    BY <2>3, SMT
<1>4. QED
  BY <1>2, <1>3

LEMMA PlainLenFact ==
  ASSUME NEW f \in Files, NEW i \in 1..ChunksOf(f)
  PROVE  /\ PlainLen(f, i) \in 1..ChunkSize /\ (i - 1) * ChunkSize \in Nat
         /\ (i - 1) * ChunkSize + PlainLen(f, i) <= FileSize[f]
         /\ i = ChunksOf(f) => (i - 1) * ChunkSize + PlainLen(f, i) = FileSize[f]
         /\ i < ChunksOf(f) => PlainLen(f, i) = ChunkSize
<1> DEFINE q == ChunksOf(f)
<1>1. /\ q \in Nat /\ ChunkSize \in Nat \ {0} /\ FileSize[f] \in Nat /\ FileSize[f] <= q * ChunkSize
      /\ q > 0 => (q - 1) * ChunkSize < FileSize[f]
  BY ChunksFact
<1>2. PlainLen(f, i) = IF i < q THEN ChunkSize ELSE FileSize[f] - (i - 1) * ChunkSize
  BY DEF PlainLen
<1>3. i \in 1..q
  OBVIOUS
<1> HIDE DEF q
<1>4. i - 1 \in Nat /\ (i - 1) * ChunkSize \in Nat /\ i * ChunkSize = (i - 1) * ChunkSize + ChunkSize
  <2>1. i - 1 \in Nat /\ i = (i - 1) + 1
    BY <1>1, <1>3, SMT
  <2>2. QED
    BY <1>1, <2>1, MulSuc
<1>5. CASE i < q
  <2>1. i * ChunkSize <= (q - 1) * ChunkSize
    <3>1. i \in Nat /\ q - 1 \in Nat /\ i <= q - 1
      BY <1>1, <1>3, <1>5, SMT
    <3>2. QED
      BY <1>1, <3>1, MulMono
  <2>2. QED
    BY <1>1, <1>2, <1>3, <1>4, <1>5, <2>1, SMT DEF q
<1>6. CASE i = q
  BY <1>1, <1>2, <1>3, <1>4, <1>6, SMT DEF q
<1>7. QED
  BY <1>1, <1>3, <1>5, <1>6, SMT

(* The declared size is the length of the whole stream.                    *)
LEMMA DeclaredSizeIs ==
  ASSUME NEW f \in Files
  PROVE  /\ ChunksOf(f) = 0 => DeclaredSize(FileSize[f]) = 0
         /\ ChunksOf(f) > 0 => DeclaredSize(FileSize[f]) =
              (ChunksOf(f) - 1) * FullSize + EncryptedSize(PlainLen(f, ChunksOf(f)))
<1> DEFINE q == ChunksOf(f)
           n == FileSize[f]
           d == PlainLen(f, q)
<1>1. /\ q \in Nat /\ ChunkSize \in Nat \ {0} /\ n \in Nat /\ (q = 0 <=> n = 0)
  BY ChunksFact
<1>2. q = 0 => DeclaredSize(n) = 0
  BY <1>1 DEF DeclaredSize
<1>3. ASSUME q > 0 PROVE DeclaredSize(n) = (q - 1) * FullSize + EncryptedSize(d)
  <2>0. q \in 1..q
    BY <1>1, <1>3, SMT
  <2>1. d \in 1..ChunkSize /\ (q - 1) * ChunkSize + d = n
    BY <2>0, PlainLenFact
  <2>2. DeclaredSize(n) = (q - 1) * FullSize + EncryptedSize(IF n % ChunkSize = 0 THEN ChunkSize ELSE n % ChunkSize)
    <3>1. n # 0
      BY <1>1, <1>3, SMT
    <3>2. QED
      BY <3>1, Zenon DEF DeclaredSize, FullSize, ChunksOf
  <2> HIDE DEF q, n, d
  <2>3. d = IF n % ChunkSize = 0 THEN ChunkSize ELSE n % ChunkSize
    <3>1. CASE d = ChunkSize
      <4>1. n = q * ChunkSize + 0
        <5>1. q - 1 \in Nat /\ q = (q - 1) + 1
          BY <1>1, <1>3, SMT
        <5>2. q * ChunkSize = (q - 1) * ChunkSize + ChunkSize
          BY <1>1, <5>1, MulSuc
        <5>3. QED
          BY <1>1, <2>1, <3>1, <5>2, SMT
      <4>2. n % ChunkSize = 0
        BY <1>1, <4>1, DivUnique, SMT
      <4>3. QED
        BY <3>1, <4>2
    <3>2. CASE d # ChunkSize
      <4>1. q - 1 \in Nat /\ d \in Nat /\ d < ChunkSize /\ d # 0 /\ n = (q - 1) * ChunkSize + d
        BY <1>1, <1>3, <2>1, <3>2, SMT
      <4>2. n % ChunkSize = d
        BY <1>1, <4>1, DivUnique
      <4>3. QED
        BY <4>1, <4>2
    <3>3. QED
      BY <3>1, <3>2
  <2>4. QED
    BY <2>2, <2>3
<1>4. QED
  BY <1>2, <1>3 DEF q, n, d

LEMMA StreamLenFact ==
  ASSUME NEW f \in Files, NEW n \in 0..ChunksOf(f)
  PROVE  /\ StreamLen(f, n) \in Nat /\ StreamLen(f, n) <= DeclaredSize(FileSize[f])
         /\ StreamLen(f, ChunksOf(f)) = DeclaredSize(FileSize[f]) /\ StreamLen(f, 0) = 0
         /\ n < ChunksOf(f) => /\ StreamLen(f, n) = n * FullSize /\ n * FullSize \in Nat
                               /\ EncryptedSize(PlainLen(f, n + 1)) \in 1..FullSize
                               /\ StreamLen(f, n + 1) = n * FullSize + EncryptedSize(PlainLen(f, n + 1))
<1> DEFINE q == ChunksOf(f)
           size == DeclaredSize(FileSize[f])
<1>1. q \in Nat /\ ChunkSize \in Nat \ {0} /\ FullSize \in Nat \ {0} /\ FileSize[f] \in Nat
  BY ChunksFact
<1>2. size \in Nat
  BY <1>1, DeclaredSizeNat
<1>3. \A m : StreamLen(f, m) = IF m = q THEN size ELSE m * FullSize
  BY DEF StreamLen
<1>4. (q = 0 => size = 0) /\ (q > 0 => size = (q - 1) * FullSize + EncryptedSize(PlainLen(f, q)))
  BY DeclaredSizeIs
<1>5. \A i \in 1..q : EncryptedSize(PlainLen(f, i)) \in 1..FullSize /\ (i < q => EncryptedSize(PlainLen(f, i)) = FullSize)
  <2> SUFFICES ASSUME NEW i \in 1..q
               PROVE  EncryptedSize(PlainLen(f, i)) \in 1..FullSize /\ (i < q => EncryptedSize(PlainLen(f, i)) = FullSize)
    OBVIOUS
  <2>1. PlainLen(f, i) \in 1..ChunkSize /\ (i < q => PlainLen(f, i) = ChunkSize)
    BY PlainLenFact
  <2>2. PlainLen(f, i) \in Nat /\ PlainLen(f, i) <= ChunkSize
    BY <1>1, <2>1, SMT
  <2>3. EncryptedSize(PlainLen(f, i)) \in Nat /\ EncryptedSize(PlainLen(f, i)) > PlainLen(f, i) /\ EncryptedSize(PlainLen(f, i)) <= FullSize
    BY <1>1, <2>2, EncryptedSizeNat, EncryptedSizeMono DEF FullSize
  <2>4. QED
    BY <1>1, <2>1, <2>2, <2>3, SMT DEF FullSize
<1>a. n \in 0..q
  OBVIOUS
<1> HIDE DEF q, size
<1>6. n \in Nat /\ n * FullSize \in Nat /\ (n + 1) * FullSize = n * FullSize + FullSize
  BY <1>1, <1>a, MulSuc, SMT
<1>7. ASSUME n < q
      PROVE  /\ n * FullSize <= size /\ EncryptedSize(PlainLen(f, n + 1)) \in 1..FullSize
             /\ StreamLen(f, n + 1) = n * FullSize + EncryptedSize(PlainLen(f, n + 1))
  <2>1. n + 1 \in 1..q /\ q - 1 \in Nat /\ n <= q - 1 /\ q > 0
    BY <1>1, <1>6, <1>7, SMT
  <2>2. n * FullSize <= (q - 1) * FullSize /\ (q - 1) * FullSize \in Nat
    BY <1>1, <1>6, <2>1, MulMono, MulSuc
  <2>3. EncryptedSize(PlainLen(f, q)) \in 1..FullSize
    <3>1. q \in 1..q
      BY <1>1, <2>1, SMT
    <3>2. QED
      BY <1>5, <3>1
  <2>4. n * FullSize <= size
    BY <1>1, <1>2, <1>4, <1>6, <2>1, <2>2, <2>3, SMT
  <2>5. CASE n + 1 = q
    <3>1. n = q - 1
      BY <1>1, <1>6, <2>5, SMT
    <3>2. QED
      BY <1>3, <1>4, <1>5, <2>1, <2>4, <2>5, <3>1
  <2>6. CASE n + 1 # q
    <3>1. n + 1 < q
      BY <1>1, <2>1, <2>6, SMT
    <3>2. StreamLen(f, n + 1) = (n + 1) * FullSize /\ EncryptedSize(PlainLen(f, n + 1)) = FullSize
      BY <1>3, <1>5, <2>1, <2>6, <3>1
    <3>3. QED
      BY <1>1, <1>5, <1>6, <2>1, <2>4, <3>2
  <2>7. QED
    BY <2>5, <2>6
<1>8. n < q => StreamLen(f, n) = n * FullSize
  BY <1>1, <1>3, <1>6, SMT
<1>9. StreamLen(f, q) = size /\ StreamLen(f, 0) = 0
  BY <1>1, <1>3, <1>4, SMT
<1>10. StreamLen(f, n) \in Nat /\ StreamLen(f, n) <= size
  <2>1. CASE n = q
    BY <1>2, <1>9, <2>1, SMT
  <2>2. CASE n # q
    <3>1. n < q
      BY <1>1, <1>a, <2>2, SMT
    <3>2. QED
      BY <1>6, <1>7, <1>8, <3>1
  <2>3. QED
    BY <2>1, <2>2
<1>11. QED
  BY <1>6, <1>7, <1>8, <1>9, <1>10 DEF q, size

LEMMA StreamByteIs ==
  ASSUME NEW f \in Files, NEW key, NEW n \in Nat, NEW t \in 1..FullSize
  PROVE  StreamByte(f, key, n * FullSize + t) = <<ChunkOf(f, key, n + 1), t>>
<1>1. FullSize \in Nat \ {0}
  BY ChunksFact
<1>2. t - 1 \in Nat /\ t - 1 < FullSize /\ n * FullSize \in Nat
  BY <1>1, MulSuc, SMT
<1>3. (n * FullSize + t) - 1 = n * FullSize + (t - 1)
  BY <1>1, <1>2, SMT
<1>4. ((n * FullSize + t) - 1) \div FullSize = n /\ ((n * FullSize + t) - 1) % FullSize = t - 1
  <2> DEFINE p == (n * FullSize + t) - 1
             r == t - 1
  <2>1. r \in Nat /\ r < FullSize /\ p = n * FullSize + r
    BY <1>2, <1>3
  <2> HIDE DEF p, r
  <2>2. p \div FullSize = n /\ p % FullSize = r
    BY <1>1, <2>1, DivUnique
  <2>3. QED
    BY <2>2 DEF p, r
<1>5. (t - 1) + 1 = t
  BY <1>1, SMT
<1>6. QED
  BY <1>4, <1>5 DEF StreamByte

-----------------------------------------------------------------------------
(* What is true of a file that was written well.                           *)

(* Its chunks are the chunks of its bytes.                                 *)
SumsIn(f, key, sums) ==
  Len(sums) <= ChunksOf(f) /\ \A i \in 1..Len(sums) : sums[i] = ChunkOf(f, key, i)

(* The server has the stream up to some place.                             *)
DataIn(f, key, data) == \A p \in 1..Len(data) : data[p] = StreamByte(f, key, p)

(* What the server has and what the streamer has not sent yet make up the  *)
(* stream of n chunks; the first o bytes of the streamer are on the server *)
(* already.                                                                *)
InOrder(f, key, n, enc, data, o) ==
  /\ o <= Len(data) /\ o <= Len(enc)
  /\ Len(data) - o + Len(enc) = StreamLen(f, n)
  /\ DataIn(f, key, data)
  /\ \A q \in 1..Len(enc) : enc[q] = StreamByte(f, key, Len(data) - o + q)

(* The bytes in the buffer, of which o are in chunks already, and a chunk  *)
(* more when m is 1.                                                       *)
Buffers(f, buf, total, seq, o, m) ==
  /\ Len(buf) <= total
  /\ \A j \in 1..Len(buf) : buf[j] = <<f, total - Len(buf) + j>>
  /\ seq * ChunkSize + Len(buf) = total + o
  /\ o + m * ChunkSize <= Len(buf)

SumsOK(f, g) == SumsIn(f, g.key, g.sums)

DataOK(f, g, s) == DataIn(f, g.key, s.data)

Exact(f, g, s, o) ==
  /\ ~s.committed /\ s.parts = g.serverSeq
  /\ InOrder(f, g.key, Len(g.sums), g.encrypted, s.data, o)

(* A loss left it in a state from which it is never committed: parts out   *)
(* of step, bytes that will be sent twice, or bytes that are gone.         *)
Stuck(g, s, o) ==
  /\ ~s.committed
  /\ \/ s.parts # g.serverSeq
     \/ Len(s.data) + Len(g.encrypted) >= s.size + o + PartSize
     \/ g.encrypted = <<>> /\ Len(s.data) < s.size

Complete(f, g, s) ==
  /\ s.committed /\ g.encrypted = <<>> /\ s.sums = g.sums
  /\ Len(s.data) = DeclaredSize(FileSize[f]) /\ DataOK(f, g, s)

Untouched(g) == g.seq = 0 /\ g.sums = <<>> /\ g.encrypted = <<>> /\ g.serverSeq = 0

Writing(f, g, o, m) ==
  /\ Buffers(f, g.buf, g.total, g.seq, o, m)
  /\ g.processed = g.seq * ChunkSize
  /\ g.uploaded = (g.seq + m) * ChunkSize /\ Len(g.sums) = g.seq + m

Finished(f, g) ==
  /\ g.buf = <<>> /\ g.total = FileSize[f] /\ g.uploaded = FileSize[f]
  /\ Len(g.sums) = ChunksOf(f)

Open(f, g, s, o, m, n) ==
  /\ SumsOK(f, g) /\ Writing(f, g, o, m)
  /\ IF g.request = None THEN Untouched(g) ELSE Exact(f, g, s, n)

Done(f, g, s, n, bad) ==
  /\ SumsOK(f, g) /\ Finished(f, g) /\ g.request # None
  /\ Exact(f, g, s, n) \/ Complete(f, g, s) \/ (bad /\ Stuck(g, s, n))

Ready(f, g, s, bad) == (Open(f, g, s, 0, 0, 0) /\ Len(g.buf) < ChunkSize) \/ Done(f, g, s, 0, bad)

(* Where it is while the call c is under way.                              *)
Good(f, g, s, c, bad) ==
  /\ c.f # f \/ c.pc = "finalize" => Ready(f, g, s, bad)
  /\ c.f = f /\ c.pc = "write" =>
       Open(f, g, s, c.chunk * ChunkSize, 0, 0) \/ (c.chunk = 0 /\ Done(f, g, s, 0, bad))
  /\ c.f = f /\ c.pc = "parts" /\ c.op = "write" =>
       Open(f, g, s, c.chunk * ChunkSize, 1, c.part * PartSize) /\ c.length = ChunkSize
  /\ c.f = f /\ c.op # "write" /\ c.pc # "finalize" =>
       /\ Done(f, g, s, c.part * PartSize, bad)
       /\ c.pc = "last" => Len(g.encrypted) < PartSize

(* The parts of a file these are about.                                    *)
StreamAlike(g, h) ==
  /\ h.key = g.key /\ h.sums = g.sums /\ h.encrypted = g.encrypted /\ h.serverSeq = g.serverSeq

Alike(g, h) ==
  /\ StreamAlike(g, h)
  /\ h.buf = g.buf /\ h.total = g.total /\ h.seq = g.seq /\ h.processed = g.processed
  /\ h.uploaded = g.uploaded /\ h.request = g.request

LEMMA StreamSame ==
  ASSUME NEW f, NEW g, NEW h, NEW s, StreamAlike(g, h)
  PROVE  /\ SumsOK(f, g) => SumsOK(f, h)
         /\ \A o : Exact(f, g, s, o) => Exact(f, h, s, o)
         /\ \A o : Stuck(g, s, o) => Stuck(h, s, o)
         /\ Complete(f, g, s) => Complete(f, h, s)
BY Zenon DEF StreamAlike, SumsOK, Exact, Stuck, Complete, DataOK

LEMMA AlikeSame ==
  ASSUME NEW f, NEW g, NEW h, NEW s, NEW bad, NEW bad2, Alike(g, h), bad => bad2
  PROVE  /\ \A o, m, n : Open(f, g, s, o, m, n) => Open(f, h, s, o, m, n)
         /\ \A n : Done(f, g, s, n, bad) => Done(f, h, s, n, bad2)
         /\ Ready(f, g, s, bad) => Ready(f, h, s, bad2)
<1>1. StreamAlike(g, h)
  BY DEF Alike
<1>2. \A o, m, n : Open(f, g, s, o, m, n) => Open(f, h, s, o, m, n)
  BY <1>1, StreamSame, Zenon DEF Open, Writing, Untouched, Alike, StreamAlike
<1>3. \A n : Done(f, g, s, n, bad) => Done(f, h, s, n, bad2)
  BY <1>1, StreamSame, Zenon DEF Done, Finished, Alike, StreamAlike
<1>4. h.buf = g.buf
  BY DEF Alike
<1>5. Ready(f, g, s, bad) => Ready(f, h, s, bad2)
  BY <1>2, <1>3, <1>4, Zenon DEF Ready
<1>6. QED
  BY <1>2, <1>3, <1>5

LEMMA GoodSame ==
  ASSUME NEW f, NEW g, NEW h, NEW s, NEW c, NEW bad, NEW bad2, Alike(g, h), bad => bad2, Good(f, g, s, c, bad)
  PROVE  Good(f, h, s, c, bad2)
<1>1. /\ \A o, m, n : Open(f, g, s, o, m, n) => Open(f, h, s, o, m, n)
      /\ \A n : Done(f, g, s, n, bad) => Done(f, h, s, n, bad2)
      /\ Ready(f, g, s, bad) => Ready(f, h, s, bad2)
  BY AlikeSame, Zenon
<1>2. h.encrypted = g.encrypted
  BY DEF Alike, StreamAlike
<1>3. QED
  BY <1>1, <1>2, Zenon DEF Good

(* The bytes are the next chunk of the file.                               *)
NextChunk(f, g, data) ==
  /\ Len(g.sums) = g.seq /\ g.seq < ChunksOf(f)
  /\ Len(data) = PlainLen(f, g.seq + 1)
  /\ PrepareChunk(g.key, g.seq, data) = ChunkOf(f, g.key, g.seq + 1)

LEMMA ConcatFact ==
  ASSUME NEW S, NEW a \in Seq(S), NEW b \in Seq(S)
  PROVE  /\ a \o b \in Seq(S) /\ Len(a \o b) = Len(a) + Len(b)
         /\ \A i \in 1..Len(a) : (a \o b)[i] = a[i]
         /\ \A i \in 1..Len(b) : (a \o b)[Len(a) + i] = b[i]
<1>1. a \o b \in Seq(S) /\ Len(a \o b) = Len(a) + Len(b)
  BY ConcatProperties
<1>2. \A i \in 1..(Len(a) + Len(b)) : (a \o b)[i] = IF i <= Len(a) THEN a[i] ELSE b[i - Len(a)]
  BY ConcatProperties
<1>3. QED
  BY <1>1, <1>2, LenProperties, SMT

LEMMA StreamConcat ==
  ASSUME NEW a \in Stream, NEW b \in Stream
  PROVE  /\ a \o b \in Stream /\ Len(a \o b) = Len(a) + Len(b)
         /\ \A i \in 1..Len(a) : (a \o b)[i] = a[i]
         /\ \A i \in 1..Len(b) : (a \o b)[Len(a) + i] = b[i]
BY ConcatFact DEF Stream

(* The bytes of the next chunk are added to the stream.                    *)
LEMMA InOrderAdd ==
  ASSUME NEW f \in Files, NEW key, NEW n \in Nat, n < ChunksOf(f), NEW enc \in Stream, NEW data \in Stream,
         InOrder(f, key, n, enc, data, 0), NEW b \in Stream, NEW size, Len(b) = size,
         size = EncryptedSize(PlainLen(f, n + 1)),
         \A k \in 1..size : b[k] = <<ChunkOf(f, key, n + 1), k>>
  PROVE  InOrder(f, key, n + 1, enc \o b, data, 0)
<1> DEFINE base == n * FullSize
           x == Len(data)
           y == Len(enc)
<1>1. n \in 0..ChunksOf(f) /\ FullSize \in Nat
  BY ChunksFact, SMT
<1>2. /\ StreamLen(f, n) = base /\ base \in Nat /\ size \in 1..FullSize
      /\ StreamLen(f, n + 1) = base + size
  BY <1>1, StreamLenFact
<1>3. x \in Nat /\ y \in Nat /\ x - 0 = x
  BY LenProperties DEF Stream
<1>4. /\ Len(enc \o b) = y + size
      /\ \A i \in 1..y : (enc \o b)[i] = enc[i]
      /\ \A i \in 1..size : (enc \o b)[y + i] = b[i]
  <2>1. /\ Len(enc \o b) = Len(enc) + Len(b)
        /\ \A i \in 1..Len(enc) : (enc \o b)[i] = enc[i]
        /\ \A i \in 1..Len(b) : (enc \o b)[Len(enc) + i] = b[i]
    BY StreamConcat, Zenon
  <2>2. QED
    BY <2>1, Zenon
<1>5. /\ x + y = base /\ DataIn(f, key, data)
      /\ \A q \in 1..y : enc[q] = StreamByte(f, key, x + q)
  BY <1>2, <1>3, Zenon DEF InOrder
<1> HIDE DEF base, x, y
<1>6. ASSUME NEW q \in 1..(y + size) PROVE (enc \o b)[q] = StreamByte(f, key, x + q)
  <2>1. CASE q \in 1..y
    BY <1>4, <1>5, <2>1
  <2>2. CASE q \notin 1..y
    <3> DEFINE k == q - y
    <3>1. k \in 1..size /\ q = y + k /\ k \in 1..FullSize /\ x + q = base + k
      BY <1>1, <1>2, <1>3, <1>5, <2>2, SMT
    <3> HIDE DEF k
    <3>2. StreamByte(f, key, base + k) = <<ChunkOf(f, key, n + 1), k>>
      BY <3>1, StreamByteIs DEF base
    <3>3. QED
      BY <1>4, <3>1, <3>2
  <2>3. QED
    BY <2>1, <2>2
<1>7. x + (y + size) = base + size /\ 0 <= x /\ 0 <= y + size
  BY <1>1, <1>2, <1>3, <1>5, SMT
<1>8. QED
  BY <1>2, <1>3, <1>4, <1>5, <1>6, <1>7, Zenon DEF InOrder, x

(* A part of the streamer goes to the server.                              *)
LEMMA InOrderSend ==
  ASSUME NEW f \in Files, NEW key, NEW n \in 0..ChunksOf(f), NEW enc \in Stream, NEW data \in Stream, NEW o \in Nat,
         InOrder(f, key, n, enc, data, o), NEW part \in Stream, o + Len(part) <= Len(enc),
         \A k \in 1..Len(part) : part[k] = enc[o + k]
  PROVE  /\ InOrder(f, key, n, enc, data \o part, o + Len(part))
         /\ Len(data) + Len(part) <= DeclaredSize(FileSize[f])
         /\ Len(data) + Len(part) + (Len(enc) - o - Len(part)) = StreamLen(f, n)
<1> DEFINE x == Len(data)
           y == Len(enc)
           z == Len(part)
<1>1. x \in Nat /\ y \in Nat /\ z \in Nat
  BY LenProperties DEF Stream
<1>2. /\ Len(data \o part) = x + z
      /\ \A i \in 1..x : (data \o part)[i] = data[i]
      /\ \A i \in 1..z : (data \o part)[x + i] = part[i]
  BY ConcatFact DEF Stream
<1>3. /\ o <= x /\ o <= y /\ x - o + y = StreamLen(f, n)
      /\ \A p \in 1..x : data[p] = StreamByte(f, key, p)
      /\ \A q \in 1..y : enc[q] = StreamByte(f, key, x - o + q)
  BY Zenon DEF InOrder, DataIn
<1>4. o + z <= y /\ \A k \in 1..z : part[k] = enc[o + k]
  OBVIOUS
<1>5. StreamLen(f, n) \in Nat /\ StreamLen(f, n) <= DeclaredSize(FileSize[f]) /\ DeclaredSize(FileSize[f]) \in Nat
  BY StreamLenFact, DeclaredSizeNat, ChunksFact
<1> HIDE DEF x, y, z
<1>6. ASSUME NEW p \in 1..(x + z) PROVE (data \o part)[p] = StreamByte(f, key, p)
  <2>1. CASE p \in 1..x
    BY <1>2, <1>3, <2>1
  <2>2. CASE p \notin 1..x
    <3> DEFINE k == p - x
    <3>1. k \in 1..z /\ p = x + k /\ o + k \in 1..y /\ x - o + (o + k) = p
      BY <1>1, <1>3, <1>4, <2>2, SMT
    <3> HIDE DEF k
    <3>2. (data \o part)[p] = enc[o + k]
      BY <1>2, <1>4, <3>1
    <3>3. enc[o + k] = StreamByte(f, key, x - o + (o + k))
      BY <1>3, <3>1
    <3>4. QED
      BY <3>1, <3>2, <3>3
  <2>3. QED
    BY <2>1, <2>2
<1>7. /\ o + z <= x + z /\ (x + z) - (o + z) = x - o /\ x + z <= DeclaredSize(FileSize[f])
      /\ x + z + (y - o - z) = StreamLen(f, n)
  BY <1>1, <1>3, <1>4, <1>5, SMT
<1>8. DataIn(f, key, data \o part)
  BY <1>2, <1>6 DEF DataIn
<1>9. /\ o + z <= Len(data \o part) /\ o + z <= Len(enc) /\ Len(data \o part) - (o + z) = x - o
      /\ Len(enc) = y
  BY <1>2, <1>4, <1>7, Zenon DEF y
<1>10. InOrder(f, key, n, enc, data \o part, o + z)
  BY <1>3, <1>8, <1>9, Zenon DEF InOrder
<1>11. QED
  BY <1>7, <1>10 DEF x, y, z

(* What was sent is dropped.                                               *)
LEMMA InOrderFree ==
  ASSUME NEW f \in Files, NEW key, NEW n, NEW enc \in Stream, NEW data \in Stream, NEW o \in Nat,
         InOrder(f, key, n, enc, data, o), NEW rest \in Stream, Len(rest) = Len(enc) - o,
         \A k \in 1..(Len(enc) - o) : rest[k] = enc[o + k]
  PROVE  InOrder(f, key, n, rest, data, 0)
<1> DEFINE x == Len(data)
           y == Len(enc)
<1>1. x \in Nat /\ y \in Nat
  BY LenProperties DEF Stream
<1>2. /\ o <= x /\ o <= y /\ x - o + y = StreamLen(f, n) /\ DataIn(f, key, data)
      /\ \A q \in 1..y : enc[q] = StreamByte(f, key, x - o + q)
  BY Zenon DEF InOrder
<1>3. Len(rest) = y - o /\ \A k \in 1..(y - o) : rest[k] = enc[o + k]
  OBVIOUS
<1> HIDE DEF x, y
<1>4. ASSUME NEW k \in 1..(y - o) PROVE rest[k] = StreamByte(f, key, x - 0 + k)
  <2>1. o + k \in 1..y /\ x - o + (o + k) = x - 0 + k
    BY <1>1, <1>2, SMT
  <2>2. enc[o + k] = StreamByte(f, key, x - o + (o + k))
    BY <1>2, <2>1
  <2>3. QED
    BY <1>3, <2>1, <2>2
<1>5. 0 <= x /\ 0 <= y - o /\ x - 0 + (y - o) = x - o + y
  BY <1>1, <1>2, SMT
<1>6. QED
  BY <1>2, <1>3, <1>4, <1>5, Zenon DEF InOrder, x

(* A chunk is added to a file.                                             *)
LEMMA PreparedExact ==
  ASSUME NEW f \in Files, NEW g \in FileType, NEW s \in SentType, SumsOK(f, g), Exact(f, g, s, 0),
         NEW data \in Plain, NextChunk(f, g, data)
  PROVE  /\ SumsOK(f, Prepared(g, data)) /\ Exact(f, Prepared(g, data), s, 0)
         /\ Len(Prepared(g, data).sums) = g.seq + 1
<1> DEFINE h == Prepared(g, data)
           chunk == PrepareChunk(g.key, g.seq, data)
           b == BytesOf(chunk)
           n == g.seq
           sums == g.sums
           size == EncryptedSize(PlainLen(f, n + 1))
<1>1. /\ chunk \in Chunks /\ chunk.plain = data
      /\ h.sums = Append(sums, chunk) /\ h.encrypted = g.encrypted \o b /\ h.serverSeq = g.serverSeq
      /\ b \in Stream /\ h.key = g.key
  BY PreparedFact, Zenon DEF Kept
<1>2. n \in Nat /\ n = Len(sums) /\ n < ChunksOf(f) /\ sums \in Seq(Chunks) /\ g.encrypted \in Stream /\ s.data \in Stream
  BY DEF NextChunk, FileType, SentType, Sums
<1>3. chunk = ChunkOf(f, g.key, n + 1) /\ Len(data) = PlainLen(f, n + 1)
  BY DEF NextChunk
<1>4. Len(b) = size /\ \A k \in 1..size : b[k] = <<chunk, k>>
  BY <1>1, <1>3, BytesOfFact
<1>5. SumsIn(f, g.key, sums) /\ InOrder(f, g.key, n, g.encrypted, s.data, 0) /\ ~s.committed /\ s.parts = g.serverSeq
  BY <1>2, Zenon DEF SumsOK, Exact
<1> HIDE DEF h, chunk, b, size, n, sums
<1>6. ChunksOf(f) \in Nat /\ n + 1 <= ChunksOf(f)
  BY <1>2, ChunksFact, SMT
<1>7. /\ Len(Append(sums, chunk)) = n + 1 /\ Append(sums, chunk)[n + 1] = chunk
      /\ \A i \in 1..n : Append(sums, chunk)[i] = sums[i]
  BY <1>1, <1>2, AppendProperties
<1>8. SumsIn(f, g.key, Append(sums, chunk))
  <2>1. \A i \in 1..n : sums[i] = ChunkOf(f, g.key, i)
    BY <1>2, <1>5, Zenon DEF SumsIn
  <2>2. ASSUME NEW i \in 1..(n + 1) PROVE Append(sums, chunk)[i] = ChunkOf(f, g.key, i)
    <3>1. i \in 1..n \/ i = n + 1
      BY <1>2, SMT
    <3>2. QED
      BY <1>3, <1>7, <2>1, <3>1
  <2>3. QED
    BY <1>6, <1>7, <2>2 DEF SumsIn
<1>9. InOrder(f, g.key, n + 1, g.encrypted \o b, s.data, 0)
  BY <1>1, <1>2, <1>3, <1>4, <1>5, InOrderAdd, Zenon DEF size
<1>10. SumsOK(f, h) /\ Exact(f, h, s, 0) /\ Len(h.sums) = n + 1
  BY <1>1, <1>5, <1>7, <1>8, <1>9, Zenon DEF SumsOK, Exact
<1>11. QED
  BY <1>10 DEF h, n

-----------------------------------------------------------------------------
(* Chunks are taken out of the buffer in their order.                      *)

LEMMA PlainEqual ==
  ASSUME NEW a \in Plain, NEW b \in Plain, Len(a) = Len(b), \A k \in 1..Len(a) : a[k] = b[k]
  PROVE  a = b
BY SeqEqual DEF Plain

(* The d bytes of the buffer behind the first o.                           *)
Taken(buf, o, data, d) ==
  Len(data) = d /\ o + d <= Len(buf) /\ \A k \in 1..d : data[k] = buf[o + k]

LEMMA ChunkFromBuffer ==
  ASSUME NEW f \in Files, NEW buf \in Plain, NEW total \in Nat, NEW seq \in Nat, NEW o \in Nat,
         Buffers(f, buf, total, seq, o, 0), total <= FileSize[f],
         NEW data \in Plain, NEW d \in 1..ChunkSize, Taken(buf, o, data, d),
         d = ChunkSize \/ seq * ChunkSize + d = FileSize[f]
  PROVE  /\ seq < ChunksOf(f) /\ d = PlainLen(f, seq + 1)
         /\ data = DataOf(f, seq * ChunkSize, d)
<1> DEFINE p == seq * ChunkSize
           x == Len(buf)
           N == ChunksOf(f)
           F == FileSize[f]
           C == ChunkSize
<1>1. p \in Nat /\ x \in Nat /\ N \in Nat /\ F \in Nat /\ C \in Nat /\ C > 0 /\ F <= N * C /\ d \in Nat /\ d > 0 /\ d <= C
  BY MulSuc, ChunksFact, Constants, LenProperties DEF Plain
<1>2. /\ x <= total /\ p + x = total + o /\ total <= F
      /\ \A j \in 1..x : buf[j] = <<f, total - x + j>>
  BY Zenon DEF Buffers
<1>3. Len(data) = d /\ o + d <= x /\ \A k \in 1..d : data[k] = buf[o + k]
  BY DEF Taken
<1>4. d = C \/ p + d = F
  OBVIOUS
<1>5. seq < N
  <2>1. N * C \in Nat
    BY ChunksFact, Zenon
  <2> HIDE DEF p, x, F
  <2>2. p < N * C
    <3> DEFINE y == N * C
    <3>1. F <= y /\ y \in Nat
      BY <1>1, <2>1
    <3> HIDE DEF y
    <3>2. p < y
      BY <1>1, <1>2, <1>3, <3>1, SMT
    <3>3. QED
      BY <3>2 DEF y
  <2>3. seq * C < N * C
    BY <2>2 DEF p
  <2> HIDE DEF C, N
  <2>4. QED
    BY <1>1, <2>3, MulStrict
<1>6. seq + 1 \in 1..N /\ (seq + 1) - 1 = seq
  <2> HIDE DEF N
  <2>1. QED
    BY <1>1, <1>5, SMT
<1>7. d = PlainLen(f, seq + 1)
  <2> DEFINE l == PlainLen(f, seq + 1)
  <2>1. /\ l \in 1..C /\ p + l <= F /\ (seq + 1 = N => p + l = F) /\ (seq + 1 < N => l = C)
    BY <1>6, PlainLenFact
  <2>2. seq + 1 < N => p + C < F
    <3>1. HAVE seq + 1 < N
    <3> DEFINE m == N - 1
               y == m * C
               z == (seq + 1) * C
    <3>2. m \in Nat /\ seq + 1 <= m /\ N > 0
      BY <1>1, <3>1
    <3>3. y < F /\ y \in Nat
      BY <3>2, ChunksFact, MulSuc, Constants
    <3>4. z <= y
      <4>1. seq + 1 \in Nat /\ C \in Nat
        BY <1>1
      <4> HIDE DEF m, C
      <4>2. QED
        BY <3>2, <4>1, MulMono
    <3>5. z = p + C
      BY MulSuc, Constants
    <3> HIDE DEF y, z, p, F
    <3>6. QED
      BY <1>1, <3>3, <3>4, <3>5
  <2>3. seq + 1 < N \/ seq + 1 = N
    BY <1>1, <1>6
  <2>4. p + d <= F
    <3> HIDE DEF p, x, F, C, N
    <3>1. QED
      BY <1>1, <1>2, <1>3, SMT
  <2> HIDE DEF p, x, F, C, N, l
  <2>5. QED
    BY <1>1, <1>4, <2>1, <2>2, <2>3, <2>4, SMT DEF l
<1>8. data = DataOf(f, p, d)
  <2>1. DataOf(f, p, d) \in Plain /\ Len(DataOf(f, p, d)) = d /\ \A k \in 1..d : DataOf(f, p, d)[k] = <<f, p + k>>
    BY <1>1, DataFact, Zenon
  <2>2. ASSUME NEW k \in 1..d PROVE data[k] = <<f, p + k>>
    <3> HIDE DEF p, x
    <3>1. o + k \in 1..x /\ total - x + (o + k) = p + k
      BY <1>1, <1>2, <1>3, SMT
    <3>2. QED
      BY <1>2, <1>3, <3>1
  <2> HIDE DEF p
  <2>3. QED
    BY <1>3, <2>1, <2>2, PlainEqual
<1>9. QED
  BY <1>5, <1>7, <1>8

LEMMA ChunkIsNext ==
  ASSUME NEW f \in Files, NEW g \in FileType, NEW o \in Nat, Writing(f, g, o, 0), g.total <= FileSize[f],
         NEW data \in Plain, NEW d \in 1..ChunkSize, Taken(g.buf, o, data, d),
         d = ChunkSize \/ g.seq * ChunkSize + d = FileSize[f]
  PROVE  NextChunk(f, g, data)
<1>1. g.buf \in Plain /\ g.total \in Nat /\ g.seq \in Nat
  BY DEF FileType
<1>2. Buffers(f, g.buf, g.total, g.seq, o, 0) /\ Len(g.sums) = g.seq + 0
  BY DEF Writing
<1>3. g.seq < ChunksOf(f) /\ d = PlainLen(f, g.seq + 1) /\ data = DataOf(f, g.seq * ChunkSize, d)
  BY <1>1, <1>2, ChunkFromBuffer
<1>4. g.seq + 0 = g.seq /\ (g.seq + 1) - 1 = g.seq
  BY <1>1
<1>5. PrepareChunk(g.key, g.seq, data) = ChunkOf(f, g.key, g.seq + 1)
  BY <1>3, <1>4, Zenon DEF ChunkOf
<1>6. QED
  BY <1>2, <1>3, <1>4, <1>5, Zenon DEF NextChunk, Taken

(* write: one full chunk of the buffer is prepared.                        *)
LEMMA WriteChunkOpen ==
  ASSUME NEW f \in Files, NEW g \in FileType, NEW s \in SentType, NEW o \in Nat, Open(f, g, s, o, 0, 0),
         g.request # None, g.total <= FileSize[f],
         NEW data \in Plain, Taken(g.buf, o, data, ChunkSize)
  PROVE  Open(f, Prepared(g, data), s, o, 1, 0)
<1> DEFINE h == Prepared(g, data)
           C == ChunkSize
<1>1. C \in Nat /\ C > 0 /\ C \in 1..C
  BY Constants
<1>2. SumsOK(f, g) /\ Writing(f, g, o, 0) /\ Exact(f, g, s, 0)
  BY Zenon DEF Open
<1>3. NextChunk(f, g, data)
  BY <1>1, <1>2, ChunkIsNext, Zenon
<1>4. SumsOK(f, h) /\ Exact(f, h, s, 0) /\ Len(h.sums) = g.seq + 1
  BY <1>2, <1>3, PreparedExact, Zenon
<1>5. h.uploaded = g.uploaded + Len(data) /\ Len(data) = C /\ h.buf = g.buf /\ h.seq = g.seq /\ h.processed = g.processed /\ Kept(g, h)
  BY PreparedFact, Zenon DEF Taken
<1>6. h.total = g.total /\ h.request = g.request
  BY <1>5 DEF Kept
<1>7. g.seq \in Nat /\ g.buf \in Plain
  BY DEF FileType
<1>8. /\ Buffers(f, g.buf, g.total, g.seq, o, 0) /\ g.processed = g.seq * C /\ g.uploaded = (g.seq + 0) * C
  BY <1>2, Zenon DEF Writing
<1>9. Buffers(f, g.buf, g.total, g.seq, o, 1)
  <2>1. o + 1 * C = o + C
    BY <1>1
  <2>2. QED
    BY <1>8, <2>1, Zenon DEF Buffers, Taken
<1>10. (g.seq + 0) * C + C = (g.seq + 1) * C
  BY <1>1, <1>7, MulSuc
<1>11. Writing(f, h, o, 1)
  BY <1>4, <1>5, <1>6, <1>8, <1>9, <1>10, Zenon DEF Writing
<1>12. QED
  BY <1>4, <1>6, <1>11, Zenon DEF Open

(* write: the full chunks are freed.                                       *)
LEMMA WriteEndsOpen ==
  ASSUME NEW f \in Files, NEW g \in FileType, NEW s, NEW o \in Nat, Open(f, g, s, o, 0, 0),
         NEW h \in FileType, StreamAlike(g, h), h.total = g.total, h.seq = g.seq, h.processed = g.processed,
         h.uploaded = g.uploaded, h.request = g.request,
         Len(h.buf) = Len(g.buf) - o, \A k \in 1..(Len(g.buf) - o) : h.buf[k] = g.buf[o + k]
  PROVE  Open(f, h, s, 0, 0, 0)
<1> DEFINE x == Len(g.buf)
           t == g.total
           p == g.seq * ChunkSize
<1>1. x \in Nat /\ t \in Nat /\ p \in Nat /\ ChunkSize \in Nat
  BY LenProperties, MulSuc, Constants DEF FileType, Plain
<1>2. /\ x <= t /\ p + x = t + o /\ o + 0 * ChunkSize <= x
      /\ \A j \in 1..x : g.buf[j] = <<f, t - x + j>>
  BY Zenon DEF Open, Writing, Buffers
<1>3. Len(h.buf) = x - o /\ \A k \in 1..(x - o) : h.buf[k] = g.buf[o + k]
  OBVIOUS
<1>4. h.total = t /\ h.seq * ChunkSize = p
  OBVIOUS
<1>5. o <= x
  BY <1>1, <1>2
<1> HIDE DEF x, t, p
<1>6. x - o <= t /\ p + (x - o) = t + 0 /\ 0 + 0 * ChunkSize <= x - o
  BY <1>1, <1>2, <1>5, SMT
<1>7. ASSUME NEW j \in 1..(x - o) PROVE h.buf[j] = <<f, t - (x - o) + j>>
  <2>1. o + j \in 1..x /\ t - x + (o + j) = t - (x - o) + j
    BY <1>1, <1>5, SMT
  <2>2. QED
    BY <1>2, <1>3, <2>1
<1>8. Buffers(f, h.buf, h.total, h.seq, 0, 0)
  BY <1>3, <1>4, <1>6, <1>7, Zenon DEF Buffers
<1>9. SumsOK(f, h) /\ IF h.request = None THEN Untouched(h) ELSE Exact(f, h, s, 0)
  BY StreamSame, Zenon DEF Open, Untouched, StreamAlike
<1>10. Writing(f, h, 0, 0)
  BY <1>8, Zenon DEF Open, Writing, StreamAlike
<1>11. QED
  BY <1>9, <1>10, Zenon DEF Open

LEMMA PlainEmpty == ASSUME NEW a \in Plain PROVE (a = <<>> <=> Len(a) = 0) /\ Len(a) \in Nat
BY EmptySeq, LenProperties DEF Plain

(* finalize: what is left in the buffer is the last chunk.                 *)
LEMMA RestAlike ==
  ASSUME NEW g \in FileType
  PROVE  /\ StreamAlike(g, Rest(g)) /\ Rest(g) \in FileType /\ LastChunk(g) \in Plain
         /\ Rest(g).total = g.total /\ Rest(g).request = g.request /\ Rest(g).seq = g.seq
         /\ Rest(g).processed = g.processed /\ Rest(g).uploaded = g.uploaded
         /\ Rest(g).torn = g.torn /\ Rest(g).early = g.early /\ Rest(g).state = g.state
         /\ Len(g.buf) <= ChunkSize => /\ Len(LastChunk(g)) = Len(g.buf) /\ Rest(g).buf = <<>>
                                       /\ Taken(g.buf, 0, LastChunk(g), Len(g.buf))
<1> DEFINE x == Len(g.buf)
           y == Len(LastChunk(g))
           z == Len(Rest(g).buf)
<1>1. /\ LastChunk(g) \in Plain /\ y = (IF x <= ChunkSize THEN x ELSE ChunkSize)
      /\ \A k \in 1..y : LastChunk(g)[k] = g.buf[k]
      /\ Rest(g) \in FileType /\ Kept(g, Rest(g)) /\ z = x - y
      /\ Rest(g).sums = g.sums /\ Rest(g).encrypted = g.encrypted
      /\ Rest(g).uploaded = g.uploaded /\ Rest(g).serverSeq = g.serverSeq
      /\ Rest(g).torn = g.torn /\ Rest(g).early = g.early
      /\ Rest(g).seq = g.seq /\ Rest(g).processed = g.processed
  BY RestFact, Zenon
<1>2. g.buf \in Plain /\ Rest(g).buf \in Plain
  BY <1>1 DEF FileType
<1>3. x \in Nat /\ z \in Nat /\ (Rest(g).buf = <<>> <=> z = 0)
  BY <1>2, PlainEmpty
<1>4. ASSUME x <= ChunkSize PROVE y = x /\ Rest(g).buf = <<>> /\ Taken(g.buf, 0, LastChunk(g), x)
  <2>1. y = x
    BY <1>1, <1>4, Zenon
  <2> HIDE DEF x, y, z
  <2>2. z = 0 /\ 0 + x <= x
    BY <1>1, <1>3, <2>1
  <2>3. ASSUME NEW k \in 1..x PROVE LastChunk(g)[k] = g.buf[0 + k]
    <3>1. 0 + k = k
      BY <1>3
    <3>2. QED
      BY <1>1, <2>1, <3>1
  <2>4. Taken(g.buf, 0, LastChunk(g), x)
    BY <2>1, <2>2, <2>3, Zenon DEF Taken, x, y
  <2>5. QED
    BY <1>3, <2>1, <2>2, <2>4
<1>5. QED
  BY <1>1, <1>4, Zenon DEF StreamAlike, Kept

LEMMA LastChunkDone ==
  ASSUME NEW f \in Files, NEW g \in FileType, NEW s \in SentType, NEW bad, Open(f, g, s, 0, 0, 0), g.request # None,
         g.total = FileSize[f], Len(g.buf) < ChunkSize, LastChunk(g) # <<>>
  PROVE  /\ Rest(g).processed + Len(LastChunk(g)) <= FileSize[f]
         /\ Done(f, Prepared(Rest(g), LastChunk(g)), s, 0, bad)
<1> DEFINE x == Len(g.buf)
           data == LastChunk(g)
           r == Rest(g)
           h == Prepared(r, data)
           C == ChunkSize
           p == g.seq * C
           F == FileSize[f]
<1>1. /\ StreamAlike(g, r) /\ r \in FileType /\ data \in Plain
      /\ r.total = g.total /\ r.request = g.request /\ r.seq = g.seq
      /\ r.processed = g.processed /\ r.uploaded = g.uploaded
  BY RestAlike, Zenon
<1>2. C \in Nat /\ C > 0 /\ g.buf \in Plain /\ x \in Nat /\ x <= C /\ g.seq \in Nat /\ p \in Nat /\ F \in Nat
  BY Constants, LenProperties, MulSuc DEF FileType, Plain
<1>3. Len(data) = x /\ r.buf = <<>> /\ Taken(g.buf, 0, data, x)
  BY <1>2, RestAlike, Zenon
<1>4. SumsOK(f, g) /\ Writing(f, g, 0, 0) /\ Exact(f, g, s, 0)
  BY Zenon DEF Open
<1>5. p + x = g.total + 0 /\ g.processed = p /\ g.uploaded = (g.seq + 0) * C /\ Len(g.sums) = g.seq + 0
  BY <1>4, Zenon DEF Writing, Buffers
<1>6. p + x = F /\ g.uploaded = p /\ Len(g.sums) = g.seq
  <2>1. F + 0 = F /\ g.seq + 0 = g.seq
    BY <1>2
  <2>2. QED
    BY <1>5, <2>1, Zenon
<1>7. x \in 1..C
  <2>1. x # 0
    BY <1>1, <1>3, PlainEmpty
  <2> HIDE DEF x, C
  <2>2. QED
    BY <1>2, <2>1
<1>8. NextChunk(f, g, data)
  <2>1. g.total <= FileSize[f] /\ 0 \in Nat
    BY <1>2
  <2>2. QED
    BY <1>1, <1>3, <1>4, <1>6, <1>7, <2>1, ChunkIsNext
<1>9. NextChunk(f, r, data)
  BY <1>1, <1>8, Zenon DEF NextChunk, StreamAlike
<1>10. SumsOK(f, r) /\ Exact(f, r, s, 0)
  BY <1>1, <1>4, StreamSame, Zenon
<1>11. SumsOK(f, h) /\ Exact(f, h, s, 0) /\ Len(h.sums) = r.seq + 1
  BY <1>1, <1>9, <1>10, PreparedExact, Zenon
<1>12. h.uploaded = r.uploaded + Len(data) /\ h.buf = r.buf /\ Kept(r, h)
  BY <1>1, PreparedFact, Zenon
<1>13. ChunksOf(f) = g.seq + 1
  BY <1>2, <1>6, <1>7, ChunksAre, Zenon
<1>14. Finished(f, h)
  BY <1>1, <1>3, <1>6, <1>11, <1>12, <1>13, Zenon DEF Finished, Kept
<1>15. h.request # None
  BY <1>1, <1>12, Zenon DEF Kept
<1>16. Done(f, h, s, 0, bad)
  BY <1>11, <1>14, <1>15, Zenon DEF Done
<1>17. r.processed + Len(data) = F
  BY <1>1, <1>3, <1>5, <1>6, Zenon
<1>18. F <= F
  BY <1>2
<1>19. QED
  BY <1>16, <1>17, <1>18, Zenon

LEMMA LastEmptyDone ==
  ASSUME NEW f \in Files, NEW g \in FileType, NEW s \in SentType, NEW bad, Open(f, g, s, 0, 0, 0), g.request # None,
         g.total = FileSize[f], Len(g.buf) < ChunkSize, LastChunk(g) = <<>>
  PROVE  Done(f, Rest(g), s, 0, bad)
<1> DEFINE x == Len(g.buf)
           r == Rest(g)
           C == ChunkSize
           p == g.seq * C
           F == FileSize[f]
<1>1. /\ StreamAlike(g, r) /\ r \in FileType /\ LastChunk(g) \in Plain
      /\ r.total = g.total /\ r.request = g.request /\ r.uploaded = g.uploaded
  BY RestAlike, Zenon
<1>2. C \in Nat /\ C > 0 /\ x \in Nat /\ x <= C /\ g.seq \in Nat /\ p \in Nat /\ F \in Nat
  BY Constants, LenProperties, MulSuc DEF FileType, Plain
<1>3. Len(LastChunk(g)) = x /\ r.buf = <<>>
  BY <1>2, RestAlike, Zenon
<1>4. x = 0
  BY <1>1, <1>3, PlainEmpty
<1>5. SumsOK(f, g) /\ Writing(f, g, 0, 0) /\ Exact(f, g, s, 0)
  BY Zenon DEF Open
<1>6. p + x = g.total + 0 /\ g.uploaded = (g.seq + 0) * C /\ Len(g.sums) = g.seq + 0
  BY <1>5, Zenon DEF Writing, Buffers
<1>7. F + 0 = F /\ g.seq + 0 = g.seq /\ p + 0 = p
  BY <1>2
<1>8. p = F /\ g.uploaded = p /\ Len(g.sums) = g.seq
  BY <1>4, <1>6, <1>7, Zenon
<1>9. ChunksOf(f) = g.seq
  BY <1>2, <1>8, ChunksAreFull, Zenon
<1>10. SumsOK(f, r) /\ Exact(f, r, s, 0)
  BY <1>1, <1>5, StreamSame, Zenon
<1>11. Finished(f, r)
  BY <1>1, <1>3, <1>8, <1>9, Zenon DEF Finished, StreamAlike
<1>12. QED
  BY <1>1, <1>10, <1>11, Zenon DEF Done

LEMMA DoneRest ==
  ASSUME NEW f \in Files, NEW g \in FileType, NEW s, NEW bad, Done(f, g, s, 0, bad)
  PROVE  LastChunk(g) = <<>> /\ Done(f, Rest(g), s, 0, bad)
<1>1. g.buf = <<>> /\ Len(g.buf) = 0 /\ 0 <= ChunkSize
  BY EmptySeq, Constants DEF Done, Finished
<1>2. LastChunk(g) \in Plain /\ Len(LastChunk(g)) = 0 /\ Rest(g).buf = <<>>
  BY <1>1, RestAlike, Zenon
<1>3. Alike(g, Rest(g))
  BY <1>1, <1>2, RestAlike, Zenon DEF Alike
<1>4. Done(f, Rest(g), s, 0, bad)
  BY <1>3, AlikeSame, Zenon
<1>5. QED
  BY <1>2, <1>4, PlainEmpty, Zenon

-----------------------------------------------------------------------------
(* Parts are sent.                                                         *)

LEMMA StreamEmpty == ASSUME NEW a \in Stream PROVE (a = <<>> <=> Len(a) = 0) /\ Len(a) \in Nat
BY EmptySeq, LenProperties DEF Stream

LEMMA PartSizeNat == PartSize \in Nat /\ PartSize > 0
BY Constants

LEMMA StreamFree ==
  ASSUME NEW enc \in Stream
  PROVE  LET n == NumberOfFullChunks(enc, PartSize)
             rest == FreeFullChunks(enc, PartSize)
         IN /\ n \in Nat /\ n * PartSize <= Len(enc) /\ Len(enc) < n * PartSize + PartSize
            /\ rest \in Stream /\ Len(rest) = Len(enc) - n * PartSize
            /\ \A k \in 1..(Len(enc) - n * PartSize) : rest[k] = enc[n * PartSize + k]
<1> DEFINE n == NumberOfFullChunks(enc, PartSize)
<1>1. enc \in Seq(Encrypted) /\ Len(enc) \in Nat /\ PartSize \in Nat \ {0}
  BY StreamEmpty, Constants DEF Stream
<1>2. n \in Nat
  BY <1>1, DivFact DEF NumberOfFullChunks
<1> HIDE DEF n
<1>3. n = NumberOfFullChunks(enc, PartSize)
  BY DEF n
<1>4. n * PartSize \in Nat /\ n * PartSize <= Len(enc) /\ Len(enc) < n * PartSize + PartSize
  BY <1>1, <1>2, <1>3, DivFact, MulSuc, LenProperties DEF NumberOfFullChunks
<1>6. /\ SubSeq(enc, n * PartSize + 1, Len(enc)) \in Seq(Encrypted)
      /\ Len(SubSeq(enc, n * PartSize + 1, Len(enc))) = Len(enc) - n * PartSize
      /\ \A k \in 1..(Len(enc) - n * PartSize) :
           SubSeq(enc, n * PartSize + 1, Len(enc))[k] = enc[n * PartSize + k]
  BY <1>1, <1>4, SuffixFact, Zenon
<1>7. FreeFullChunks(enc, PartSize) = SubSeq(enc, n * PartSize + 1, Len(enc))
  BY <1>3, Zenon DEF FreeFullChunks, NumberOfFullChunks
<1>5. QED
  BY <1>2, <1>4, <1>6, <1>7, Zenon DEF n, Stream

(* sendFullChunksWhileCollected drops what was sent.                       *)
LEMMA FreeExact ==
  ASSUME NEW f \in Files, NEW g \in FileType, NEW s \in SentType, NEW i \in Nat, Exact(f, g, s, i * PartSize),
         i >= NumberOfFullChunks(g.encrypted, PartSize),
         NEW h, h.key = g.key, h.sums = g.sums, h.serverSeq = g.serverSeq,
         h.encrypted = FreeFullChunks(g.encrypted, PartSize)
  PROVE  Exact(f, h, s, 0)
<1> DEFINE enc == g.encrypted
           n == NumberOfFullChunks(enc, PartSize)
           rest == FreeFullChunks(enc, PartSize)
           x == Len(enc)
           o == i * PartSize
<1>1. enc \in Stream /\ s.data \in Stream /\ x \in Nat /\ PartSize \in Nat \ {0}
  BY StreamEmpty, Constants DEF FileType, SentType
<1>2. n \in Nat
  BY <1>1, DivFact DEF NumberOfFullChunks
<1>3. /\ n * PartSize <= x /\ x < n * PartSize + PartSize
      /\ rest \in Stream /\ Len(rest) = x - n * PartSize
      /\ \A k \in 1..(x - n * PartSize) : rest[k] = enc[n * PartSize + k]
  BY <1>1, StreamFree, Zenon
<1>4. ~s.committed /\ s.parts = g.serverSeq /\ InOrder(f, g.key, Len(g.sums), enc, s.data, o)
  BY Zenon DEF Exact
<1>5. o <= x
  BY <1>4, Zenon DEF InOrder
<1>6. i = n
  <2>1. i >= n
    OBVIOUS
  <2>2. o \in Nat /\ n * PartSize \in Nat /\ (n + 1) * PartSize = n * PartSize + PartSize
    BY <1>1, <1>2, MulSuc
  <2>3. i * PartSize < (n + 1) * PartSize
    <3> DEFINE y == n * PartSize
    <3>1. x < y + PartSize /\ y \in Nat
      BY <1>3, <2>2
    <3> HIDE DEF x, y, o
    <3>2. o < y + PartSize
      BY <1>1, <1>5, <2>2, <3>1, SMT
    <3>3. QED
      BY <2>2, <3>2 DEF o, y
  <2> HIDE DEF n
  <2>4. i < n + 1
    BY <1>1, <1>2, <2>3, MulStrict
  <2>5. QED
    BY <1>2, <2>1, <2>4
<1>7. o \in Nat
  BY <1>1, MulSuc
<1> HIDE DEF n, rest, enc
<1>8. InOrder(f, g.key, Len(g.sums), rest, s.data, 0)
  BY <1>1, <1>3, <1>4, <1>6, <1>7, InOrderFree
<1>9. QED
  BY <1>4, <1>8, Zenon DEF Exact, rest, enc

LEMMA FreeStuck ==
  ASSUME NEW f \in Files, NEW g \in FileType, NEW s \in SentType, NEW i \in Nat, Stuck(g, s, i * PartSize),
         i >= NumberOfFullChunks(g.encrypted, PartSize),
         NEW h, h.serverSeq = g.serverSeq, h.encrypted = FreeFullChunks(g.encrypted, PartSize)
  PROVE  Stuck(h, s, 0)
<1> DEFINE enc == g.encrypted
           n == NumberOfFullChunks(enc, PartSize)
           rest == FreeFullChunks(enc, PartSize)
           x == Len(enc)
           y == n * PartSize
           o == i * PartSize
           z == Len(s.data)
<1>1. enc \in Stream /\ s.data \in Stream /\ x \in Nat /\ z \in Nat /\ s.size \in Nat /\ PartSize \in Nat \ {0}
  BY StreamEmpty, Constants DEF FileType, SentType
<1>2. n \in Nat
  BY <1>1, DivFact DEF NumberOfFullChunks
<1>3. /\ y <= x /\ rest \in Stream /\ Len(rest) = x - y
  BY <1>1, <1>2, FreeFullChunksFact DEF Stream
<1>4. y <= o /\ y \in Nat /\ o \in Nat
  BY <1>1, <1>2, MulMono, MulSuc
<1>5. /\ ~s.committed
      /\ \/ s.parts # g.serverSeq
         \/ z + x >= s.size + o + PartSize
         \/ enc = <<>> /\ z < s.size
  BY Zenon DEF Stuck
<1>6. h.encrypted = rest /\ h.serverSeq = g.serverSeq
  OBVIOUS
<1>7. CASE s.parts # g.serverSeq
  BY <1>5, <1>6, <1>7 DEF Stuck
<1>8. CASE z + x >= s.size + o + PartSize
  <2> HIDE DEF x, y, z, o
  <2>1. z + (x - y) >= s.size + 0 + PartSize
    BY <1>1, <1>3, <1>4, <1>8, SMT
  <2>2. z + Len(h.encrypted) >= s.size + 0 + PartSize
    BY <1>3, <1>6, <2>1, Zenon
  <2>3. QED
    BY <1>5, <2>2, Zenon DEF Stuck, z
<1>9. CASE enc = <<>> /\ z < s.size
  <2>1. x = 0
    BY <1>1, <1>9, StreamEmpty
  <2>2. Len(rest) = 0
    <3> HIDE DEF x, y, rest
    <3>1. QED
      BY <1>3, <1>4, <2>1
  <2>3. rest = <<>>
    BY <1>3, <2>2, StreamEmpty
  <2>4. QED
    BY <1>5, <1>6, <1>9, <2>3, Zenon DEF Stuck
<1>10. QED
  BY <1>5, <1>7, <1>8, <1>9

LEMMA FreeDone ==
  ASSUME NEW f \in Files, NEW g \in FileType, NEW s \in SentType, NEW i \in Nat, NEW bad,
         Done(f, g, s, i * PartSize, bad), i >= NumberOfFullChunks(g.encrypted, PartSize),
         NEW h, h.key = g.key, h.sums = g.sums, h.serverSeq = g.serverSeq,
         h.encrypted = FreeFullChunks(g.encrypted, PartSize),
         h.buf = g.buf, h.total = g.total, h.uploaded = g.uploaded, h.request = g.request
  PROVE  Done(f, h, s, 0, bad) /\ Len(h.encrypted) < PartSize
<1>1. SumsOK(f, h) /\ Finished(f, h) /\ h.request # None
  BY Zenon DEF Done, SumsOK, Finished
<1>2. Exact(f, g, s, i * PartSize) => Exact(f, h, s, 0)
  BY FreeExact, Zenon
<1>3. Stuck(g, s, i * PartSize) => Stuck(h, s, 0)
  BY FreeStuck, Zenon
<1> DEFINE enc == g.encrypted
           n == NumberOfFullChunks(enc, PartSize)
           rest == FreeFullChunks(enc, PartSize)
           x == Len(enc)
           y == n * PartSize
<1>4. enc \in Stream /\ x \in Nat /\ PartSize \in Nat \ {0}
  BY StreamEmpty, Constants DEF FileType
<1>5. n \in Nat
  BY <1>4, DivFact DEF NumberOfFullChunks
<1>6. /\ y <= x /\ x < y + PartSize /\ rest \in Stream /\ Len(rest) = x - y /\ y \in Nat
  BY <1>4, <1>5, FreeFullChunksFact, MulSuc DEF Stream
<1>7. Len(rest) < PartSize /\ (x = 0 => Len(rest) = 0)
  <2> HIDE DEF x, y, rest
  <2>1. QED
    BY <1>4, <1>6, SMT
<1>8. enc = <<>> => rest = <<>>
  BY <1>4, <1>6, <1>7, StreamEmpty
<1>9. Complete(f, g, s) => Complete(f, h, s)
  BY <1>8, Zenon DEF Complete, DataOK
<1>10. Done(f, h, s, 0, bad)
  BY <1>1, <1>2, <1>3, <1>9, Zenon DEF Done
<1>11. QED
  BY <1>7, <1>10

-----------------------------------------------------------------------------
(* A part is taken by the server, refused or lost.                         *)

PartOf(enc, o, part) == o + Len(part) <= Len(enc) /\ \A k \in 1..Len(part) : part[k] = enc[o + k]

(* What the server makes of a part that it takes, and the client.          *)
SentBy(s, part, t) ==
  t.data = s.data \o part /\ t.parts = s.parts + 1 /\ t.committed = s.committed /\ t.size = s.size

Counted(g, h) ==
  /\ h.key = g.key /\ h.sums = g.sums /\ h.encrypted = g.encrypted /\ h.serverSeq = g.serverSeq + 1
  /\ h.buf = g.buf /\ h.total = g.total /\ h.seq = g.seq /\ h.processed = g.processed
  /\ h.uploaded = g.uploaded /\ h.request = g.request

Fits(g, s, part) ==
  ~s.committed /\ s.parts = g.serverSeq /\ Len(s.data) + Len(part) <= s.size

LEMMA FullPart ==
  ASSUME NEW enc \in Stream, NEW i \in Nat, i < NumberOfFullChunks(enc, PartSize)
  PROVE  LET part == GetFullChunk(enc, PartSize, i)
         IN /\ part \in Stream /\ Len(part) = PartSize /\ PartOf(enc, i * PartSize, part)
            /\ i * PartSize \in Nat /\ i * PartSize + PartSize = (i + 1) * PartSize
<1> DEFINE part == GetFullChunk(enc, PartSize, i)
<1>1. enc \in Seq(Encrypted) /\ PartSize \in Nat \ {0}
  BY Constants DEF Stream
<1>2. (i + 1) * PartSize <= Len(enc) /\ part \in Seq(Encrypted) /\ Len(part) = PartSize
  BY <1>1, GetFullChunkFact
<1>3. \A k \in 1..PartSize : part[k] = enc[i * PartSize + k]
  BY <1>1, GetFullChunkFact, ZenonT(60)
<1>4. i * PartSize \in Nat /\ (i + 1) * PartSize = i * PartSize + PartSize
  BY <1>1, MulSuc
<1>5. i * PartSize + PartSize <= Len(enc)
  BY <1>2, <1>4
<1> HIDE DEF part
<1>6. PartOf(enc, i * PartSize, part)
  BY <1>2, <1>3, <1>5, Zenon DEF PartOf
<1>7. QED
  BY <1>2, <1>4, <1>6, Zenon DEF part, Stream

LEMMA InOrderSendPart ==
  ASSUME NEW f \in Files, NEW key, NEW n \in 0..ChunksOf(f), NEW enc \in Stream, NEW data \in Stream, NEW o \in Nat,
         InOrder(f, key, n, enc, data, o), NEW part \in Stream, PartOf(enc, o, part)
  PROVE  InOrder(f, key, n, enc, data \o part, o + Len(part)) /\ Len(data) + Len(part) <= DeclaredSize(FileSize[f])
BY InOrderSend, Zenon DEF PartOf

LEMMA SentExact ==
  ASSUME NEW f \in Files, NEW g \in FileType, NEW s \in SentType, NEW o \in Nat, SumsOK(f, g), Exact(f, g, s, o),
         s.size = DeclaredSize(FileSize[f]), NEW part \in Stream, PartOf(g.encrypted, o, part)
  PROVE  /\ Fits(g, s, part)
         /\ \A h, t : Counted(g, h) /\ SentBy(s, part, t) => Exact(f, h, t, o + Len(part))
<1>1. ~s.committed /\ s.parts = g.serverSeq /\ InOrder(f, g.key, Len(g.sums), g.encrypted, s.data, o)
  BY Zenon DEF Exact
<1>2. g.encrypted \in Stream /\ s.data \in Stream /\ Len(g.sums) \in Nat /\ ChunksOf(f) \in Nat
  BY ChunksFact, LenProperties DEF FileType, SentType, Sums
<1>3. Len(g.sums) <= ChunksOf(f)
  BY Zenon DEF SumsOK, SumsIn
<1>4. Len(g.sums) \in 0..ChunksOf(f)
  BY <1>2, <1>3
<1>6. /\ InOrder(f, g.key, Len(g.sums), g.encrypted, s.data \o part, o + Len(part))
      /\ Len(s.data) + Len(part) <= DeclaredSize(FileSize[f])
  BY <1>1, <1>2, <1>4, InOrderSendPart
<1>7. Fits(g, s, part)
  BY <1>1, <1>6, Zenon DEF Fits
<1>8. ASSUME NEW h, NEW t, Counted(g, h), SentBy(s, part, t)
      PROVE  Exact(f, h, t, o + Len(part))
  <2>1. t.parts = h.serverSeq /\ ~t.committed
    BY <1>1, <1>8, Zenon DEF Counted, SentBy
  <2>2. QED
    BY <1>6, <1>8, <2>1, Zenon DEF Exact, Counted, SentBy
<1>9. QED
  BY <1>7, <1>8

(* A file that is not finished: nothing was lost yet, the part is taken.   *)
LEMMA OpenSend ==
  ASSUME NEW f \in Files, NEW g \in FileType, NEW s \in SentType, NEW o, NEW i \in Nat,
         Open(f, g, s, o, 1, i * PartSize), g.request # None,
         s.size = DeclaredSize(FileSize[f]), i < NumberOfFullChunks(g.encrypted, PartSize),
         NEW part, part = GetFullChunk(g.encrypted, PartSize, i)
  PROVE  /\ Fits(g, s, part)
         /\ \A h, t : Counted(g, h) /\ SentBy(s, part, t) => Open(f, h, t, o, 1, (i + 1) * PartSize)
<1>1. g.encrypted \in Stream
  BY DEF FileType
<1>2. /\ part \in Stream /\ Len(part) = PartSize /\ PartOf(g.encrypted, i * PartSize, part)
      /\ i * PartSize \in Nat /\ i * PartSize + PartSize = (i + 1) * PartSize
  BY <1>1, FullPart, Zenon
<1>3. SumsOK(f, g) /\ Writing(f, g, o, 1) /\ Exact(f, g, s, i * PartSize)
  BY Zenon DEF Open
<1>4. /\ Fits(g, s, part)
      /\ \A h, t : Counted(g, h) /\ SentBy(s, part, t) => Exact(f, h, t, i * PartSize + Len(part))
  BY <1>2, <1>3, SentExact, Zenon
<1>5. ASSUME NEW h, NEW t, Counted(g, h), SentBy(s, part, t)
      PROVE  Open(f, h, t, o, 1, (i + 1) * PartSize)
  <2>1. Exact(f, h, t, (i + 1) * PartSize)
    BY <1>2, <1>4, <1>5
  <2>2. SumsOK(f, h) /\ Writing(f, h, o, 1) /\ h.request # None
    BY <1>3, <1>5, Zenon DEF Counted, SumsOK, Writing
  <2>3. QED
    BY <2>1, <2>2, Zenon DEF Open
<1>6. QED
  BY <1>4, <1>5

LEMMA StuckSend ==
  ASSUME NEW g \in FileType, NEW s \in SentType, NEW i \in Nat, Stuck(g, s, i * PartSize),
         i < NumberOfFullChunks(g.encrypted, PartSize),
         NEW part, part = GetFullChunk(g.encrypted, PartSize, i), Fits(g, s, part),
         NEW h, NEW t, Counted(g, h), SentBy(s, part, t)
  PROVE  Stuck(h, t, (i + 1) * PartSize)
<1> DEFINE x == Len(g.encrypted)
           z == Len(s.data)
           o == i * PartSize
<1>1. g.encrypted \in Stream /\ s.data \in Stream /\ s.size \in Nat /\ PartSize \in Nat \ {0}
  BY Constants DEF FileType, SentType
<1>2. /\ part \in Stream /\ Len(part) = PartSize /\ PartOf(g.encrypted, i * PartSize, part)
      /\ o \in Nat /\ o + PartSize = (i + 1) * PartSize
  BY <1>1, FullPart, Zenon
<1>3. x \in Nat /\ z \in Nat /\ o + PartSize <= x
  <2>1. o + Len(part) <= x
    BY <1>2, Zenon DEF PartOf
  <2>2. QED
    BY <1>1, <1>2, <2>1, StreamEmpty
<1>4. Len(t.data) = z + PartSize /\ h.encrypted = g.encrypted /\ t.size = s.size
  <2>1. t.data = s.data \o part /\ h.encrypted = g.encrypted /\ t.size = s.size
    BY DEF SentBy, Counted
  <2>2. Len(s.data \o part) = Len(s.data) + Len(part)
    BY <1>1, <1>2, StreamConcat, Zenon
  <2>3. QED
    BY <1>2, <2>1, <2>2
<1>5. g.encrypted # <<>>
  <2> HIDE DEF o
  <2>1. x > 0
    <3> HIDE DEF x
    <3>1. QED
      BY <1>1, <1>2, <1>3
  <2>2. QED
    BY <1>1, <2>1, StreamEmpty
<1>6. z + x >= s.size + o + PartSize
  BY <1>5, Zenon DEF Stuck, Fits
<1> DEFINE p == (i + 1) * PartSize
<1>7. Len(t.data) + Len(h.encrypted) >= t.size + p + PartSize
  <2> DEFINE w == Len(t.data)
  <2>1. p = o + PartSize
    BY <1>2
  <2>2. w = z + PartSize /\ Len(h.encrypted) = x /\ t.size = s.size
    BY <1>4
  <2>5. w = z + PartSize
    BY <2>2
  <2>6. x \in Nat /\ z \in Nat /\ o \in Nat /\ s.size \in Nat /\ PartSize \in Nat
    BY <1>1, <1>2, <1>3
  <2> DEFINE u == s.size
  <2> HIDE DEF x, z, o, p, w, u
  <2>3. w + x >= u + p + PartSize
    <3>1. u \in Nat /\ z + x >= u + o + PartSize
      BY <1>6, <2>6 DEF u
    <3>2. QED
      BY <2>1, <2>5, <2>6, <3>1, SMT
  <2>4. QED
    BY <2>2, <2>3 DEF w, u
<1>8. ~t.committed
  BY Zenon DEF Fits, SentBy
<1>9. QED
  BY <1>7, <1>8, Zenon DEF Stuck

LEMMA DoneSend ==
  ASSUME NEW f \in Files, NEW g \in FileType, NEW s \in SentType, NEW i \in Nat, NEW bad,
         Done(f, g, s, i * PartSize, bad),
         s.size = DeclaredSize(FileSize[f]), i < NumberOfFullChunks(g.encrypted, PartSize),
         NEW part, part = GetFullChunk(g.encrypted, PartSize, i), Fits(g, s, part),
         NEW h, NEW t, Counted(g, h), SentBy(s, part, t)
  PROVE  Done(f, h, t, (i + 1) * PartSize, bad)
<1>1. g.encrypted \in Stream
  BY DEF FileType
<1>2. /\ part \in Stream /\ Len(part) = PartSize /\ PartOf(g.encrypted, i * PartSize, part)
      /\ i * PartSize \in Nat /\ i * PartSize + PartSize = (i + 1) * PartSize
  BY <1>1, FullPart, Zenon
<1>3. SumsOK(f, g) /\ Finished(f, g) /\ g.request # None
  BY Zenon DEF Done
<1>4. SumsOK(f, h) /\ Finished(f, h) /\ h.request # None
  BY <1>3, Zenon DEF Counted, SumsOK, Finished
<1>5. ASSUME Exact(f, g, s, i * PartSize) PROVE Exact(f, h, t, (i + 1) * PartSize)
  <2>1. Exact(f, h, t, i * PartSize + Len(part))
    BY <1>2, <1>3, <1>5, SentExact, Zenon
  <2>2. QED
    BY <1>2, <2>1
<1>6. ~Complete(f, g, s)
  BY Zenon DEF Complete, Fits
<1>7. Stuck(g, s, i * PartSize) => Stuck(h, t, (i + 1) * PartSize)
  BY StuckSend, Zenon
<1>8. QED
  BY <1>4, <1>5, <1>6, <1>7, Zenon DEF Done

(* A part that is not taken, or taken and not answered, ends the call.     *)
LEMMA ExactStuck ==
  ASSUME NEW f \in Files, NEW g \in FileType, NEW s \in SentType, NEW i \in Nat, Finished(f, g),
         Exact(f, g, s, i * PartSize), s.size = DeclaredSize(FileSize[f])
  PROVE  Exact(f, g, s, 0) \/ Stuck(g, s, 0)
<1> DEFINE x == Len(g.encrypted)
           z == Len(s.data)
           o == i * PartSize
<1>1. g.encrypted \in Stream /\ s.data \in Stream /\ s.size \in Nat /\ PartSize \in Nat \ {0} /\ o \in Nat
  BY Constants, MulSuc DEF FileType, SentType
<1>2. x \in Nat /\ z \in Nat
  BY <1>1, StreamEmpty
<1>3. ~s.committed /\ InOrder(f, g.key, Len(g.sums), g.encrypted, s.data, o)
  BY Zenon DEF Exact
<1>4. o <= z /\ o <= x /\ z - o + x = StreamLen(f, Len(g.sums))
  BY <1>3, Zenon DEF InOrder
<1>5. StreamLen(f, Len(g.sums)) = s.size
  BY StreamLenFact DEF Finished, StreamLen
<1>6. CASE i = 0
  <2>1. o = 0
    BY <1>6, Constants
  <2>2. QED
    BY <2>1
<1>7. CASE i # 0
  <2>1. PartSize <= o
    <3>1. 1 <= i
      BY <1>7
    <3>2. 1 * PartSize <= o
      BY <1>1, <3>1, MulMono
    <3>3. QED
      BY <1>1, <3>2
  <2>2. z + x >= s.size + 0 + PartSize
    <3> HIDE DEF x, z, o
    <3>1. z - o + x = s.size
      BY <1>4, <1>5
    <3>2. QED
      BY <1>1, <1>2, <2>1, <3>1, SMT
  <2>3. QED
    BY <1>3, <2>2, Zenon DEF Stuck
<1>8. QED
  BY <1>6, <1>7

LEMMA StuckThrow ==
  ASSUME NEW g \in FileType, NEW s \in SentType, NEW i \in Nat, Stuck(g, s, i * PartSize)
  PROVE  Stuck(g, s, 0)
<1> DEFINE x == Len(g.encrypted)
           z == Len(s.data)
           o == i * PartSize
<1>1. g.encrypted \in Stream /\ s.data \in Stream /\ s.size \in Nat /\ PartSize \in Nat \ {0} /\ o \in Nat
  BY Constants, MulSuc DEF FileType, SentType
<1>2. x \in Nat /\ z \in Nat
  BY <1>1, StreamEmpty
<1>3. ASSUME z + x >= s.size + o + PartSize PROVE z + x >= s.size + 0 + PartSize
  <2> HIDE DEF x, z, o
  <2>1. QED
    BY <1>1, <1>2, <1>3, SMT
<1>4. QED
  BY <1>3, Zenon DEF Stuck

LEMMA DoneThrow ==
  ASSUME NEW f \in Files, NEW g \in FileType, NEW s \in SentType, NEW i \in Nat, NEW bad,
         Done(f, g, s, i * PartSize, bad), s.size = DeclaredSize(FileSize[f])
  PROVE  /\ Done(f, g, s, 0, TRUE)
         /\ \A part \in Stream : PartOf(g.encrypted, i * PartSize, part) /\ ~Fits(g, s, part) =>
              Done(f, g, s, 0, bad) /\ (bad \/ s.committed)
         /\ \A part, t : Fits(g, s, part) /\ SentBy(s, part, t) => Done(f, g, t, 0, TRUE)
<1>1. SumsOK(f, g) /\ Finished(f, g) /\ g.request # None
  BY Zenon DEF Done
<1>2. Exact(f, g, s, i * PartSize) => Exact(f, g, s, 0) \/ Stuck(g, s, 0)
  BY <1>1, ExactStuck, Zenon
<1>3. Stuck(g, s, i * PartSize) => Stuck(g, s, 0)
  BY StuckThrow, Zenon
<1>4. Done(f, g, s, 0, TRUE)
  BY <1>1, <1>2, <1>3, Zenon DEF Done
<1>5. ASSUME NEW part \in Stream, PartOf(g.encrypted, i * PartSize, part), ~Fits(g, s, part)
      PROVE  Done(f, g, s, 0, bad) /\ (bad \/ s.committed)
  <2>1. i * PartSize \in Nat
    BY Constants, MulSuc
  <2>2. ~Exact(f, g, s, i * PartSize)
    BY <1>1, <1>5, <2>1, SentExact, Zenon
  <2>3. Complete(f, g, s) => s.committed
    BY Zenon DEF Complete
  <2>4. QED
    BY <1>1, <1>3, <2>2, <2>3, Zenon DEF Done
<1>6. ASSUME NEW part, NEW t, Fits(g, s, part), SentBy(s, part, t)
      PROVE  Done(f, g, t, 0, TRUE)
  <2>1. s.parts \in Nat /\ s.parts = g.serverSeq /\ ~s.committed /\ t.parts = s.parts + 1 /\ t.committed = s.committed
    BY <1>6 DEF Fits, SentBy, SentType
  <2>2. t.parts # g.serverSeq /\ ~t.committed
    BY <2>1
  <2>3. Stuck(g, t, 0)
    BY <2>2, Zenon DEF Stuck
  <2>4. QED
    BY <1>1, <2>3, Zenon DEF Done
<1>7. QED
  BY <1>4, <1>5, <1>6

-----------------------------------------------------------------------------
(* The last part of a file, and commitFile.                                *)

(* The last part is taken out of the streamer.                             *)
Drained(g, h) ==
  /\ h.key = g.key /\ h.sums = g.sums /\ h.encrypted = <<>> /\ h.serverSeq = g.serverSeq
  /\ h.buf = g.buf /\ h.total = g.total /\ h.uploaded = g.uploaded /\ h.request = g.request

LEMMA EmptyStream == <<>> \in Stream /\ Len(<<>>) = 0
BY EmptySeq DEF Stream

LEMMA LastExact ==
  ASSUME NEW f \in Files, NEW g \in FileType, NEW s \in SentType, SumsOK(f, g), Exact(f, g, s, 0),
         s.size = DeclaredSize(FileSize[f]),
         NEW h, NEW k, Drained(g, h), k.serverSeq = h.serverSeq + 1, k.key = h.key, k.sums = h.sums,
         k.encrypted = h.encrypted, NEW t, SentBy(s, g.encrypted, t)
  PROVE  Exact(f, k, t, 0)
<1> DEFINE enc == g.encrypted
           n == Len(g.sums)
           x == Len(enc)
<1>1. ~s.committed /\ s.parts = g.serverSeq /\ InOrder(f, g.key, n, enc, s.data, 0)
  BY Zenon DEF Exact
<1>2. enc \in Stream /\ s.data \in Stream /\ n \in Nat /\ ChunksOf(f) \in Nat /\ x \in Nat
  BY ChunksFact, StreamEmpty, LenProperties DEF FileType, SentType, Sums
<1>3. n <= ChunksOf(f)
  BY Zenon DEF SumsOK, SumsIn
<1>4. n \in 0..ChunksOf(f)
  BY <1>2, <1>3
<1> HIDE DEF n, enc
<1>5. PartOf(enc, 0, enc)
  <2> HIDE DEF x
  <2>1. 0 + x <= x /\ \A q \in 1..x : 0 + q = q
    BY <1>2
  <2>2. QED
    BY <2>1 DEF PartOf, x
<1>6. InOrder(f, g.key, n, enc, s.data \o enc, 0 + x)
  BY <1>1, <1>2, <1>4, <1>5, InOrderSendPart
<1>7. s.data \o enc \in Stream
  BY <1>2, StreamConcat, Zenon
<1>8. 0 + x \in Nat /\ 0 = x - (0 + x) /\ 1..(x - (0 + x)) = {}
  <2> HIDE DEF x
  <2>1. QED
    BY <1>2
<1>9. InOrder(f, g.key, n, <<>>, s.data \o enc, 0)
  <2> DEFINE d == s.data \o enc
             y == 0 + x
  <2>1. y \in Nat /\ 0 = x - y /\ 1..(x - y) = {} /\ d \in Stream /\ InOrder(f, g.key, n, enc, d, y)
    BY <1>6, <1>7, <1>8
  <2> HIDE DEF d, y
  <2>2. Len(<<>>) = Len(enc) - y /\ \A q \in 1..(Len(enc) - y) : <<>>[q] = enc[y + q]
    BY <2>1, EmptyStream DEF x
  <2> DEFINE rest == <<>>
  <2>3. rest \in Stream /\ Len(rest) = Len(enc) - y /\ \A q \in 1..(Len(enc) - y) : rest[q] = enc[y + q]
    BY <2>2, EmptyStream
  <2> HIDE DEF rest
  <2>4. InOrder(f, g.key, n, rest, d, 0)
    BY <1>2, <2>1, <2>3, InOrderFree
  <2>5. QED
    BY <2>4 DEF rest, d
<1>10. t.data = s.data \o enc /\ t.parts = k.serverSeq /\ ~t.committed /\ k.encrypted = <<>> /\ k.key = g.key
       /\ Len(k.sums) = n
  BY <1>1, Zenon DEF SentBy, Drained, n, enc
<1>11. QED
  BY <1>9, <1>10, Zenon DEF Exact

LEMMA LastSend ==
  ASSUME NEW f \in Files, NEW g \in FileType, NEW s \in SentType, NEW bad, Done(f, g, s, 0, bad),
         g.encrypted # <<>>, Len(g.encrypted) < PartSize,
         s.size = DeclaredSize(FileSize[f]), Len(s.data) <= s.size, NEW h, Drained(g, h)
  PROVE  /\ Done(f, h, s, 0, TRUE)
         /\ ~Fits(g, s, g.encrypted) => bad /\ Done(f, h, s, 0, bad)
         /\ \A t : Fits(g, s, g.encrypted) /\ SentBy(s, g.encrypted, t) => Done(f, h, t, 0, TRUE)
         /\ \A t, k : Fits(g, s, g.encrypted) /\ SentBy(s, g.encrypted, t) /\ Counted(h, k) => Done(f, k, t, 0, bad)
<1> DEFINE x == Len(g.encrypted)
           z == Len(s.data)
           u == s.size
<1>1. SumsOK(f, g) /\ Finished(f, g) /\ g.request # None
  BY Zenon DEF Done
<1>2. SumsOK(f, h) /\ Finished(f, h) /\ h.request # None
  BY <1>1, Zenon DEF Drained, SumsOK, Finished
<1>3. g.encrypted \in Stream /\ s.data \in Stream /\ u \in Nat /\ PartSize \in Nat /\ x \in Nat /\ z \in Nat
  BY StreamEmpty, Constants DEF FileType, SentType
<1>4. x > 0 /\ x < PartSize /\ z <= u
  BY <1>3, StreamEmpty
<1>5. ~Complete(f, g, s)
  BY Zenon DEF Complete
<1>6. ASSUME Stuck(g, s, 0) PROVE s.parts # g.serverSeq
  <2>1. ~(z + x >= u + 0 + PartSize)
    <3> HIDE DEF x, z, u
    <3>1. QED
      BY <1>3, <1>4, SMT
  <2>2. QED
    BY <1>6, <2>1, Zenon DEF Stuck
<1>7. ASSUME Stuck(g, s, 0) PROVE Stuck(h, s, 0) /\ ~Fits(g, s, g.encrypted)
  <2>1. s.parts # h.serverSeq /\ ~s.committed
    BY <1>6, <1>7, Zenon DEF Drained, Stuck
  <2>2. QED
    BY <1>6, <1>7, <2>1, Zenon DEF Stuck, Fits
<1>8. ASSUME Exact(f, g, s, 0) PROVE Stuck(h, s, 0) /\ Fits(g, s, g.encrypted)
  <2>1. ~s.committed /\ InOrder(f, g.key, Len(g.sums), g.encrypted, s.data, 0)
    BY <1>8, Zenon DEF Exact
  <2>2. z - 0 + x = StreamLen(f, Len(g.sums))
    BY <2>1, Zenon DEF InOrder
  <2>3. StreamLen(f, Len(g.sums)) = u
    BY <1>1, StreamLenFact DEF Finished, StreamLen
  <2>4. z < u
    <3>1. z - 0 + x = u
      BY <2>2, <2>3
    <3> HIDE DEF x, z, u
    <3>2. QED
      BY <1>3, <1>4, <3>1, SMT
  <2>5. h.encrypted = <<>>
    BY DEF Drained
  <2>6. Stuck(h, s, 0)
    BY <2>1, <2>4, <2>5, Zenon DEF Stuck
  <2>7. PartOf(g.encrypted, 0, g.encrypted)
    <3>1. 0 + x <= x /\ \A q \in 1..x : 0 + q = q
      <4> HIDE DEF x
      <4>1. QED
        BY <1>3
    <3>2. QED
      BY <3>1 DEF PartOf
  <2>8. QED
    BY <1>1, <1>3, <1>8, <2>6, <2>7, SentExact, Zenon
<1>9. Exact(f, g, s, 0) \/ (bad /\ Stuck(g, s, 0))
  BY <1>5, Zenon DEF Done
<1>10. Done(f, h, s, 0, TRUE)
  BY <1>2, <1>7, <1>8, <1>9, Zenon DEF Done
<1>11. ASSUME ~Fits(g, s, g.encrypted) PROVE bad /\ Done(f, h, s, 0, bad)
  BY <1>2, <1>7, <1>8, <1>9, <1>11, Zenon DEF Done
<1>12. ASSUME NEW t, Fits(g, s, g.encrypted), SentBy(s, g.encrypted, t) PROVE Done(f, h, t, 0, TRUE)
  <2>1. s.parts \in Nat /\ s.parts = g.serverSeq /\ ~s.committed /\ t.parts = s.parts + 1 /\ t.committed = s.committed
    BY <1>12 DEF Fits, SentBy, SentType
  <2>2. t.parts # g.serverSeq /\ ~t.committed /\ h.serverSeq = g.serverSeq
    BY <2>1 DEF Drained
  <2>3. Stuck(h, t, 0)
    BY <2>2, Zenon DEF Stuck
  <2>4. QED
    BY <1>2, <2>3, Zenon DEF Done
<1>13. ASSUME NEW t, NEW k, Fits(g, s, g.encrypted), SentBy(s, g.encrypted, t), Counted(h, k)
       PROVE  Done(f, k, t, 0, bad)
  <2>1. Exact(f, g, s, 0)
    BY <1>7, <1>9, <1>13
  <2>2. k.serverSeq = h.serverSeq + 1 /\ k.key = h.key /\ k.sums = h.sums /\ k.encrypted = h.encrypted
    BY <1>13 DEF Counted
  <2>3. Exact(f, k, t, 0)
    BY <1>1, <1>13, <2>1, <2>2, LastExact, Zenon
  <2>4. SumsOK(f, k) /\ Finished(f, k) /\ k.request # None
    BY <1>2, <1>13, Zenon DEF Counted, SumsOK, Finished
  <2>5. QED
    BY <2>3, <2>4, Zenon DEF Done
<1>14. QED
  BY <1>10, <1>11, <1>12, <1>13

(* commitFile.                                                             *)
CanCommit(g, s) ==
  ~s.committed /\ s.parts = g.serverSeq /\ Len(s.data) = s.size /\ Len(g.sums) = s.chunks

CommitBy(g, s, t) == t.committed /\ t.sums = g.sums /\ t.data = s.data

LEMMA CommitDone ==
  ASSUME NEW f \in Files, NEW g \in FileType, NEW s \in SentType, NEW bad, Done(f, g, s, 0, bad),
         g.encrypted = <<>>, s.size = DeclaredSize(FileSize[f]), s.chunks = ChunksOf(f), Len(s.data) <= s.size
  PROVE  /\ ~CanCommit(g, s) => bad \/ s.committed
         /\ \A t : CanCommit(g, s) /\ CommitBy(g, s, t) => Done(f, g, t, 0, bad)
<1> DEFINE x == Len(g.encrypted)
           z == Len(s.data)
           u == s.size
<1>1. SumsOK(f, g) /\ Finished(f, g) /\ g.request # None
  BY Zenon DEF Done
<1>2. s.data \in Stream /\ u \in Nat /\ PartSize \in Nat \ {0} /\ x = 0 /\ z \in Nat
  BY StreamEmpty, EmptyStream, Constants DEF FileType, SentType
<1>3. Len(g.sums) = s.chunks
  BY <1>1 DEF Finished
<1>4. ASSUME Exact(f, g, s, 0) PROVE CanCommit(g, s) /\ DataOK(f, g, s)
  <2>1. ~s.committed /\ s.parts = g.serverSeq /\ InOrder(f, g.key, Len(g.sums), g.encrypted, s.data, 0)
    BY <1>4, Zenon DEF Exact
  <2>2. z - 0 + x = StreamLen(f, Len(g.sums)) /\ DataIn(f, g.key, s.data)
    BY <2>1, Zenon DEF InOrder
  <2>3. StreamLen(f, Len(g.sums)) = u
    BY <1>1, StreamLenFact DEF Finished, StreamLen
  <2>4. z = u
    <3>1. z - 0 + x = u
      BY <2>2, <2>3
    <3> HIDE DEF x, z, u
    <3>2. QED
      BY <1>2, <3>1, SMT
  <2>5. QED
    BY <1>3, <2>1, <2>2, <2>4, Zenon DEF CanCommit, DataOK
<1>5. ASSUME Stuck(g, s, 0) PROVE ~CanCommit(g, s)
  <2>1. ~(z + x >= u + 0 + PartSize)
    <3> HIDE DEF x, z, u
    <3>1. z <= u
      BY DEF z, u
    <3>2. QED
      BY <1>2, <3>1, SMT
  <2>2. ~(z < u /\ z = u)
    <3> HIDE DEF z, u
    <3>1. QED
      BY <1>2
  <2>3. QED
    BY <1>5, <2>1, <2>2, Zenon DEF Stuck, CanCommit
<1>6. Complete(f, g, s) => s.committed
  BY Zenon DEF Complete
<1>7. Exact(f, g, s, 0) \/ Complete(f, g, s) \/ (bad /\ Stuck(g, s, 0))
  BY Zenon DEF Done
<1>8. ~CanCommit(g, s) => bad \/ s.committed
  BY <1>4, <1>6, <1>7
<1>9. ASSUME NEW t, CanCommit(g, s), CommitBy(g, s, t) PROVE Done(f, g, t, 0, bad)
  <2>1. Exact(f, g, s, 0)
    BY <1>5, <1>6, <1>7, <1>9 DEF CanCommit
  <2>2. t.committed /\ t.sums = g.sums /\ t.data = s.data
    BY <1>9 DEF CommitBy
  <2>3. Len(s.data) = DeclaredSize(FileSize[f])
    BY <1>9 DEF CanCommit
  <2>4. Complete(f, g, t)
    BY <1>4, <2>1, <2>2, <2>3, Zenon DEF Complete, DataOK
  <2>5. QED
    BY <1>1, <2>4, Zenon DEF Done
<1>10. QED
  BY <1>8, <1>9

-----------------------------------------------------------------------------
(* How a request of the call under way ends.                               *)

Thrown(g, w) == [g EXCEPT !.torn = @ \/ w]

LEMMA ThrownFact ==
  ASSUME NEW g \in FileType, NEW w \in BOOLEAN
  PROVE  /\ Alike(g, Thrown(g, w)) /\ Kept(g, Thrown(g, w)) /\ Thrown(g, w) \in FileType
         /\ Thrown(g, w).early = g.early /\ (Thrown(g, w).torn <=> (g.torn \/ w))
<1> DEFINE v == g.torn \/ w
           h == [g EXCEPT !.torn = v]
<1>1. v \in BOOLEAN
  OBVIOUS
<1>2. Thrown(g, w) = h
  BY Zenon DEF Thrown
<1> HIDE DEF v
<1>3. /\ h \in FileType /\ h.torn = v /\ h.early = g.early /\ h.state = g.state /\ h.buf = g.buf /\ h.total = g.total
      /\ h.key = g.key /\ h.request = g.request /\ h.index = g.index /\ h.seq = g.seq /\ h.sums = g.sums
      /\ h.encrypted = g.encrypted /\ h.processed = g.processed /\ h.uploaded = g.uploaded
      /\ h.serverSeq = g.serverSeq /\ h.update = g.update /\ h.began = g.began
  BY <1>1 DEF FileType
<1> HIDE DEF h
<1>4. Alike(g, h) /\ Kept(g, h)
  BY <1>3, Zenon DEF Alike, StreamAlike, Kept
<1>5. QED
  BY <1>2, <1>3, <1>4, Zenon DEF v

Answered(f, after, next, t) ==
  /\ file'[f] = after /\ call' = next /\ outcome' = outcome /\ faulty' = faulty
  /\ Sent(file[f])' = t

LostOn(f, before, takes, t) ==
  /\ call' = Idle /\ file'[f] = Thrown(before, call.op = "write") /\ f \in faulty'
  /\ outcome' = [outcome EXCEPT ![Caller] = "lost"]
  /\ Sent(file[f])' = Sent(file[f]) \/ (takes /\ Sent(file[f])' = t)

RefusedOn(f, before) ==
  /\ call' = Idle /\ file'[f] = Thrown(before, call.op = "write")
  /\ outcome' = [outcome EXCEPT ![Caller] = "refused"]
  /\ Sent(file[f])' = Sent(file[f])

LEMMA ConcernedFact == ASSUME Types, CallHasFile, call # Idle PROVE call.f \in Concerned
<1>1. CASE call.op = "send"
  <2>1. /\ call.e \in Entries /\ entry[call.e].files \in Seq(Files)
        /\ call.at \in 1..Len(entry[call.e].files) /\ call.f = entry[call.e].files[call.at]
    BY <1>1, CallFacts
  <2>2. call.at \in DOMAIN entry[call.e].files
    BY <2>1, LenProperties
  <2>3. QED
    BY <1>1, <2>1, <2>2, Zenon DEF Concerned, Range
<1>2. CASE call.op # "send"
  BY <1>2 DEF Concerned
<1>3. QED
  BY <1>1, <1>2

LEMMA SentPut ==
  ASSUME Types, CallHasFile, NEW f \in Files, file[f].request # None, NEW t \in SentType,
         request' = [request EXCEPT ![file[f].request][file[f].index] = t],
         file'[f].request = file[f].request, file'[f].index = file[f].index
  PROVE  Sent(file[f])' = t
<1> DEFINE r == file[f].request
           i == file[f].index
<1>1. r \in 1..Len(request) /\ i \in 1..Len(request[r]) /\ request \in Seq(Seq(SentType))
  BY SentFact DEF Types
<1>2. Sent(file[f])' = request'[r][i]
  BY DEF Sent
<1> HIDE DEF r, i
<1>3. [request EXCEPT ![r][i] = t][r][i] = t
  BY <1>1, PutSentFact
<1>4. request' = [request EXCEPT ![r][i] = t]
  BY DEF r, i
<1>5. QED
  BY <1>2, <1>3, <1>4

LEMMA RequestCases ==
  ASSUME Types, CallHasFile, call # Idle, NEW f, f = call.f,
         NEW takes \in BOOLEAN, NEW lost \in Losses, NEW t,
         NEW before \in FileType, NEW after \in FileType, NEW next,
         Kept(file[f], before), Kept(file[f], after),
         takes => file[f].request # None /\ t \in SentType,
         Request(takes, lost, t, before, after, next)
  PROVE  (takes /\ Answered(f, after, next, t)) \/ LostOn(f, before, takes, t) \/ (~takes /\ RefusedOn(f, before))
<1>1. f \in Files /\ file \in [Files -> FileType] /\ file[f] \in FileType
  BY CallFacts DEF Types
<1>2. before.request = file[f].request /\ before.index = file[f].index
  BY DEF Kept
<1>3. request' = IF takes /\ lost # "request"
                 THEN [request EXCEPT ![file[f].request][file[f].index] = t] ELSE request
  BY <1>2, Zenon DEF Request
<1>4. ASSUME takes, lost # "request", file'[f].request = file[f].request, file'[f].index = file[f].index
      PROVE  Sent(file[f])' = t
  <2>1. request' = [request EXCEPT ![file[f].request][file[f].index] = t]
    BY <1>3, <1>4
  <2>2. QED
    BY <1>1, <1>4, <2>1, SentPut
<1>5. ASSUME ~takes \/ lost = "request", file'[f].request = file[f].request, file'[f].index = file[f].index
      PROVE  Sent(file[f])' = Sent(file[f])
  <2>1. request' = request
    BY <1>3, <1>5
  <2>2. QED
    BY <1>5, <2>1 DEF Sent
<1>6. CASE takes /\ lost = "no" /\ Continue(after, next)
  <2>1. file'[f] = after /\ call' = next /\ outcome' = outcome
    BY <1>1, <1>6 DEF Continue
  <2>2. faulty' = faulty
    BY <1>6 DEF Request, CountLoss
  <2>3. file'[f].request = file[f].request /\ file'[f].index = file[f].index
    BY <2>1, Zenon DEF Kept
  <2>4. Sent(file[f])' = t
    BY <1>4, <1>6, <2>3
  <2>5. QED
    BY <1>6, <2>1, <2>2, <2>4 DEF Answered
<1>7. CASE (~takes \/ lost # "no") /\ Throw(before, IF lost = "no" THEN "refused" ELSE "lost")
  <2>1. call' = Idle /\ outcome' = [outcome EXCEPT ![Caller] = IF lost = "no" THEN "refused" ELSE "lost"]
    BY <1>7 DEF Throw
  <2>2. file'[f] = Thrown(before, call.op = "write")
    BY <1>1, <1>7 DEF Throw, Thrown
  <2>3. Kept(before, file'[f])
    BY <2>2, ThrownFact
  <2>4. file'[f].request = file[f].request /\ file'[f].index = file[f].index
    BY <1>2, <2>3, Zenon DEF Kept
  <2>5. CASE lost = "no"
    <3>1. outcome' = [outcome EXCEPT ![Caller] = "refused"]
      BY <2>1, <2>5
    <3>2. ~takes /\ Sent(file[f])' = Sent(file[f])
      BY <1>5, <1>7, <2>4, <2>5
    <3>3. QED
      BY <2>1, <2>2, <3>1, <3>2 DEF RefusedOn
  <2>6. CASE lost # "no"
    <3>1. outcome' = [outcome EXCEPT ![Caller] = "lost"]
      BY <2>1, <2>6
    <3>2. f \in faulty'
      BY <2>6, ConcernedFact DEF Request, CountLoss
    <3>3. Sent(file[f])' = Sent(file[f]) \/ (takes /\ Sent(file[f])' = t)
      BY <1>4, <1>5, <2>4
    <3>4. QED
      BY <2>1, <2>2, <3>1, <3>2, <3>3 DEF LostOn
  <2>7. QED
    BY <2>5, <2>6
<1>8. QED
  BY <1>6, <1>7, Zenon DEF Request
-----------------------------------------------------------------------------
(* Steps of the call on its file.                                          *)

Refusals == {"refused", "smaller", "size", "handle"}

Mild == outcome' = outcome \/ \E x \in Outcomes \ Refusals : outcome' = [outcome EXCEPT ![Caller] = x]

Fine(f) == ~file[f].early /\ ~file[f].torn /\ Good(f, file[f], Sent(file[f]), call, f \in faulty)

(* A file that is well stays well, is left half written only by a loss,    *)
(* and is refused only after one or when it is committed already.          *)
KeepsGood(f) ==
  ~file'[f].torn /\ ~file'[f].early => Good(f, file'[f], Sent(file[f])', call', f \in faulty')

StepGood(f) ==
  /\ file[f].torn => file'[f].torn
  /\ Fine(f) => /\ KeepsGood(f)
                /\ file'[f].torn => f \in faulty'
                /\ \/ Mild \/ f \in faulty' \/ call.pc \in {"sendFile", "send"}
                   \/ call.op # "write" /\ Sent(file[f]).committed

LEMMA ReadyGood ==
  ASSUME NEW f, NEW g, NEW s, NEW c, NEW bad, Ready(f, g, s, bad), c.f # f \/ c.pc = "finalize"
  PROVE  Good(f, g, s, c, bad)
BY Zenon DEF Good

LEMMA DoneGood ==
  ASSUME NEW f, NEW g, NEW s, NEW c, NEW bad, Done(f, g, s, c.part * PartSize, bad), c.f = f, c.op # "write",
         c.pc \notin {"finalize", "write"}, c.pc = "last" => Len(g.encrypted) < PartSize
  PROVE  Good(f, g, s, c, bad)
BY Zenon DEF Good

LEMMA DoneReady ==
  ASSUME NEW f, NEW g, NEW s, NEW bad, NEW bad2, Done(f, g, s, 0, bad), bad => bad2
  PROVE  Ready(f, g, s, bad2) /\ Done(f, g, s, 0, bad2)
BY Zenon DEF Ready, Done

LEMMA EndGood ==
  ASSUME NEW f \in Files, NEW g \in FileType, NEW w \in BOOLEAN, NEW s, NEW bad, Done(f, g, s, 0, bad),
         bad => f \in faulty', call' = Idle, file'[f] = Thrown(g, w), Sent(file[f])' = s
  PROVE  KeepsGood(f)
<1>1. Ready(f, g, s, f \in faulty')
  BY Zenon DEF Ready, Done
<1>2. Alike(g, file'[f])
  BY ThrownFact
<1>3. Ready(f, file'[f], s, f \in faulty')
  BY <1>1, <1>2, AlikeSame, Zenon
<1>4. call'.f # f
  BY IdleFacts, Constants
<1>5. QED
  BY <1>3, <1>4, ReadyGood, Zenon DEF KeepsGood

LEMMA ThrownWhole ==
  ASSUME NEW g \in FileType, NEW w \in BOOLEAN, NEW h, h = Thrown(g, w), ~g.torn, ~w PROVE ~h.torn
BY ThrownFact, Zenon

LEMMA LostMild == ASSUME outcome' = [outcome EXCEPT ![Caller] = "lost"] PROVE Mild
<1>1. "lost" \in Outcomes \ Refusals
  BY DEF Outcomes, Refusals
<1>2. QED
  BY <1>1, Zenon DEF Mild

LEMMA SizesOf ==
  ASSUME UploadInv, NEW f \in Files, file[f].request # None
  PROVE  /\ Sent(file[f]) \in SentType /\ Sent(file[f]).size = DeclaredSize(FileSize[f])
         /\ Sent(file[f]).chunks = ChunksOf(f) /\ Len(Sent(file[f]).data) <= Sent(file[f]).size
<1>1. Types /\ CallHasFile /\ PlacesInv
  BY DEF UploadInv
<1>2. Sent(file[f]) \in SentType
  BY <1>1, SentFact, Zenon
<1>3. QED
  BY <1>1, <1>2, Zenon DEF PlacesInv, ChunksOf

LEMMA CallRequest ==
  ASSUME UploadInv, KeyInv, call # Idle, call.op # "write"
  PROVE  file[call.f].request # None
<1>1. Types /\ CallHasFile /\ PlacesInv /\ ListsInv
  BY DEF UploadInv
<1>2. CallShape(call) /\ call.op \in {"write", "close", "send"}
  BY <1>1, CallFacts
<1>3. CASE call.op = "close"
  <2>1. call.f \in StoreFiles
    BY <1>2, <1>3 DEF CallShape
  <2>2. file[call.f].state # "none"
    BY <1>3 DEF KeyInv
  <2>3. QED
    BY <1>1, <2>1, <2>2, Zenon DEF PlacesInv
<1>4. CASE call.op = "send"
  <2>1. /\ call.e \in Entries /\ entry[call.e].files \in Seq(Files)
        /\ call.at \in 1..Len(entry[call.e].files) /\ call.f = entry[call.e].files[call.at]
    BY <1>1, <1>4, CallFacts
  <2>2. call.at \in DOMAIN entry[call.e].files
    BY <2>1, LenProperties
  <2>3. QED
    BY <1>1, <2>1, <2>2, Zenon DEF ListsInv
<1>5. QED
  BY <1>2, <1>3, <1>4

LEMMA WorkFaulty == ASSUME UploadInv, Work PROVE faulty \subseteq faulty'
BY WorkEffect DEF UploadInv, Effect

(* The streamer counts a part that was taken.                              *)
LEMMA CountedIs ==
  ASSUME NEW g \in FileType
  PROVE  LET h == [g EXCEPT !.serverSeq = @ + 1]
         IN h \in FileType /\ Counted(g, h) /\ Kept(g, h) /\ h.torn = g.torn /\ h.early = g.early
<1> DEFINE v == g.serverSeq + 1
           h == [g EXCEPT !.serverSeq = v]
<1>1. v \in Nat
  BY DEF FileType
<1>2. v = g.serverSeq + 1
  OBVIOUS
<1> HIDE DEF v
<1>3. /\ h \in FileType /\ h.torn = g.torn /\ h.early = g.early /\ h.state = g.state /\ h.buf = g.buf
      /\ h.total = g.total
      /\ h.key = g.key /\ h.request = g.request /\ h.index = g.index /\ h.seq = g.seq /\ h.sums = g.sums
      /\ h.encrypted = g.encrypted /\ h.processed = g.processed /\ h.uploaded = g.uploaded
      /\ h.serverSeq = v /\ h.update = g.update /\ h.began = g.began
  BY <1>1 DEF FileType
<1> HIDE DEF h
<1>4. Counted(g, h) /\ Kept(g, h)
  BY <1>2, <1>3, Zenon DEF Counted, Kept
<1>5. QED
  BY <1>3, <1>4, Zenon DEF h, v

LEMMA SentByIs ==
  ASSUME NEW s \in SentType, NEW data \in Stream
  PROVE  LET t == [s EXCEPT !.data = @ \o data, !.parts = @ + 1]
         IN t \in SentType /\ SentBy(s, data, t)
<1>1. s.data \o data \in Stream
  BY StreamConcat DEF SentType
<1>2. QED
  BY <1>1, SentRecord, Zenon DEF SentBy

(* What sending a part makes of a file, before it is said which part.      *)
LEMMA SendCases ==
  ASSUME UploadInv, call # Idle, NEW f, f = call.f, NEW lost \in Losses,
         NEW g \in FileType, Kept(file[f], g), NEW part \in Stream, NEW next,
         SendChunkToServer(g, part, lost, next)
  PROVE  LET s == Sent(file[f])
             t == [s EXCEPT !.data = @ \o part, !.parts = @ + 1]
             h == [g EXCEPT !.serverSeq = @ + 1]
             takes == g.request # None /\ Fits(g, s, part)
         IN /\ takes => s \in SentType /\ t \in SentType /\ SentBy(s, part, t)
            /\ (takes /\ Answered(f, h, next, t)) \/ LostOn(f, g, takes, t) \/ (~takes /\ RefusedOn(f, g))
<1> DEFINE s == Sent(file[f])
           t == [s EXCEPT !.data = @ \o part, !.parts = @ + 1]
           h == [g EXCEPT !.serverSeq = @ + 1]
           takes == g.request # None /\ Fits(g, s, part)
<1>1. Types /\ CallHasFile
  BY DEF UploadInv
<1>2. f \in Files /\ file[f] \in FileType
  BY <1>1, CallFacts
<1>3. g.request = file[f].request /\ g.index = file[f].index
  BY DEF Kept
<1>4. Sent(g) = s
  BY <1>3 DEF Sent
<1>5. TakesChunk(g, part) <=> takes
  BY <1>4, Zenon DEF TakesChunk, Fits
<1>6. h \in FileType /\ Kept(g, h)
  BY CountedIs, Zenon
<1>7. Kept(file[f], h)
  BY <1>6, KeptTransitive, Zenon
<1>8. ASSUME takes PROVE s \in SentType /\ t \in SentType /\ SentBy(s, part, t) /\ file[f].request # None
  <2>1. file[f].request # None
    BY <1>3, <1>8
  <2>2. s \in SentType
    BY <1>1, <1>2, <2>1, SentFact
  <2> HIDE DEF s
  <2>3. QED
    BY <2>1, <2>2, SentByIs, Zenon
<1>9. Request(TakesChunk(g, part), lost, t, g, h, next)
  BY <1>4, Zenon DEF SendChunkToServer
<1>10. TakesChunk(g, part) \in BOOLEAN
  BY DEF TakesChunk
<1> DEFINE b == TakesChunk(g, part)
<1>11. b \in BOOLEAN /\ (b <=> takes) /\ Request(b, lost, t, g, h, next)
  BY <1>5, <1>9, <1>10
<1> HIDE DEF b, t, h, takes, s
<1>12. (b /\ Answered(f, h, next, t)) \/ LostOn(f, g, b, t) \/ (~b /\ RefusedOn(f, g))
  BY <1>1, <1>6, <1>7, <1>8, <1>11, RequestCases
<1>13. (takes /\ Answered(f, h, next, t)) \/ LostOn(f, g, takes, t) \/ (~takes /\ RefusedOn(f, g))
  BY <1>11, <1>12, Zenon DEF LostOn
<1>14. QED
  BY <1>8, <1>13, Zenon DEF s, t, h, takes

LEMMA WritePartOpen ==
  ASSUME UploadInv, NEW f \in Files, f = call.f, Fine(f), call.op = "write", call.pc = "parts"
  PROVE  /\ file[f].request # None /\ call.length = ChunkSize
         /\ Open(f, file[f], Sent(file[f]), call.chunk * ChunkSize, 1, call.part * PartSize)
<1> DEFINE g == file[f]
<1>1. Open(f, g, Sent(g), call.chunk * ChunkSize, 1, call.part * PartSize) /\ call.length = ChunkSize
  BY Zenon DEF Fine, Good
<1>2. g \in FileType
  BY DEF UploadInv, Types
<1>3. ASSUME Untouched(g) PROVE FALSE
  <2>1. g.sums = <<>> /\ g.seq = 0
    BY <1>3 DEF Untouched
  <2>2. Len(g.sums) = g.seq + 1
    BY <1>1, Zenon DEF Open, Writing
  <2>3. Len(g.sums) = 0
    BY <2>1, EmptyStream
  <2>4. QED
    BY <2>1, <2>2, <2>3
<1>4. QED
  BY <1>1, <1>3, Zenon DEF Open

LEMMA SendPartGood ==
  ASSUME UploadInv, KeyInv, NEW f, f = call.f, NEW lost \in Losses, SendPart(lost)
  PROVE  StepGood(f)
<1> DEFINE g == file[f]
           s == Sent(g)
           part == GetFullChunk(g.encrypted, PartSize, call.part)
           next == [call EXCEPT !.part = @ + 1]
           t == [s EXCEPT !.data = @ \o part, !.parts = @ + 1]
           h == [g EXCEPT !.serverSeq = @ + 1]
           takes == g.request # None /\ Fits(g, s, part)
<1>0. PICK bad \in BOOLEAN : bad = (f \in faulty)
  <2> DEFINE b == f \in faulty
  <2> WITNESS b \in BOOLEAN
  <2> QED
    OBVIOUS
<1>1. call.pc = "parts" /\ call.part < NumberOfFullChunks(g.encrypted, PartSize)
      /\ SendChunkToServer(g, part, lost, next)
  BY DEF SendPart
<1>2. call # Idle /\ Types /\ CallHasFile
  BY <1>1, IdleFacts DEF UploadInv
<1>3. f \in Files /\ g \in FileType /\ call \in CallType /\ call.part \in Nat /\ g.encrypted \in Stream
  BY <1>2, CallFacts DEF CallType, FileType
<1>4. part \in Stream /\ PartOf(g.encrypted, call.part * PartSize, part)
  BY <1>1, <1>3, FullPart, Zenon
<1>5. Kept(g, g)
  BY DEF Kept
<1>6. /\ takes => s \in SentType /\ t \in SentType /\ SentBy(s, part, t)
      /\ (takes /\ Answered(f, h, next, t)) \/ LostOn(f, g, takes, t) \/ (~takes /\ RefusedOn(f, g))
  <2> DEFINE q == part
             nx == next
  <2>1. q \in Stream /\ SendChunkToServer(g, q, lost, nx) /\ Kept(file[f], g)
    BY <1>1, <1>4, <1>5
  <2>2. q = part /\ nx = next
    OBVIOUS
  <2> HIDE DEF q, nx
  <2>3. LET t2 == [s EXCEPT !.data = @ \o q, !.parts = @ + 1]
            takes2 == g.request # None /\ Fits(g, s, q)
        IN /\ takes2 => s \in SentType /\ t2 \in SentType /\ SentBy(s, q, t2)
           /\ (takes2 /\ Answered(f, h, nx, t2)) \/ LostOn(f, g, takes2, t2) \/ (~takes2 /\ RefusedOn(f, g))
    BY <1>2, <1>3, <2>1, SendCases, Zenon
  <2>4. QED
    BY <2>2, <2>3
<1>7. h \in FileType /\ Counted(g, h) /\ h.torn = g.torn /\ h.early = g.early
  BY <1>3, CountedIs, Zenon
<1>8. next.f = f /\ next.op = call.op /\ next.pc = "parts" /\ next.part = call.part + 1 /\ next.chunk = call.chunk
      /\ next.length = call.length
  BY <1>1, <1>3, NextPart, Zenon
<1>9. faulty \subseteq faulty'
  BY WorkFaulty DEF Work
<1>10. (call.op = "write") \in BOOLEAN
  OBVIOUS
<1> HIDE DEF part, next, t, h
<1>11. g.torn => file'[f].torn
  <2>1. ASSUME file'[f] = Thrown(g, call.op = "write") PROVE g.torn => file'[f].torn
    BY <1>3, <1>10, <2>1, ThrownFact, Zenon
  <2>2. QED
    BY <1>6, <1>7, <2>1, Zenon DEF Answered, LostOn, RefusedOn
<1>12. ASSUME Fine(f), call.op = "write"
       PROVE  /\ KeepsGood(f) /\ (file'[f].torn => f \in faulty') /\ (Mild \/ f \in faulty')
  <2>1. /\ g.request # None /\ call.length = ChunkSize
        /\ Open(f, g, s, call.chunk * ChunkSize, 1, call.part * PartSize)
    BY <1>1, <1>3, <1>12, WritePartOpen, Zenon
  <2>2. s \in SentType /\ s.size = DeclaredSize(FileSize[f])
    BY <1>3, <2>1, SizesOf
  <2>3. /\ Fits(g, s, part)
        /\ \A h2, t2 : Counted(g, h2) /\ SentBy(s, part, t2) =>
             Open(f, h2, t2, call.chunk * ChunkSize, 1, (call.part + 1) * PartSize)
    BY <1>1, <1>3, <2>1, <2>2, OpenSend, Zenon DEF part
  <2>4. takes
    BY <2>1, <2>3
  <2>5. CASE Answered(f, h, next, t)
    <3>1. Open(f, h, t, next.chunk * ChunkSize, 1, next.part * PartSize)
      BY <1>6, <1>7, <1>8, <2>3, <2>4
    <3>2. Good(f, h, t, next, f \in faulty')
      BY <1>8, <1>12, <2>1, <3>1, Zenon DEF Good
    <3>3. QED
      BY <1>7, <1>12, <2>5, <3>2 DEF KeepsGood, Answered, Mild, Fine
  <2>6. CASE LostOn(f, g, takes, t)
    <3>1. f \in faulty' /\ file'[f].torn
      BY <1>3, <1>10, <1>12, <2>6, ThrownFact, Zenon DEF LostOn
    <3>2. QED
      BY <3>1, Zenon DEF KeepsGood
  <2>7. QED
    BY <1>6, <2>4, <2>5, <2>6
<1>13. ASSUME Fine(f), call.op # "write"
       PROVE  /\ KeepsGood(f) /\ (file'[f].torn => f \in faulty') /\ (Mild \/ f \in faulty' \/ s.committed)
  <2>1. g.request # None /\ Done(f, g, s, call.part * PartSize, bad)
    <3>1. g.request # None
      BY <1>2, <1>13, CallRequest
    <3>2. Done(f, g, s, call.part * PartSize, f \in faulty)
      BY <1>1, <1>13, Zenon DEF Fine, Good
    <3>3. QED
      BY <1>0, <3>1, <3>2
  <2>2. s \in SentType /\ s.size = DeclaredSize(FileSize[f])
    BY <1>3, <2>1, SizesOf
  <2>9. bad => f \in faulty'
    BY <1>0, <1>9
  <2>3. /\ Done(f, g, s, 0, TRUE)
        /\ ~Fits(g, s, part) => Done(f, g, s, 0, bad) /\ (bad \/ s.committed)
        /\ Fits(g, s, part) /\ SentBy(s, part, t) => Done(f, g, t, 0, TRUE)
    <3>1. /\ Done(f, g, s, 0, TRUE)
          /\ \A p \in Stream : PartOf(g.encrypted, call.part * PartSize, p) /\ ~Fits(g, s, p) =>
               Done(f, g, s, 0, bad) /\ (bad \/ s.committed)
          /\ \A p, u : Fits(g, s, p) /\ SentBy(s, p, u) => Done(f, g, u, 0, TRUE)
      BY <1>3, <2>1, <2>2, DoneThrow, Zenon
    <3>2. QED
      BY <1>4, <3>1, Zenon
  <2>4. ASSUME file'[f] = Thrown(g, call.op = "write") PROVE ~file'[f].torn
    <3>1. ~g.torn
      BY <1>13 DEF Fine
    <3>2. QED
      BY <1>3, <1>10, <1>13, <2>4, <3>1, ThrownWhole, Zenon
  <2>5. CASE takes /\ Answered(f, h, next, t)
    <3>1. Done(f, h, t, next.part * PartSize, bad)
      BY <1>1, <1>3, <1>6, <1>7, <1>8, <2>1, <2>2, <2>5, DoneSend, Zenon DEF part
    <3>2. Good(f, h, t, next, bad)
      BY <1>8, <1>13, <3>1, DoneGood, Zenon
    <3>3. QED
      BY <1>0, <1>7, <1>13, <2>5, <3>2 DEF KeepsGood, Answered, Mild, Fine
  <2>6. CASE LostOn(f, g, takes, t)
    <3>1. f \in faulty' /\ call' = Idle /\ file'[f] = Thrown(g, call.op = "write")
          /\ (Sent(file[f])' = s \/ (takes /\ Sent(file[f])' = t))
      BY <2>6 DEF LostOn
    <3>2. KeepsGood(f)
      BY <1>3, <1>6, <1>10, <2>3, <3>1, EndGood, Zenon
    <3>3. QED
      BY <2>4, <3>1, <3>2
  <2>7. CASE ~takes /\ RefusedOn(f, g)
    <3>1. call' = Idle /\ file'[f] = Thrown(g, call.op = "write") /\ Sent(file[f])' = s
      BY <2>7 DEF RefusedOn
    <3>2. Done(f, g, s, 0, bad) /\ (bad \/ s.committed)
      BY <2>1, <2>3, <2>7
    <3>3. KeepsGood(f)
      BY <1>3, <1>10, <2>9, <3>1, <3>2, EndGood, Zenon
    <3>4. QED
      BY <2>4, <2>9, <3>1, <3>2, <3>3
  <2>8. QED
    BY <1>6, <2>5, <2>6, <2>7
<1>14. QED
  BY <1>11, <1>12, <1>13, Zenon DEF StepGood

LEMMA DrainedIs ==
  ASSUME NEW g \in FileType
  PROVE  LET h == [g EXCEPT !.encrypted = <<>>]
         IN h \in FileType /\ Drained(g, h) /\ Kept(g, h) /\ h.torn = g.torn /\ h.early = g.early
<1> DEFINE v == <<>>
           h == [g EXCEPT !.encrypted = v]
<1>1. v \in Stream /\ v = <<>>
  BY EmptyStream
<1> HIDE DEF v
<1>3. /\ h \in FileType /\ h.torn = g.torn /\ h.early = g.early /\ h.state = g.state /\ h.buf = g.buf
      /\ h.total = g.total
      /\ h.key = g.key /\ h.request = g.request /\ h.index = g.index /\ h.seq = g.seq /\ h.sums = g.sums
      /\ h.encrypted = v /\ h.processed = g.processed /\ h.uploaded = g.uploaded
      /\ h.serverSeq = g.serverSeq /\ h.update = g.update /\ h.began = g.began
  BY <1>1 DEF FileType
<1> HIDE DEF h
<1>4. Drained(g, h) /\ Kept(g, h)
  BY <1>1, <1>3, Zenon DEF Drained, Kept
<1>5. QED
  BY <1>3, <1>4, Zenon DEF h, v

LEMMA LastOp ==
  ASSUME Types, CallHasFile, call.pc \in {"finalize", "check", "last", "fetch", "sendFile", "release", "send"}
  PROVE  /\ call # Idle /\ call.op \in {"close", "send"} /\ call.op # "write" /\ call.part = 0
         /\ (call.op = "write") = FALSE
BY IdleFacts DEF CallHasFile, CallShape, PartsShape

LEMMA LastState ==
  ASSUME UploadInv, KeyInv, NEW f \in Files, f = call.f, Fine(f),
         call.pc \in {"check", "last", "fetch", "sendFile", "release", "send"}, NEW bad, bad = (f \in faulty)
  PROVE  /\ file[f].request # None /\ Done(f, file[f], Sent(file[f]), 0, bad)
         /\ call.pc = "last" => Len(file[f].encrypted) < PartSize
<1>1. Types /\ CallHasFile
  BY DEF UploadInv
<1>2. call # Idle /\ call.op # "write" /\ call.part = 0 /\ call.pc # "finalize"
  BY <1>1, LastOp
<1>3. 0 * PartSize = 0
  BY Constants
<1>4. /\ Done(f, file[f], Sent(file[f]), call.part * PartSize, f \in faulty)
      /\ call.pc = "last" => Len(file[f].encrypted) < PartSize
  BY <1>2, Zenon DEF Fine, Good
<1>5. QED
  BY <1>2, <1>3, <1>4, CallRequest

LEMMA SendLastGood ==
  ASSUME UploadInv, KeyInv, NEW f, f = call.f, NEW lost \in Losses, SendLast(lost)
  PROVE  StepGood(f)
<1> DEFINE g == file[f]
           s == Sent(g)
           part == g.encrypted
           e == [g EXCEPT !.encrypted = <<>>]
           t == [s EXCEPT !.data = @ \o part, !.parts = @ + 1]
           h == [e EXCEPT !.serverSeq = @ + 1]
           takes == e.request # None /\ Fits(e, s, part)
<1>0. PICK bad \in BOOLEAN : bad = (f \in faulty)
  <2> DEFINE b == f \in faulty
  <2> WITNESS b \in BOOLEAN
  <2> QED
    OBVIOUS
<1>1. call.pc = "last" /\ g.encrypted # <<>> /\ SendChunkToServer(e, part, lost, call)
  BY DEF SendLast
<1>2. Types /\ CallHasFile
  BY DEF UploadInv
<1>3. call # Idle /\ call.op # "write" /\ call.part = 0 /\ (call.op = "write") = FALSE
  BY <1>1, <1>2, LastOp
<1>4. f \in Files /\ g \in FileType /\ call \in CallType /\ part \in Stream
  BY <1>2, <1>3, CallFacts DEF CallType, FileType
<1>5. e \in FileType /\ Drained(g, e) /\ Kept(g, e) /\ e.torn = g.torn /\ e.early = g.early
  BY <1>4, DrainedIs, Zenon
<1> HIDE DEF e
<1>6. /\ takes => s \in SentType /\ t \in SentType /\ SentBy(s, part, t)
      /\ (takes /\ Answered(f, h, call, t)) \/ LostOn(f, e, takes, t) \/ (~takes /\ RefusedOn(f, e))
  <2> DEFINE q == part
  <2>1. q \in Stream /\ SendChunkToServer(e, q, lost, call) /\ Kept(file[f], e)
    BY <1>1, <1>4, <1>5
  <2>2. q = part
    OBVIOUS
  <2> HIDE DEF q
  <2>3. LET t2 == [s EXCEPT !.data = @ \o q, !.parts = @ + 1]
            takes2 == e.request # None /\ Fits(e, s, q)
        IN /\ takes2 => s \in SentType /\ t2 \in SentType /\ SentBy(s, q, t2)
           /\ (takes2 /\ Answered(f, h, call, t2)) \/ LostOn(f, e, takes2, t2) \/ (~takes2 /\ RefusedOn(f, e))
    BY <1>3, <1>5, <2>1, SendCases, Zenon
  <2>4. QED
    BY <2>2, <2>3
<1>7. h \in FileType /\ Counted(e, h) /\ h.torn = e.torn /\ h.early = e.early
  BY <1>5, CountedIs, Zenon
<1>9. faulty \subseteq faulty'
  BY WorkFaulty DEF Work
<1> HIDE DEF t, h
<1>11. g.torn => file'[f].torn
  <2>1. ASSUME file'[f] = Thrown(e, call.op = "write") PROVE g.torn => file'[f].torn
    BY <1>3, <1>5, <2>1, ThrownFact, Zenon
  <2>2. QED
    BY <1>5, <1>6, <1>7, <2>1, Zenon DEF Answered, LostOn, RefusedOn
<1>12. Fits(e, s, part) <=> Fits(g, s, part)
  BY <1>5, Zenon DEF Drained, Fits
<1>13. ASSUME Fine(f)
       PROVE  /\ KeepsGood(f) /\ (file'[f].torn => f \in faulty') /\ (Mild \/ f \in faulty' \/ s.committed)
  <2>1. g.request # None /\ Done(f, g, s, 0, bad) /\ Len(g.encrypted) < PartSize
    BY <1>0, <1>1, <1>4, <1>13, LastState
  <2>2. s \in SentType /\ s.size = DeclaredSize(FileSize[f]) /\ Len(s.data) <= s.size
    BY <1>4, <2>1, SizesOf
  <2>9. bad => f \in faulty'
    BY <1>0, <1>9
  <2>3. /\ Done(f, e, s, 0, TRUE)
        /\ ~Fits(g, s, part) => bad /\ Done(f, e, s, 0, bad)
        /\ Fits(g, s, part) /\ SentBy(s, part, t) => Done(f, e, t, 0, TRUE)
        /\ Fits(g, s, part) /\ SentBy(s, part, t) => Done(f, h, t, 0, bad)
    BY <1>1, <1>4, <1>5, <1>7, <2>1, <2>2, LastSend, Zenon
  <2>4. ASSUME file'[f] = Thrown(e, call.op = "write") PROVE ~file'[f].torn
    <3>1. ~e.torn
      BY <1>5, <1>13 DEF Fine
    <3>2. QED
      BY <1>3, <1>5, <2>4, <3>1, ThrownWhole, Zenon
  <2>5. CASE takes /\ Answered(f, h, call, t)
    <3>1. Done(f, h, t, 0, bad)
      BY <1>6, <1>12, <2>3, <2>5
    <3>2. Done(f, h, t, call.part * PartSize, bad)
      <4>1. call.part * PartSize = 0
        BY <1>3, Constants
      <4>2. QED
        BY <3>1, <4>1
    <3>3. h.encrypted = <<>>
      BY <1>5, <1>7 DEF Counted, Drained
    <3>4. Len(h.encrypted) < PartSize
      BY <3>3, EmptyStream, Constants
    <3>5. Good(f, h, t, call, bad)
      BY <1>1, <1>3, <3>2, <3>4, DoneGood, Zenon
    <3>6. QED
      BY <1>0, <1>5, <1>7, <1>13, <2>5, <3>5 DEF KeepsGood, Answered, Mild, Fine
  <2>6. CASE LostOn(f, e, takes, t)
    <3>1. f \in faulty' /\ call' = Idle /\ file'[f] = Thrown(e, call.op = "write")
          /\ (Sent(file[f])' = s \/ (takes /\ Sent(file[f])' = t))
      BY <2>6 DEF LostOn
    <3>2. KeepsGood(f)
      BY <1>3, <1>4, <1>5, <1>6, <1>12, <2>3, <3>1, EndGood, Zenon
    <3>3. QED
      BY <2>4, <3>1, <3>2
  <2>7. CASE ~takes /\ RefusedOn(f, e)
    <3>1. call' = Idle /\ file'[f] = Thrown(e, call.op = "write") /\ Sent(file[f])' = s
      BY <2>7 DEF RefusedOn
    <3>2. bad /\ Done(f, e, s, 0, bad)
      BY <1>5, <1>12, <2>1, <2>3, <2>7 DEF Kept
    <3>3. KeepsGood(f)
      BY <1>3, <1>4, <1>5, <2>9, <3>1, <3>2, EndGood, Zenon
    <3>4. QED
      BY <2>4, <2>9, <3>1, <3>2, <3>3
  <2>8. QED
    BY <1>6, <2>5, <2>6, <2>7
<1>14. QED
  BY <1>3, <1>11, <1>13, Zenon DEF StepGood

(* Where the call goes on after a file that is committed.                  *)
LEMMA CommittedPlace ==
  ASSUME Types, CallHasFile, call.pc = "last"
  PROVE  /\ Committed.op = call.op /\ Committed.op # "write"
         /\ Committed.pc = "finalize" \/ (Committed.f = call.f /\ Committed.part = 0
                                          /\ Committed.pc \in {"fetch", "sendFile", "release"})
<1>1. call # Idle /\ call.op # "write" /\ call.part = 0 /\ call.op \in {"close", "send"}
  BY LastOp
<1>2. /\ Committed \in CallType /\ CallShape(Committed) /\ Committed.op = call.op
      /\ Committed.pc \in {"fetch", "sendFile", "release", "finalize"}
  BY CommittedFact
<1>3. Committed.pc # "finalize" => Committed.part = 0
  <2>1. Committed # Idle
    BY <1>2, IdleFacts
  <2>2. QED
    BY <1>2, <2>1 DEF CallShape, PartsShape
<1>4. Committed.pc # "finalize" => Committed.f = call.f
  <2>1. call \in CallType
    BY DEF Types
  <2> DEFINE go == [call EXCEPT !.length = 0, !.after = "none"]
  <2>2. go.f = call.f /\ go \in CallType
    BY <2>1 DEF CallType
  <2> HIDE DEF go
  <2>3. [go EXCEPT !.pc = "fetch"].f = call.f /\ [go EXCEPT !.pc = "release"].f = call.f
        /\ \A k : [go EXCEPT !.pc = "sendFile", !.keyId = k].f = call.f
    BY <2>2 DEF CallType
  <2>4. \A n, x : [go EXCEPT !.pc = "finalize", !.at = n, !.f = x].pc = "finalize"
    BY <2>2 DEF CallType
  <2>5. \/ Committed = [go EXCEPT !.pc = "fetch"]
        \/ Committed = [go EXCEPT !.pc = "sendFile", !.keyId = cachedKey]
        \/ Committed = [go EXCEPT !.pc = "release"]
        \/ Committed = [go EXCEPT !.pc = "finalize", !.at = go.at + 1, !.f = entry[call.e].files[call.at + 1]]
    BY Zenon DEF Committed, go
  <2>6. CASE Committed = [go EXCEPT !.pc = "finalize", !.at = go.at + 1, !.f = entry[call.e].files[call.at + 1]]
    <3>1. Committed.pc = "finalize"
      BY <2>4, <2>6, Zenon
    <3>2. QED
      BY <3>1
  <2>7. QED
    BY <2>3, <2>5, <2>6, Zenon
<1>5. QED
  BY <1>1, <1>2, <1>3, <1>4

LEMMA CommitFileGood ==
  ASSUME UploadInv, KeyInv, NEW f, f = call.f, NEW lost \in Losses, CommitFile(lost)
  PROVE  StepGood(f)
<1> DEFINE g == file[f]
           s == Sent(g)
           t == [s EXCEPT !.committed = TRUE, !.sums = g.sums]
           takes == g.request # None /\ CanCommit(g, s)
<1>0. PICK bad \in BOOLEAN : bad = (f \in faulty)
  <2> DEFINE b == f \in faulty
  <2> WITNESS b \in BOOLEAN
  <2> QED
    OBVIOUS
<1>1. call.pc = "last" /\ g.encrypted = <<>> /\ Request(TakesCommit(g), lost, t, g, g, Committed)
  BY DEF CommitFile
<1>2. Types /\ CallHasFile
  BY DEF UploadInv
<1>3. call # Idle /\ call.op # "write" /\ call.part = 0 /\ (call.op = "write") = FALSE
  BY <1>1, <1>2, LastOp
<1>4. f \in Files /\ g \in FileType /\ call \in CallType /\ g.sums \in Sums
  BY <1>2, <1>3, CallFacts DEF CallType, FileType
<1>5. TakesCommit(g) <=> takes
  BY Zenon DEF TakesCommit, CanCommit
<1>6. takes => s \in SentType /\ t \in SentType /\ CommitBy(g, s, t) /\ file[f].request # None
  <2>1. ASSUME takes PROVE s \in SentType /\ file[f].request # None
    BY <1>2, <1>4, <2>1, SentFact
  <2>2. ASSUME s \in SentType PROVE t \in SentType /\ CommitBy(g, s, t)
    BY <1>4, <2>2, CommitRecord, Zenon DEF CommitBy
  <2>3. QED
    BY <2>1, <2>2
<1> DEFINE b == TakesCommit(g)
<1>7. (takes /\ Answered(f, g, Committed, t)) \/ LostOn(f, g, takes, t) \/ (~takes /\ RefusedOn(f, g))
  <2>1. b \in BOOLEAN
    BY DEF TakesCommit
  <2>2. (b <=> takes) /\ Request(b, lost, t, g, g, Committed) /\ Kept(file[f], g)
    BY <1>1, <1>5 DEF Kept
  <2> HIDE DEF b, t, takes
  <2>3. (b /\ Answered(f, g, Committed, t)) \/ LostOn(f, g, b, t) \/ (~b /\ RefusedOn(f, g))
    BY <1>2, <1>3, <1>4, <1>6, <2>1, <2>2, RequestCases
  <2>4. QED
    BY <2>2, <2>3, Zenon DEF LostOn
<1>9. faulty \subseteq faulty'
  BY WorkFaulty DEF Work
<1> HIDE DEF t
<1>11. g.torn => file'[f].torn
  <2>1. ASSUME file'[f] = Thrown(g, call.op = "write") PROVE g.torn => file'[f].torn
    BY <1>3, <1>4, <2>1, ThrownFact, Zenon
  <2>2. QED
    BY <1>7, <2>1, Zenon DEF Answered, LostOn, RefusedOn
<1>13. ASSUME Fine(f)
       PROVE  /\ KeepsGood(f) /\ (file'[f].torn => f \in faulty') /\ (Mild \/ f \in faulty' \/ s.committed)
  <2>1. g.request # None /\ Done(f, g, s, 0, bad)
    BY <1>0, <1>1, <1>4, <1>13, LastState
  <2>2. /\ s \in SentType /\ s.size = DeclaredSize(FileSize[f]) /\ s.chunks = ChunksOf(f)
        /\ Len(s.data) <= s.size
    BY <1>4, <2>1, SizesOf
  <2>9. bad => f \in faulty'
    BY <1>0, <1>9
  <2>3. /\ ~CanCommit(g, s) => bad \/ s.committed
        /\ CanCommit(g, s) /\ CommitBy(g, s, t) => Done(f, g, t, 0, bad)
    BY <1>1, <1>4, <2>1, <2>2, CommitDone, Zenon
  <2>4. ASSUME file'[f] = Thrown(g, call.op = "write") PROVE ~file'[f].torn
    <3>1. ~g.torn
      BY <1>13 DEF Fine
    <3>2. QED
      BY <1>3, <1>4, <2>4, <3>1, ThrownWhole, Zenon
  <2>5. CASE takes /\ Answered(f, g, Committed, t)
    <3>1. Done(f, g, t, 0, bad)
      BY <1>6, <2>3, <2>5
    <3>2. PICK c : c = Committed
      OBVIOUS
    <3>3. c.op # "write" /\ (c.pc = "finalize" \/ (c.f = f /\ c.part = 0 /\ c.pc \in {"fetch", "sendFile", "release"}))
      BY <1>1, <1>2, <3>2, CommittedPlace
    <3>4. Good(f, g, t, c, bad)
      <4>1. CASE c.pc = "finalize"
        BY <3>1, <4>1, DoneReady, ReadyGood, Zenon
      <4>2. CASE c.pc # "finalize"
        <5>1. c.part * PartSize = 0
          BY <3>3, <4>2, Constants
        <5>2. c.f = f /\ c.op # "write" /\ c.pc \notin {"finalize", "write"} /\ c.pc # "last"
          BY <3>3, <4>2
        <5>3. Done(f, g, t, c.part * PartSize, bad)
          BY <3>1, <5>1
        <5>4. QED
          BY <5>2, <5>3, DoneGood, Zenon
      <4>3. QED
        BY <4>1, <4>2
    <3>5. QED
      BY <1>0, <1>13, <2>5, <3>2, <3>4 DEF KeepsGood, Answered, Mild, Fine
  <2>6. CASE LostOn(f, g, takes, t)
    <3>1. f \in faulty' /\ call' = Idle /\ file'[f] = Thrown(g, call.op = "write")
          /\ (Sent(file[f])' = s \/ (takes /\ Sent(file[f])' = t))
      BY <2>6 DEF LostOn
    <3>2. KeepsGood(f)
      BY <1>3, <1>4, <1>6, <2>1, <2>3, <2>9, <3>1, EndGood, Zenon
    <3>3. QED
      BY <2>4, <3>1, <3>2
  <2>7. CASE ~takes /\ RefusedOn(f, g)
    <3>1. call' = Idle /\ file'[f] = Thrown(g, call.op = "write") /\ Sent(file[f])' = s
      BY <2>7 DEF RefusedOn
    <3>2. bad \/ s.committed
      BY <2>1, <2>3, <2>7
    <3>3. KeepsGood(f)
      BY <1>3, <1>4, <2>1, <2>9, <3>1, EndGood, Zenon
    <3>4. QED
      BY <2>4, <2>9, <3>1, <3>2, <3>3
  <2>8. QED
    BY <1>7, <2>5, <2>6, <2>7
<1>14. QED
  BY <1>3, <1>11, <1>13, Zenon DEF StepGood

LEMMA FreeOpen ==
  ASSUME NEW f \in Files, NEW g \in FileType, NEW s \in SentType, NEW k \in Nat, NEW i \in Nat,
         Open(f, g, s, k * ChunkSize, 1, i * PartSize), g.request # None,
         i >= NumberOfFullChunks(g.encrypted, PartSize),
         NEW h, h.key = g.key, h.sums = g.sums, h.serverSeq = g.serverSeq,
         h.encrypted = FreeFullChunks(g.encrypted, PartSize),
         h.buf = g.buf, h.total = g.total, h.uploaded = g.uploaded, h.request = g.request,
         h.seq = g.seq + 1, h.processed = g.processed + ChunkSize
  PROVE  Open(f, h, s, (k + 1) * ChunkSize, 0, 0)
<1> DEFINE x == Len(g.buf)
           o == k * ChunkSize
           p == (k + 1) * ChunkSize
           y == g.seq * ChunkSize
           z == (g.seq + 1) * ChunkSize
           total == g.total
<1>1. SumsOK(f, g) /\ Writing(f, g, o, 1) /\ Exact(f, g, s, i * PartSize)
  BY Zenon DEF Open
<1>2. Exact(f, h, s, 0)
  BY <1>1, FreeExact, Zenon
<1>3. SumsOK(f, h) /\ h.request # None
  BY <1>1, Zenon DEF SumsOK
<1>4. /\ ChunkSize \in Nat \ {0} /\ g.seq \in Nat /\ g.buf \in Plain /\ x \in Nat /\ total \in Nat
  BY Constants, PlainEmpty DEF FileType
<1>5. o \in Nat /\ p = o + ChunkSize /\ y \in Nat /\ z = y + ChunkSize
  BY <1>4, MulSuc
<1>6. /\ Buffers(f, g.buf, total, g.seq, o, 1) /\ g.processed = y
      /\ g.uploaded = z /\ Len(g.sums) = g.seq + 1
  BY <1>1, Zenon DEF Writing
<1>7. /\ x <= total /\ \A j \in 1..x : g.buf[j] = <<f, total - x + j>>
      /\ y + x = total + o /\ o + 1 * ChunkSize <= x
  BY <1>6, Zenon DEF Buffers
<1>8. z + x = total + p /\ p + 0 * ChunkSize <= x
  <2>1. y + x = total + o /\ o + 1 * ChunkSize <= x
    BY <1>7
  <2> HIDE DEF x, o, p, y, z, total
  <2>2. 1 * ChunkSize = ChunkSize /\ 0 * ChunkSize = 0
    BY <1>4
  <2>3. o + ChunkSize <= x
    BY <2>1, <2>2
  <2>4. QED
    BY <1>4, <1>5, <2>1, <2>2, <2>3, SMT
<1>9. Buffers(f, h.buf, h.total, h.seq, p, 0)
  BY <1>7, <1>8, Zenon DEF Buffers
<1>10. h.processed = h.seq * ChunkSize /\ h.uploaded = (h.seq + 0) * ChunkSize /\ Len(h.sums) = h.seq + 0
  <2>1. g.seq + 1 + 0 = g.seq + 1
    BY <1>4
  <2>2. h.processed = y + ChunkSize
    BY <1>6
  <2>3. QED
    BY <1>5, <1>6, <2>1, <2>2, Zenon
<1>11. QED
  BY <1>2, <1>3, <1>9, <1>10, Zenon DEF Open, Writing

(* A full chunk of the buffer.                                             *)
LEMMA FullChunk ==
  ASSUME NEW buf \in Plain, NEW i \in Nat, i < NumberOfFullChunks(buf, ChunkSize)
  PROVE  LET data == GetFullChunk(buf, ChunkSize, i)
         IN /\ data \in Plain /\ Len(data) = ChunkSize /\ Taken(buf, i * ChunkSize, data, ChunkSize)
            /\ i * ChunkSize \in Nat /\ buf # <<>>
<1> DEFINE data == GetFullChunk(buf, ChunkSize, i)
<1>1. buf \in Seq(Bytes) /\ ChunkSize \in Nat \ {0}
  BY Constants DEF Plain
<1>2. (i + 1) * ChunkSize <= Len(buf) /\ data \in Seq(Bytes) /\ Len(data) = ChunkSize
  BY <1>1, GetFullChunkFact
<1>3. \A k \in 1..ChunkSize : data[k] = buf[i * ChunkSize + k]
  BY <1>1, GetFullChunkFact, Zenon
<1>4. i * ChunkSize \in Nat /\ (i + 1) * ChunkSize = i * ChunkSize + ChunkSize
  BY <1>1, MulSuc
<1>5. i * ChunkSize + ChunkSize <= Len(buf)
  BY <1>2, <1>4
<1>6. buf # <<>>
  <2> DEFINE x == Len(buf)
             o == i * ChunkSize
  <2>1. o \in Nat /\ o + ChunkSize <= x
    BY <1>4, <1>5
  <2> HIDE DEF o
  <2>2. x # 0
    BY <1>1, <2>1
  <2>3. QED
    BY <2>2, EmptyStream
<1> HIDE DEF data
<1>7. Taken(buf, i * ChunkSize, data, ChunkSize)
  BY <1>2, <1>3, <1>5, Zenon DEF Taken
<1>8. QED
  BY <1>2, <1>4, <1>6, <1>7, Zenon DEF data, Plain

LEMMA NoSizeError ==
  ASSUME NEW f \in Files, NEW g \in FileType, NEW o \in Nat, Writing(f, g, o, 0), g.total <= FileSize[f],
         NEW data, Taken(g.buf, o, data, ChunkSize)
  PROVE  g.processed + Len(data) <= FileSize[f]
<1> DEFINE x == Len(g.buf)
           y == g.seq * ChunkSize
           total == g.total
           size == FileSize[f]
<1>1. /\ ChunkSize \in Nat \ {0} /\ g.seq \in Nat /\ g.buf \in Plain /\ x \in Nat /\ total \in Nat /\ size \in Nat
  BY Constants, PlainEmpty DEF FileType
<1>2. y \in Nat
  BY <1>1, MulSuc
<1>3. Buffers(f, g.buf, total, g.seq, o, 0) /\ g.processed = y
  BY Zenon DEF Writing
<1>4. y + x = total + o
  BY <1>3, Zenon DEF Buffers
<1>5. Len(data) = ChunkSize /\ o + ChunkSize <= x /\ total <= size
  BY DEF Taken
<1>6. y + ChunkSize <= size
  <2> HIDE DEF x, y, total, size
  <2>1. QED
    BY <1>1, <1>2, <1>4, <1>5, SMT
<1>7. QED
  BY <1>3, <1>5, <1>6

LEMMA EmptyChunks == NumberOfFullChunks(<<>>, ChunkSize) = 0 /\ FreeFullChunks(<<>>, ChunkSize) = <<>>
<1>1. ChunkSize \in Nat \ {0} /\ Len(<<>>) = 0 /\ <<>> \in Seq(Bytes)
  BY Constants, EmptyStream, EmptySeq
<1>2. 0 \div ChunkSize = 0
  <2> DEFINE q == 0 \div ChunkSize
  <2>1. q \in Nat /\ q * ChunkSize <= 0
    BY <1>1, DivFact
  <2> HIDE DEF q
  <2>2. q * ChunkSize < 1 * ChunkSize
    BY <1>1, <2>1, MulSuc
  <2>3. q < 1
    BY <1>1, <2>1, <2>2, MulStrict
  <2>4. QED
    BY <2>1, <2>3 DEF q
<1>3. NumberOfFullChunks(<<>>, ChunkSize) = 0
  BY <1>1, <1>2 DEF NumberOfFullChunks
<1>4. FreeFullChunks(<<>>, ChunkSize) \in Seq(Bytes) /\ Len(FreeFullChunks(<<>>, ChunkSize)) = Len(<<>>) - 0 * ChunkSize
  BY <1>1, <1>3, FreeFullChunksFact, ZenonT(60)
<1>5. Len(FreeFullChunks(<<>>, ChunkSize)) = 0
  BY <1>1, <1>4
<1>6. QED
  BY <1>3, <1>4, <1>5, PlainEmpty DEF Plain

(* The full chunks of the buffer are freed when all of them are sent.      *)
LEMMA FreeBuffer ==
  ASSUME NEW f \in Files, NEW g \in FileType, NEW s, NEW i \in Nat, Open(f, g, s, i * ChunkSize, 0, 0),
         i >= NumberOfFullChunks(g.buf, ChunkSize),
         NEW h \in FileType, StreamAlike(g, h), h.total = g.total, h.seq = g.seq, h.processed = g.processed,
         h.uploaded = g.uploaded, h.request = g.request, h.buf = FreeFullChunks(g.buf, ChunkSize)
  PROVE  Open(f, h, s, 0, 0, 0) /\ Len(h.buf) < ChunkSize
<1> DEFINE buf == g.buf
           n == NumberOfFullChunks(buf, ChunkSize)
           x == Len(buf)
           o == i * ChunkSize
<1>1. buf \in Seq(Bytes) /\ x \in Nat /\ ChunkSize \in Nat \ {0} /\ g.seq \in Nat
  BY PlainEmpty, Constants DEF FileType, Plain
<1>2. n \in Nat
  BY <1>1, DivFact DEF NumberOfFullChunks
<1> DEFINE y == n * ChunkSize
<1>3. y \in Nat /\ y <= x /\ x < y + ChunkSize
  BY <1>1, <1>2, DivFact, MulSuc, LenProperties DEF NumberOfFullChunks
<1>4. /\ SubSeq(buf, y + 1, x) \in Seq(Bytes) /\ Len(SubSeq(buf, y + 1, x)) = x - y
      /\ \A k \in 1..(x - y) : SubSeq(buf, y + 1, x)[k] = buf[y + k]
  BY <1>1, <1>3, SuffixFact, Zenon
<1>5. h.buf = SubSeq(buf, y + 1, x)
  BY Zenon DEF FreeFullChunks, NumberOfFullChunks
<1>6. o <= x
  <2>1. Buffers(f, buf, g.total, g.seq, o, 0)
    BY Zenon DEF Open, Writing
  <2>2. o + 0 * ChunkSize <= x
    BY <2>1, Zenon DEF Buffers
  <2>3. o \in Nat
    BY <1>1, MulSuc
  <2> HIDE DEF o, x
  <2>4. QED
    BY <1>1, <2>2, <2>3
<1>7. i = n
  <2>1. i >= n
    OBVIOUS
  <2>2. o \in Nat /\ (n + 1) * ChunkSize = y + ChunkSize
    BY <1>1, <1>2, MulSuc
  <2>3. i * ChunkSize < (n + 1) * ChunkSize
    <3> HIDE DEF x, y, o
    <3>1. o < y + ChunkSize
      BY <1>1, <1>3, <1>6, <2>2, SMT
    <3>2. QED
      BY <2>2, <3>1 DEF o
  <2> HIDE DEF n
  <2>4. i < n + 1
    BY <1>1, <1>2, <2>3, MulStrict
  <2>5. QED
    BY <1>2, <2>1, <2>4
<1>8. o = y /\ o \in Nat
  BY <1>3, <1>7
<1> HIDE DEF n, y
<1>9. Len(h.buf) = x - o /\ \A k \in 1..(x - o) : h.buf[k] = buf[o + k]
  BY <1>4, <1>5, <1>8, Zenon
<1>10. Open(f, h, s, 0, 0, 0)
  <2> HIDE DEF o
  <2>1. QED
    BY <1>8, <1>9, WriteEndsOpen DEF o
<1>11. Len(h.buf) < ChunkSize
  <2> HIDE DEF x, o
  <2>1. x - o < ChunkSize
    BY <1>1, <1>3, <1>8
  <2>2. QED
    BY <1>9, <2>1
<1>12. QED
  BY <1>10, <1>11

(* A step that sends nothing: what the server has stays.                   *)
LEMMA SameSent ==
  ASSUME NEW f \in Files, request' = request, file'[f].request = file[f].request, file'[f].index = file[f].index
  PROVE  Sent(file[f])' = Sent(file[f])
BY DEF Sent

(* The rest of a step that goes on.                                        *)
LEMMA GoesOnGood ==
  ASSUME NEW f \in Files, outcome' = outcome, faulty' = faulty, file'[f].torn = file[f].torn,
         Fine(f) => KeepsGood(f)
  PROVE  StepGood(f)
BY Zenon DEF StepGood, Fine, Mild

LEMMA PartsSentGood ==
  ASSUME UploadInv, KeyInv, NEW f, f = call.f, PartsSent
  PROVE  StepGood(f)
<1> DEFINE g == file[f]
           s == Sent(g)
           h == Freed(g, call)
           c == Returned(call)
<1>0. PICK bad \in BOOLEAN : bad = (f \in faulty)
  <2> DEFINE b == f \in faulty
  <2> WITNESS b \in BOOLEAN
  <2> QED
    OBVIOUS
<1>1. call.pc = "parts" /\ call.part >= NumberOfFullChunks(g.encrypted, PartSize)
      /\ Continue(h, c) /\ UNCHANGED <<entry, request, stored, keys, losses>>
  BY Zenon DEF PartsSent, Freed, Returned
<1>2. Types /\ CallHasFile /\ call # Idle
  BY <1>1, IdleFacts DEF UploadInv
<1>3. f \in Files /\ g \in FileType /\ call \in CallType /\ call.part \in Nat /\ call.chunk \in Nat /\ CallShape(call)
      /\ file \in [Files -> FileType]
  BY <1>2, CallFacts DEF CallType, FileType, Types
<1>4. /\ h \in FileType /\ Kept(g, h) /\ h.encrypted = FreeFullChunks(g.encrypted, PartSize)
      /\ h.sums = g.sums /\ h.buf = g.buf /\ h.uploaded = g.uploaded /\ h.serverSeq = g.serverSeq
      /\ h.torn = g.torn /\ h.early = g.early
      /\ h.seq = (IF call.after = "last" THEN g.seq ELSE g.seq + 1)
      /\ h.processed = (IF call.after = "last" THEN g.processed ELSE g.processed + call.length)
  BY <1>3, FreedStreamFact, Zenon
<1>5. h.key = g.key /\ h.total = g.total /\ h.request = g.request /\ h.index = g.index
  BY <1>4, Zenon DEF Kept
<1>6. /\ c.pc = call.after /\ c.op = call.op /\ c.f = f /\ c.part = 0
      /\ c.chunk = (IF call.after = "write" THEN call.chunk + 1 ELSE call.chunk)
      /\ call.after \in {"write", "check", "last"} /\ (call.after = "write" <=> call.op = "write")
  BY <1>1, <1>3, ReturnedFact
<1> HIDE DEF h, c
<1>7. file'[f] = h /\ call' = c /\ outcome' = outcome /\ request' = request /\ faulty' = faulty
  BY <1>1, <1>3 DEF Continue, losses
<1>8. Sent(file[f])' = s
  BY <1>3, <1>5, <1>7, SameSent
<1>9. ASSUME Fine(f), call.op = "write" PROVE Good(f, h, s, c, bad)
  <2>1. /\ g.request # None /\ call.length = ChunkSize
        /\ Open(f, g, s, call.chunk * ChunkSize, 1, call.part * PartSize)
    BY <1>1, <1>3, <1>9, WritePartOpen, Zenon
  <2>2. s \in SentType
    BY <1>3, <2>1, SizesOf
  <2>3. h.seq = g.seq + 1 /\ h.processed = g.processed + ChunkSize /\ c.chunk = call.chunk + 1 /\ c.pc = "write"
    BY <1>4, <1>6, <1>9, <2>1
  <2>4. Open(f, h, s, (call.chunk + 1) * ChunkSize, 0, 0)
    BY <1>1, <1>3, <1>4, <1>5, <2>1, <2>2, <2>3, FreeOpen, Zenon
  <2>5. Open(f, h, s, c.chunk * ChunkSize, 0, 0)
    BY <2>3, <2>4
  <2>6. c.f = f /\ c.pc = "write" /\ c.op = "write"
    BY <1>6, <1>9, <2>3
  <2>7. QED
    BY <2>5, <2>6, Zenon DEF Good
<1>10. ASSUME Fine(f), call.op # "write" PROVE Good(f, h, s, c, bad)
  <2>1. g.request # None
    BY <1>2, <1>10, CallRequest
  <2>2. Done(f, g, s, call.part * PartSize, bad)
    <3>1. Done(f, g, s, call.part * PartSize, f \in faulty)
      BY <1>1, <1>10, Zenon DEF Fine, Good
    <3>2. QED
      BY <1>0, <3>1
  <2>3. s \in SentType
    BY <1>3, <2>1, SizesOf
  <2>4. Done(f, h, s, 0, bad) /\ Len(h.encrypted) < PartSize
    BY <1>1, <1>3, <1>4, <1>5, <2>2, <2>3, FreeDone, Zenon
  <2>5. c.part * PartSize = 0
    BY <1>6, Constants
  <2>6. c.f = f /\ c.op # "write" /\ c.pc \notin {"finalize", "write"}
    BY <1>6, <1>10
  <2>7. Done(f, h, s, c.part * PartSize, bad)
    BY <2>4, <2>5
  <2>8. QED
    BY <2>4, <2>6, <2>7, DoneGood, Zenon
<1>11. Fine(f) => KeepsGood(f)
  BY <1>0, <1>7, <1>8, <1>9, <1>10 DEF KeepsGood
<1>12. QED
  BY <1>3, <1>4, <1>7, <1>11, GoesOnGood

(* prepareAndSendChunk, by cases.                                          *)
TooMuch(f, g, data) == g.processed + Len(data) > FileSize[f]

ToParts(c, n, after) == [c EXCEPT !.pc = "parts", !.part = 0, !.length = n, !.after = after]

PreparedOn(f, g, data, after) ==
  /\ file'[f] = Prepared(g, data) /\ outcome' = outcome /\ faulty' = faulty
  /\ call' = ToParts(call, Len(data), after)

LEMMA PrepareCases ==
  ASSUME Types, CallHasFile, call # Idle, NEW f, f = call.f, NEW g \in FileType, Kept(file[f], g),
         NEW data \in Plain, NEW after, PrepareAndSendChunk(g, data, after)
  PROVE  request' = request /\ (TooMuch(f, g, data) \/ PreparedOn(f, g, data, after))
<1>1. f \in Files /\ file \in [Files -> FileType]
  BY CallFacts DEF Types
<1>2. request' = request /\ faulty' = faulty
  BY DEF PrepareAndSendChunk, losses
<1>3. TooMuch(f, g, data) \/ Continue(Prepared(g, data), ToParts(call, Len(data), after))
  BY Zenon DEF PrepareAndSendChunk, Prepared, TooMuch, ToParts
<1>4. QED
  BY <1>1, <1>2, <1>3 DEF Continue, PreparedOn

LEMMA ToPartsFact ==
  ASSUME NEW c \in CallType, NEW n \in Nat, NEW after \in {"write", "check"}
  PROVE  LET d == ToParts(c, n, after)
         IN d.pc = "parts" /\ d.part = 0 /\ d.length = n /\ d.f = c.f /\ d.op = c.op /\ d.chunk = c.chunk
BY DEF CallType, ToParts

LEMMA WriteChunkGood ==
  ASSUME UploadInv, KeyInv, NEW f, f = call.f, WriteChunk
  PROVE  StepGood(f)
<1> DEFINE g == file[f]
           s == Sent(g)
           data == GetFullChunk(g.buf, ChunkSize, call.chunk)
           c == ToParts(call, Len(data), "write")
<1>0. PICK bad \in BOOLEAN : bad = (f \in faulty)
  <2> DEFINE b == f \in faulty
  <2> WITNESS b \in BOOLEAN
  <2> QED
    OBVIOUS
<1>1. call.pc = "write" /\ call.chunk < NumberOfFullChunks(g.buf, ChunkSize)
      /\ PrepareAndSendChunk(g, data, "write")
  BY DEF WriteChunk
<1>2. Types /\ CallHasFile /\ call # Idle /\ TotalInv
  BY <1>1, IdleFacts DEF UploadInv
<1>3. f \in Files /\ g \in FileType /\ call \in CallType /\ call.chunk \in Nat /\ CallShape(call) /\ g.buf \in Plain
      /\ file \in [Files -> FileType]
  BY <1>2, CallFacts DEF CallType, FileType, Types
<1>4. call.op = "write"
  BY <1>1, <1>2, <1>3 DEF CallShape
<1>5. /\ data \in Plain /\ Len(data) = ChunkSize /\ Taken(g.buf, call.chunk * ChunkSize, data, ChunkSize)
      /\ call.chunk * ChunkSize \in Nat /\ g.buf # <<>>
  BY <1>1, <1>3, FullChunk, Zenon
<1>6. Kept(file[f], g)
  BY DEF Kept
<1>7. request' = request /\ (TooMuch(f, g, data) \/ PreparedOn(f, g, data, "write"))
  <2> HIDE DEF data
  <2>1. QED
    BY <1>1, <1>2, <1>3, <1>5, <1>6, PrepareCases
<1>8. /\ Prepared(g, data) \in FileType /\ Kept(g, Prepared(g, data))
      /\ (Prepared(g, data).early <=> (g.early \/ g.request = None)) /\ Prepared(g, data).torn = g.torn
  BY <1>3, <1>5, PreparedFact, Zenon
<1>9. c.pc = "parts" /\ c.part = 0 /\ c.length = ChunkSize /\ c.f = f /\ c.op = "write" /\ c.chunk = call.chunk
  <2> DEFINE n == Len(data)
  <2>1. n \in Nat /\ n = ChunkSize /\ "write" \in {"write", "check"}
    BY <1>5, Constants
  <2>2. n = Len(data)
    OBVIOUS
  <2> HIDE DEF n
  <2>3. LET d == ToParts(call, n, "write")
        IN d.pc = "parts" /\ d.part = 0 /\ d.length = n /\ d.f = call.f /\ d.op = call.op /\ d.chunk = call.chunk
    BY <1>3, <2>1, ToPartsFact, Zenon
  <2>4. QED
    BY <1>4, <2>1, <2>2, <2>3, Zenon
<1> HIDE DEF data, c
<1>10. file[f].torn => file'[f].torn
  <2>1. CASE file'[f] = Prepared(g, data)
    BY <1>8, <2>1
  <2>2. CASE \E h, error : Throw(h, error) /\ h.torn = g.torn /\ h \in FileType
    <3>1. PICK h, error : Throw(h, error) /\ h.torn = g.torn /\ h \in FileType
      BY <2>2
    <3>2. file'[f] = Thrown(h, call.op = "write")
      BY <1>3, <3>1 DEF Throw, Thrown
    <3>3. (call.op = "write") \in BOOLEAN
      OBVIOUS
    <3>4. QED
      BY <3>1, <3>2, <3>3, ThrownFact, Zenon
  <2>3. \/ Throw([g EXCEPT !.uploaded = @ + Len(data)], "size")
        \/ file'[f] = Prepared(g, data)
    BY <1>1, <1>3, Zenon DEF PrepareAndSendChunk, Continue, Prepared, data
  <2>4. LET h == [g EXCEPT !.uploaded = @ + Len(data)] IN h.torn = g.torn /\ h \in FileType
    BY <1>3, <1>5, PlainEmpty, CountedFact, Zenon
  <2>5. QED
    BY <2>1, <2>2, <2>3, <2>4, Zenon
<1>11. ASSUME Fine(f) PROVE StepGood(f)
  <2>1. Open(f, g, s, call.chunk * ChunkSize, 0, 0)
    <3>1. ~Done(f, g, s, 0, f \in faulty)
      BY <1>5, Zenon DEF Done, Finished
    <3>2. QED
      BY <1>1, <1>11, <3>1, Zenon DEF Fine, Good
  <2>2. Writing(f, g, call.chunk * ChunkSize, 0) /\ g.total <= FileSize[f]
    BY <1>2, <1>3, <2>1, Zenon DEF Open, TotalInv
  <2>3. g.processed + Len(data) <= FileSize[f]
    BY <1>3, <1>5, <2>2, NoSizeError, Zenon
  <2>4. file'[f] = Prepared(g, data) /\ outcome' = outcome /\ call' = c /\ request' = request /\ faulty' = faulty
    <3>1. g.processed \in Nat /\ FileSize[f] \in Nat /\ ChunkSize \in Nat
      BY <1>3, Constants DEF FileType
    <3>2. ~TooMuch(f, g, data)
      BY <1>5, <2>3, <3>1 DEF TooMuch
    <3>3. QED
      BY <1>7, <3>2 DEF PreparedOn, c
  <2>5. ASSUME g.request # None PROVE KeepsGood(f)
    <3>1. s \in SentType
      BY <1>3, <2>5, SizesOf
    <3>2. Open(f, Prepared(g, data), s, call.chunk * ChunkSize, 1, 0)
      BY <1>3, <1>5, <2>1, <2>2, <2>5, <3>1, WriteChunkOpen, Zenon
    <3>3. c.part * PartSize = 0
      BY <1>9, Constants
    <3>4. Open(f, Prepared(g, data), s, c.chunk * ChunkSize, 1, c.part * PartSize)
      BY <1>9, <3>2, <3>3
    <3>5. Good(f, Prepared(g, data), s, c, f \in faulty')
      BY <1>9, <3>4, Zenon DEF Good
    <3>6. Sent(file[f])' = s
      <4>1. file'[f].request = file[f].request /\ file'[f].index = file[f].index
        BY <1>8, <2>4 DEF Kept
      <4>2. QED
        BY <1>3, <2>4, <4>1, SameSent
    <3>7. QED
      BY <2>4, <3>5, <3>6 DEF KeepsGood
  <2>6. ASSUME g.request = None PROVE KeepsGood(f)
    BY <1>8, <2>4, <2>6 DEF KeepsGood
  <2>7. file'[f].torn = g.torn
    BY <1>8, <2>4
  <2>8. QED
    BY <1>3, <2>4, <2>5, <2>6, <2>7, GoesOnGood
<1>12. QED
  BY <1>10, <1>11, Zenon DEF StepGood

LEMMA WriteEndsGood ==
  ASSUME UploadInv, KeyInv, NEW f, f = call.f, WriteEnds
  PROVE  StepGood(f)
<1> DEFINE g == file[f]
           s == Sent(g)
           h == [g EXCEPT !.buf = FreeFullChunks(@, ChunkSize)]
<1>0. PICK bad \in BOOLEAN : bad = (f \in faulty)
  <2> DEFINE b == f \in faulty
  <2> WITNESS b \in BOOLEAN
  <2> QED
    OBVIOUS
<1>1. call.pc = "write" /\ call.chunk >= NumberOfFullChunks(g.buf, ChunkSize)
      /\ Continue(h, Idle) /\ UNCHANGED <<entry, request, stored, keys, losses>>
  BY Zenon DEF WriteEnds
<1>2. Types /\ CallHasFile /\ call # Idle
  BY <1>1, IdleFacts DEF UploadInv
<1>3. f \in Files /\ g \in FileType /\ call \in CallType /\ call.chunk \in Nat /\ file \in [Files -> FileType]
  BY <1>2, CallFacts DEF CallType, FileType, Types
<1>4. /\ h \in FileType /\ Kept(g, h) /\ h.buf = FreeFullChunks(g.buf, ChunkSize)
      /\ h.seq = g.seq /\ h.sums = g.sums /\ h.encrypted = g.encrypted /\ h.processed = g.processed
      /\ h.uploaded = g.uploaded /\ h.serverSeq = g.serverSeq /\ h.torn = g.torn /\ h.early = g.early
  BY <1>3, FreedFact, Zenon
<1>5. h.key = g.key /\ h.total = g.total /\ h.request = g.request /\ h.index = g.index
  BY <1>4, Zenon DEF Kept
<1> HIDE DEF h
<1>6. StreamAlike(g, h)
  BY <1>4, <1>5, Zenon DEF StreamAlike
<1>7. file'[f] = h /\ call' = Idle /\ outcome' = outcome /\ request' = request /\ faulty' = faulty
  BY <1>1, <1>3 DEF Continue, losses
<1>8. Sent(file[f])' = s
  BY <1>3, <1>5, <1>7, SameSent
<1>9. ASSUME Fine(f) PROVE Ready(f, h, s, bad)
  <2>1. \/ Open(f, g, s, call.chunk * ChunkSize, 0, 0)
        \/ Done(f, g, s, 0, f \in faulty)
    BY <1>1, <1>9, Zenon DEF Fine, Good
  <2>2. CASE Open(f, g, s, call.chunk * ChunkSize, 0, 0)
    <3>1. Open(f, h, s, 0, 0, 0) /\ Len(h.buf) < ChunkSize
      BY <1>1, <1>3, <1>4, <1>5, <1>6, <2>2, FreeBuffer, Zenon
    <3>2. QED
      BY <3>1, Zenon DEF Ready
  <2>3. CASE Done(f, g, s, 0, f \in faulty)
    <3>1. Done(f, g, s, 0, bad)
      BY <1>0, <2>3
    <3>2. g.buf = <<>>
      BY <3>1, Zenon DEF Done, Finished
    <3>3. h.buf = g.buf
      BY <1>4, <3>2, EmptyChunks
    <3>4. Alike(g, h)
      BY <1>4, <1>5, <1>6, <3>3, Zenon DEF Alike
    <3>5. Done(f, h, s, 0, bad)
      BY <3>1, <3>4, AlikeSame, Zenon
    <3>6. QED
      BY <3>5, Zenon DEF Ready
  <2>4. QED
    BY <2>1, <2>2, <2>3
<1>10. Idle.f # f
  BY <1>3, IdleFacts, Constants
<1>11. Fine(f) => KeepsGood(f)
  <2>1. ASSUME Fine(f) PROVE Good(f, h, s, Idle, bad)
    BY <1>9, <1>10, <2>1, ReadyGood, Zenon
  <2>2. QED
    BY <1>0, <1>7, <1>8, <2>1 DEF KeepsGood
<1>12. QED
  BY <1>3, <1>4, <1>7, <1>11, GoesOnGood

(* A step that keeps its file, and one that ends without a refusal.        *)
LEMMA EndsWell ==
  ASSUME Types, NEW f \in Files, f = call.f, call.op # "write", request' = request, faulty \subseteq faulty',
         NEW error, Throw(file[f], error), error \in Outcomes \ Refusals \/ call.pc \in {"sendFile", "send"},
         NEW bad \in BOOLEAN, bad = (f \in faulty),
         Fine(f) => Ready(f, file[f], Sent(file[f]), bad)
  PROVE  StepGood(f)
<1> DEFINE g == file[f]
           s == Sent(g)
           w == call.op = "write"
<1>1. g \in FileType /\ file \in [Files -> FileType] /\ w \in BOOLEAN
  BY DEF Types
<1>2. file'[f] = Thrown(g, w) /\ call' = Idle /\ outcome' = [outcome EXCEPT ![Caller] = error]
  BY <1>1 DEF Throw, Thrown
<1>3. Alike(g, file'[f]) /\ Kept(g, file'[f]) /\ (g.torn => file'[f].torn)
  BY <1>1, <1>2, ThrownFact, Zenon
<1>4. ~g.torn => ~file'[f].torn
  BY <1>1, <1>2, ThrownWhole, Zenon
<1>5. Sent(file[f])' = s
  <2>1. file'[f].request = file[f].request /\ file'[f].index = file[f].index
    BY <1>3 DEF Kept
  <2>2. QED
    BY <2>1, SameSent
<1>6. call'.f # f
  BY <1>2, IdleFacts, Constants
<1>7. ASSUME Fine(f) PROVE KeepsGood(f)
  <2>1. bad => f \in faulty'
    OBVIOUS
  <2>2. Ready(f, file'[f], s, f \in faulty')
    BY <1>3, <1>7, <2>1, AlikeSame, ZenonT(60)
  <2>3. QED
    BY <1>5, <1>6, <2>2, ReadyGood, Zenon DEF KeepsGood
<1>8. Mild \/ call.pc \in {"sendFile", "send"}
  BY <1>2, Zenon DEF Mild
<1>9. QED
  BY <1>3, <1>4, <1>7, <1>8, Zenon DEF StepGood, Fine

LEMMA KeepsFile ==
  ASSUME Types, NEW f \in Files, f = call.f, NEW c, c.f = f, c.part = 0, c.op # "write",
         c.pc \notin {"finalize", "write", "last"}, request' = request, NEW g \in FileType, Kept(file[f], g),
         g.torn = file[f].torn,
         Continue(g, c), faulty' = faulty, NEW bad \in BOOLEAN, bad = (f \in faulty),
         Fine(f) => Done(f, g, Sent(file[f]), 0, bad)
  PROVE  StepGood(f)
<1>1. file'[f] = g /\ call' = c /\ outcome' = outcome
  BY DEF Types, Continue
<1>2. Sent(file[f])' = Sent(file[f])
  BY <1>1, SameSent DEF Kept
<1>3. c.part * PartSize = 0
  BY Constants
<1>4. ASSUME Fine(f) PROVE Good(f, g, Sent(file[f]), c, bad)
  <2>1. Done(f, g, Sent(file[f]), c.part * PartSize, bad)
    BY <1>3, <1>4
  <2>2. QED
    BY <2>1, DoneGood, Zenon
<1>5. Fine(f) => KeepsGood(f)
  BY <1>1, <1>2, <1>4 DEF KeepsGood
<1>6. QED
  BY <1>1, <1>5, GoesOnGood

LEMMA CallTo ==
  ASSUME NEW c \in CallType
  PROVE  /\ \A p : [c EXCEPT !.pc = p].f = c.f /\ [c EXCEPT !.pc = p].part = c.part /\ [c EXCEPT !.pc = p].op = c.op
                   /\ [c EXCEPT !.pc = p].pc = p
         /\ \A p, q : /\ [c EXCEPT !.pc = p, !.after = q].f = c.f /\ [c EXCEPT !.pc = p, !.after = q].part = c.part
                      /\ [c EXCEPT !.pc = p, !.after = q].op = c.op /\ [c EXCEPT !.pc = p, !.after = q].pc = p
         /\ \A p, q : /\ [c EXCEPT !.pc = p, !.keyId = q].f = c.f /\ [c EXCEPT !.pc = p, !.keyId = q].part = c.part
                      /\ [c EXCEPT !.pc = p, !.keyId = q].op = c.op /\ [c EXCEPT !.pc = p, !.keyId = q].pc = p
         /\ \A p, q : /\ [c EXCEPT !.pc = p, !.retried = q].f = c.f /\ [c EXCEPT !.pc = p, !.retried = q].part = c.part
                      /\ [c EXCEPT !.pc = p, !.retried = q].op = c.op /\ [c EXCEPT !.pc = p, !.retried = q].pc = p
BY DEF CallType

LEMMA Bad == ASSUME NEW f PROVE \E bad \in BOOLEAN : bad = (f \in faulty)
<1> DEFINE b == f \in faulty
<1> WITNESS b \in BOOLEAN
<1> QED
  OBVIOUS

LEMMA FinalizeGood ==
  ASSUME UploadInv, KeyInv, NEW f, f = call.f, Finalize
  PROVE  StepGood(f)
<1> DEFINE g == file[f]
           s == Sent(g)
           last == LastChunk(g)
           h == Prepared(Rest(g), last)
<1>0. PICK bad \in BOOLEAN : bad = (f \in faulty)
  BY Bad, Zenon
<1>1. /\ call.pc = "finalize"
      /\ \/ g.total # FileSize[f] /\ Throw(g, "different") /\ UNCHANGED <<entry, request, stored, keys, losses>>
         \/ g.total = FileSize[f] /\ last # <<>> /\ PrepareAndSendChunk(Rest(g), last, "check")
         \/ /\ g.total = FileSize[f] /\ last = <<>> /\ Continue(Rest(g), [call EXCEPT !.pc = "check"])
            /\ UNCHANGED <<entry, request, stored, keys, losses>>
  BY FinalizeCases, Zenon
<1>2. Types /\ CallHasFile
  BY DEF UploadInv
<1>3. call # Idle /\ call.op # "write" /\ call.part = 0
  BY <1>1, <1>2, LastOp
<1>4. f \in Files /\ g \in FileType /\ call \in CallType /\ file \in [Files -> FileType]
  BY <1>2, <1>3, CallFacts DEF Types
<1>5. g.request # None
  BY <1>3, CallRequest
<1>6. s \in SentType
  BY <1>4, <1>5, SizesOf
<1>7. ASSUME Fine(f) PROVE Ready(f, g, s, bad)
  <2>1. Ready(f, g, s, f \in faulty)
    BY <1>1, <1>7, Zenon DEF Fine, Good
  <2>2. QED
    BY <1>0, <2>1
<1>8. /\ StreamAlike(g, Rest(g)) /\ Rest(g) \in FileType /\ last \in Plain /\ Rest(g).torn = g.torn
      /\ Kept(g, Rest(g))
  BY <1>4, RestAlike, RestFact, Zenon
<1>9. CASE g.total # FileSize[f] /\ Throw(g, "different") /\ UNCHANGED <<entry, request, stored, keys, losses>>
  <2>1. "different" \in Outcomes \ Refusals
    BY DEF Outcomes, Refusals
  <2>2. request' = request /\ faulty \subseteq faulty'
    BY <1>9 DEF losses
  <2>3. QED
    BY <1>0, <1>2, <1>3, <1>4, <1>7, <1>9, <2>1, <2>2, EndsWell, Zenon
<1>10. CASE g.total = FileSize[f] /\ last = <<>> /\ Continue(Rest(g), [call EXCEPT !.pc = "check"])
            /\ UNCHANGED <<entry, request, stored, keys, losses>>
  <2>1. ASSUME Fine(f) PROVE Done(f, Rest(g), s, 0, bad)
    <3>1. CASE Open(f, g, s, 0, 0, 0) /\ Len(g.buf) < ChunkSize
      BY <1>4, <1>5, <1>6, <1>10, <3>1, LastEmptyDone, Zenon
    <3>2. CASE Done(f, g, s, 0, bad)
      BY <1>4, <3>2, DoneRest, Zenon
    <3>3. QED
      BY <1>7, <2>1, <3>1, <3>2, Zenon DEF Ready
  <2> DEFINE c == [call EXCEPT !.pc = "check"]
  <2>2. c.f = f /\ c.part = 0 /\ c.op # "write" /\ c.pc = "check"
    BY <1>3, <1>4, CallTo
  <2>3. Continue(Rest(g), c) /\ request' = request /\ faulty' = faulty
    BY <1>10 DEF losses
  <2>4. c.pc \notin {"finalize", "write", "last"}
    BY <2>2
  <2> HIDE DEF c
  <2>5. QED
    BY <1>0, <1>2, <1>4, <1>8, <2>1, <2>2, <2>3, <2>4, KeepsFile, Zenon
<1>11. CASE g.total = FileSize[f] /\ last # <<>> /\ PrepareAndSendChunk(Rest(g), last, "check")
  <2>1. request' = request /\ (TooMuch(f, Rest(g), last) \/ PreparedOn(f, Rest(g), last, "check"))
    <3> HIDE DEF last
    <3>1. QED
      BY <1>2, <1>3, <1>8, <1>11, PrepareCases
  <2>2. /\ h \in FileType /\ Kept(Rest(g), h) /\ h.torn = Rest(g).torn /\ Len(last) \in Nat
    BY <1>8, PreparedFact, Zenon
  <2>3. Kept(g, h) /\ h.torn = g.torn
    BY <1>8, <2>2, KeptTransitive, Zenon
  <2>4. ASSUME Fine(f) PROVE Done(f, h, s, 0, bad) /\ ~TooMuch(f, Rest(g), last)
    <3>1. ~Done(f, g, s, 0, bad)
      BY <1>4, <1>11, DoneRest, Zenon
    <3>2. Open(f, g, s, 0, 0, 0) /\ Len(g.buf) < ChunkSize
      BY <1>7, <2>4, <3>1, Zenon DEF Ready
    <3>3. Rest(g).processed + Len(last) <= FileSize[f] /\ Done(f, h, s, 0, bad)
      BY <1>4, <1>5, <1>6, <1>11, <3>2, LastChunkDone, Zenon
    <3>4. Rest(g).processed \in Nat /\ FileSize[f] \in Nat
      BY <1>4, <1>8, Constants DEF FileType
    <3>5. ~TooMuch(f, Rest(g), last)
      <4> DEFINE x == Len(last)
                 y == Rest(g).processed
      <4>1. x \in Nat /\ y \in Nat /\ y + x <= FileSize[f]
        BY <2>2, <3>3, <3>4
      <4> HIDE DEF x, y
      <4>2. ~(y + x > FileSize[f])
        BY <3>4, <4>1
      <4>3. QED
        BY <4>2 DEF TooMuch, x, y
    <3>6. QED
      BY <3>3, <3>5
  <2>5. CASE PreparedOn(f, Rest(g), last, "check")
    <3> DEFINE c == ToParts(call, Len(last), "check")
    <3>1. c.f = f /\ c.part = 0 /\ c.op # "write" /\ c.pc = "parts"
      <4> DEFINE n == Len(last)
                 d == ToParts(call, n, "check")
      <4>1. n \in Nat /\ "check" \in {"write", "check"}
        BY <2>2
      <4> HIDE DEF n
      <4>2. d.f = call.f /\ d.part = 0 /\ d.op = call.op /\ d.pc = "parts"
        BY <1>4, <4>1, ToPartsFact, Zenon
      <4>3. QED
        BY <1>3, <4>2 DEF n
    <3>2. Continue(h, c) /\ faulty' = faulty
      <4>1. file' = [file EXCEPT ![f] = h]
        <5>1. PrepareAndSendChunk(Rest(g), last, "check")
          BY <1>11
        <5>2. CASE Continue(h, c)
          BY <5>2 DEF Continue
        <5>3. CASE \E k, error : Throw(k, error)
          <6>1. \E k : file' = [file EXCEPT ![f] = k]
            BY <5>3 DEF Throw
          <6>2. file'[f] = h
            BY <2>5 DEF PreparedOn
          <6>3. QED
            BY <1>4, <6>1, <6>2
        <5>4. QED
          BY <5>1, <5>2, <5>3, Zenon DEF PrepareAndSendChunk, Prepared, ToParts
      <4>2. QED
        BY <2>5, <4>1, Zenon DEF PreparedOn, Continue
    <3>3. c.pc \notin {"finalize", "write", "last"}
      BY <3>1
    <3>4. Fine(f) => Done(f, h, s, 0, bad)
      BY <2>4
    <3> HIDE DEF c, h
    <3>5. QED
      BY <1>0, <1>2, <1>4, <2>1, <2>2, <2>3, <3>1, <3>2, <3>3, <3>4, KeepsFile, Zenon DEF h
  <2>6. CASE TooMuch(f, Rest(g), last)
    <3>1. ~Fine(f)
      BY <2>4, <2>6
    <3>2. g.torn => file'[f].torn
      <4>1. CASE file'[f] = h
        BY <2>3, <4>1
      <4>2. CASE \E k \in FileType : k.torn = g.torn /\ file'[f] = Thrown(k, call.op = "write")
        BY <4>2, ThrownFact, Zenon
      <4>3. LET k == [Rest(g) EXCEPT !.uploaded = @ + Len(last)]
            IN k \in FileType /\ k.torn = Rest(g).torn
        BY <1>8, <2>2, CountedFact, Zenon
      <4>4. \/ Throw([Rest(g) EXCEPT !.uploaded = @ + Len(last)], "size")
            \/ \E c : Continue(h, c)
        BY <1>11, Zenon DEF PrepareAndSendChunk, Prepared
      <4>5. CASE Throw([Rest(g) EXCEPT !.uploaded = @ + Len(last)], "size")
        <5> DEFINE k == [Rest(g) EXCEPT !.uploaded = @ + Len(last)]
        <5>1. k \in FileType /\ k.torn = g.torn /\ Throw(k, "size")
          BY <1>8, <4>3, <4>5
        <5> HIDE DEF k
        <5>2. file'[f] = Thrown(k, call.op = "write")
          BY <1>4, <5>1 DEF Throw, Thrown
        <5>3. QED
          BY <4>2, <5>1, <5>2, Zenon
      <4>6. CASE \E c : Continue(h, c)
        BY <1>4, <4>1, <4>6 DEF Continue
      <4>7. QED
        BY <4>4, <4>5, <4>6
    <3>3. QED
      BY <3>1, <3>2, Zenon DEF StepGood
  <2>7. QED
    BY <2>1, <2>5, <2>6
<1>12. QED
  BY <1>1, <1>9, <1>10, <1>11, Zenon

LEMMA CheckSizeGood ==
  ASSUME UploadInv, KeyInv, NEW f, f = call.f, CheckSize
  PROVE  StepGood(f)
<1> DEFINE g == file[f]
           s == Sent(g)
           c == [call EXCEPT !.pc = "parts", !.after = "last"]
<1>0. PICK bad \in BOOLEAN : bad = (f \in faulty)
  BY Bad, Zenon
<1>1. /\ call.pc = "check" /\ UNCHANGED <<entry, request, stored, keys, losses>>
      /\ \/ g.uploaded + call.length < FileSize[f] /\ Throw(g, "smaller")
         \/ Continue(g, c)
  BY Zenon DEF CheckSize
<1>2. Types /\ CallHasFile
  BY DEF UploadInv
<1>3. call # Idle /\ call.op # "write" /\ call.part = 0
  BY <1>1, <1>2, LastOp
<1>4. f \in Files /\ g \in FileType /\ call \in CallType /\ file \in [Files -> FileType] /\ call.length \in Nat
  BY <1>2, <1>3, CallFacts DEF Types, CallType
<1>5. ASSUME Fine(f) PROVE Done(f, g, s, 0, bad)
  BY <1>0, <1>1, <1>4, <1>5, LastState
<1>6. CASE Continue(g, c)
  <2>1. c.f = f /\ c.part = 0 /\ c.op # "write" /\ c.pc = "parts"
    BY <1>3, <1>4, CallTo
  <2>2. request' = request /\ faulty' = faulty
    BY <1>1 DEF losses
  <2>3. c.pc \notin {"finalize", "write", "last"} /\ Kept(file[f], g) /\ g.torn = file[f].torn
    BY <2>1 DEF Kept
  <2> HIDE DEF c
  <2>4. QED
    BY <1>0, <1>2, <1>4, <1>5, <1>6, <2>1, <2>2, <2>3, KeepsFile, Zenon
<1>7. CASE g.uploaded + call.length < FileSize[f] /\ Throw(g, "smaller")
  <2>1. ~Fine(f)
    <3>1. ASSUME Fine(f) PROVE FALSE
      <4>1. g.uploaded = FileSize[f]
        BY <1>5, <3>1, Zenon DEF Done, Finished
      <4>2. FileSize[f] \in Nat
        BY <1>4, Constants
      <4>3. QED
        BY <1>4, <1>7, <4>1, <4>2
    <3>2. QED
      BY <3>1
  <2>2. g.torn => file'[f].torn
    <3>1. file'[f] = Thrown(g, call.op = "write") /\ (call.op = "write") \in BOOLEAN
      BY <1>4, <1>7 DEF Throw, Thrown
    <3>2. QED
      BY <1>4, <3>1, ThrownFact, Zenon
  <2>3. QED
    BY <2>1, <2>2, Zenon DEF StepGood
<1>8. QED
  BY <1>1, <1>6, <1>7

LEMMA FetchKeyGood ==
  ASSUME UploadInv, KeyInv, NEW f, f = call.f, NEW lost \in Losses, FetchKey(lost)
  PROVE  StepGood(f)
<1> DEFINE g == file[f]
           s == Sent(g)
           c == [call EXCEPT !.pc = "sendFile", !.keyId = storeKey]
<1>0. PICK bad \in BOOLEAN : bad = (f \in faulty)
  BY Bad, Zenon
<1>1. /\ call.pc = "fetch" /\ request' = request /\ CountLoss(lost)
      /\ \/ lost = "no" /\ Continue(g, c)
         \/ Throw(g, "lost")
  BY DEF FetchKey
<1>2. Types /\ CallHasFile
  BY DEF UploadInv
<1>3. call # Idle /\ call.op # "write" /\ call.part = 0
  BY <1>1, <1>2, LastOp
<1>4. f \in Files /\ g \in FileType /\ call \in CallType /\ file \in [Files -> FileType]
  BY <1>2, <1>3, CallFacts DEF Types
<1>5. ASSUME Fine(f) PROVE Done(f, g, s, 0, bad)
  BY <1>0, <1>1, <1>4, <1>5, LastState
<1>6. faulty \subseteq faulty'
  BY <1>1, <1>2, <1>3, LossFact
<1>7. CASE lost = "no" /\ Continue(g, c)
  <2>1. c.f = f /\ c.part = 0 /\ c.op # "write" /\ c.pc = "sendFile"
    BY <1>3, <1>4, CallTo
  <2>2. faulty' = faulty
    BY <1>1, <1>7 DEF CountLoss
  <2>3. c.pc \notin {"finalize", "write", "last"} /\ Kept(file[f], g) /\ g.torn = file[f].torn
    BY <2>1 DEF Kept
  <2> HIDE DEF c
  <2>4. QED
    BY <1>0, <1>1, <1>2, <1>4, <1>5, <1>7, <2>1, <2>2, <2>3, KeepsFile, Zenon
<1>8. CASE Throw(g, "lost")
  <2>1. "lost" \in Outcomes \ Refusals
    BY DEF Outcomes, Refusals
  <2>2. Fine(f) => Ready(f, g, s, bad)
    BY <1>5, Zenon DEF Ready
  <2>3. QED
    BY <1>0, <1>1, <1>2, <1>3, <1>4, <1>6, <1>8, <2>1, <2>2, EndsWell, Zenon
<1>9. QED
  BY <1>1, <1>7, <1>8

LEMMA SendFileGood ==
  ASSUME UploadInv, KeyInv, NEW f, f = call.f, NEW lost \in Losses, SendFile(lost)
  PROVE  StepGood(f)
<1> DEFINE g == file[f]
           s == Sent(g)
           c == [call EXCEPT !.pc = "fetch", !.retried = TRUE]
<1>0. PICK bad \in BOOLEAN : bad = (f \in faulty)
  BY Bad, Zenon
<1>1. /\ call.pc = "sendFile" /\ request' = request /\ CountLoss(lost)
      /\ \/ lost = "no" /\ Continue(g, c)
         \/ \E error : Throw(g, error)
  BY Zenon DEF SendFile
<1>2. Types /\ CallHasFile
  BY DEF UploadInv
<1>3. call # Idle /\ call.op # "write" /\ call.part = 0
  BY <1>1, <1>2, LastOp
<1>4. f \in Files /\ g \in FileType /\ call \in CallType /\ file \in [Files -> FileType]
  BY <1>2, <1>3, CallFacts DEF Types
<1>5. ASSUME Fine(f) PROVE Done(f, g, s, 0, bad)
  BY <1>0, <1>1, <1>4, <1>5, LastState
<1>6. faulty \subseteq faulty'
  BY <1>1, <1>2, <1>3, LossFact
<1>7. CASE lost = "no" /\ Continue(g, c)
  <2>1. c.f = f /\ c.part = 0 /\ c.op # "write" /\ c.pc = "fetch"
    BY <1>3, <1>4, CallTo
  <2>2. faulty' = faulty
    BY <1>1, <1>7 DEF CountLoss
  <2>3. c.pc \notin {"finalize", "write", "last"} /\ Kept(file[f], g) /\ g.torn = file[f].torn
    BY <2>1 DEF Kept
  <2> HIDE DEF c
  <2>4. QED
    BY <1>0, <1>1, <1>2, <1>4, <1>5, <1>7, <2>1, <2>2, <2>3, KeepsFile, Zenon
<1>8. ASSUME NEW error, Throw(g, error) PROVE StepGood(f)
  <2>1. call.pc \in {"sendFile", "send"}
    BY <1>1
  <2>2. Fine(f) => Ready(f, g, s, bad)
    BY <1>5, Zenon DEF Ready
  <2>3. QED
    BY <1>0, <1>1, <1>2, <1>3, <1>4, <1>6, <1>8, <2>1, <2>2, EndsWell, Zenon
<1>9. QED
  BY <1>1, <1>7, <1>8

LEMMA InboxSendGood ==
  ASSUME UploadInv, KeyInv, NEW f, f = call.f, NEW lost \in Losses, InboxSend(lost)
  PROVE  StepGood(f)
<1> DEFINE g == file[f]
           s == Sent(g)
<1>0. PICK bad \in BOOLEAN : bad = (f \in faulty)
  BY Bad, Zenon
<1>1. call.pc = "send" /\ request' = request /\ CountLoss(lost) /\ \E error : Throw(g, error)
  BY Zenon DEF InboxSend
<1>2. Types /\ CallHasFile
  BY DEF UploadInv
<1>3. call # Idle /\ call.op # "write" /\ call.part = 0
  BY <1>1, <1>2, LastOp
<1>4. f \in Files /\ g \in FileType /\ call \in CallType /\ file \in [Files -> FileType]
  BY <1>2, <1>3, CallFacts DEF Types
<1>5. ASSUME Fine(f) PROVE Done(f, g, s, 0, bad)
  BY <1>0, <1>1, <1>4, <1>5, LastState
<1>6. faulty \subseteq faulty'
  BY <1>1, <1>2, <1>3, LossFact
<1>7. call.pc \in {"sendFile", "send"}
  BY <1>1
<1>8. Fine(f) => Ready(f, g, s, bad)
  BY <1>5, Zenon DEF Ready
<1>9. QED
  BY <1>0, <1>1, <1>2, <1>3, <1>4, <1>6, <1>7, <1>8, EndsWell, Zenon

LEMMA WorkGood ==
  ASSUME UploadInv, KeyInv, Work, NEW f, f = call.f
  PROVE  StepGood(f)
BY WriteChunkGood, WriteEndsGood, PartsSentGood, FinalizeGood, CheckSizeGood, SendPartGood, SendLastGood,
   CommitFileGood, FetchKeyGood, SendFileGood, InboxSendGood, Zenon DEF Work

-----------------------------------------------------------------------------
(* Files that were neither misused nor left half written are well.         *)

CleanInv ==
  \A f \in Files : ~file[f].torn /\ ~Misused(f) => Good(f, file[f], Sent(file[f]), call, f \in faulty)

(* Only a loss leaves a file half written.                                 *)
TornInv == \A f \in Files : file[f].torn => f \in faulty \/ Misused(f)

(* Files of an Inbox get their requests from the entries they are in.      *)
FreshInv ==
  \A f \in Files \ StoreFiles : file[f].request # None => \E e \in Entries : f \in Range(entry[e].files)

LEMMA MisusedIs ==
  ASSUME NEW f
  PROVE  Misused(f) <=> (file[f].early \/ Twice(entry, f))
BY Zenon DEF Misused, Twice

LEMMA MisusedNext ==
  ASSUME NEW f
  PROVE  Misused(f)' <=> (file'[f].early \/ Twice(entry', f))
BY Zenon DEF Misused, Twice

LEMMA WorkCall ==
  ASSUME Types, CallHasFile, Work
  PROVE  call' = Idle \/ call'.f = call.f \/ call'.pc = "finalize"
<1>0. call \in CallType
  BY DEF Types
<1>1. ASSUME NEW g, NEW data, NEW after, PrepareAndSendChunk(g, data, after)
      PROVE  call' = Idle \/ call'.f = call.f
  <2>1. call' = Idle \/ call' = [call EXCEPT !.pc = "parts", !.part = 0, !.length = Len(data), !.after = after]
    BY <1>1, Zenon DEF PrepareAndSendChunk, Throw, Continue
  <2>2. QED
    BY <1>0, <2>1 DEF CallType
<1>2. ASSUME NEW g, NEW data, NEW lost, NEW next, SendChunkToServer(g, data, lost, next)
      PROVE  call' = Idle \/ call' = next
  BY <1>2, Zenon DEF SendChunkToServer, Request, Throw, Continue
<1>3. CASE WriteChunk
  BY <1>1, <1>3, Zenon DEF WriteChunk
<1>4. CASE WriteEnds
  BY <1>4 DEF WriteEnds, Continue
<1>5. CASE PartsSent
  <2>1. call.pc = "parts" /\ call' = Returned(call)
    BY <1>5, Zenon DEF PartsSent, Continue, Returned
  <2>2. QED
    BY <1>0, <2>1, ReturnedFact DEF CallHasFile
<1>6. CASE Finalize
  <2>1. \/ call' = Idle \/ call' = [call EXCEPT !.pc = "check"] \/ call'.f = call.f
    BY <1>1, <1>6, FinalizeCases, Zenon DEF Throw, Continue
  <2>2. QED
    BY <1>0, <2>1 DEF CallType
<1>7. CASE CheckSize
  <2>1. \/ call' = Idle \/ call' = [call EXCEPT !.pc = "parts", !.after = "last"]
    BY <1>7, Zenon DEF CheckSize, Throw, Continue
  <2>2. QED
    BY <1>0, <2>1 DEF CallType
<1>8. ASSUME NEW lost \in Losses, SendPart(lost) PROVE call' = Idle \/ call'.f = call.f
  <2>1. call' = Idle \/ call' = [call EXCEPT !.part = @ + 1]
    BY <1>2, <1>8, Zenon DEF SendPart
  <2>2. QED
    BY <1>0, <2>1, NextPart, Zenon
<1>9. ASSUME NEW lost \in Losses, SendLast(lost) PROVE call' = Idle \/ call'.f = call.f
  BY <1>2, <1>9, Zenon DEF SendLast
<1>10. ASSUME NEW lost \in Losses, CommitFile(lost) PROVE call' = Idle \/ call'.f = call.f \/ call'.pc = "finalize"
  <2>1. call.pc = "last" /\ (call' = Idle \/ call' = Committed)
    BY <1>10, Zenon DEF CommitFile, Request, Throw, Continue
  <2>2. QED
    BY <2>1, CommittedPlace
<1>11. ASSUME NEW lost \in Losses, FetchKey(lost) PROVE call' = Idle \/ call'.f = call.f
  <2>1. call' = Idle \/ call' = [call EXCEPT !.pc = "sendFile", !.keyId = storeKey]
    BY <1>11, Zenon DEF FetchKey, Throw, Continue
  <2>2. QED
    BY <1>0, <2>1 DEF CallType
<1>12. ASSUME NEW lost \in Losses, SendFile(lost) PROVE call' = Idle \/ call'.f = call.f
  <2>1. call' = Idle \/ call' = [call EXCEPT !.pc = "fetch", !.retried = TRUE]
    BY <1>12, Zenon DEF SendFile, Throw, Continue
  <2>2. QED
    BY <1>0, <2>1 DEF CallType
<1>13. ASSUME NEW lost \in Losses, InboxSend(lost) PROVE call' = Idle
  BY <1>13 DEF InboxSend, Throw
<1>14. QED
  BY <1>3, <1>4, <1>5, <1>6, <1>7, <1>8, <1>9, <1>10, <1>11, <1>12, <1>13, Zenon DEF Work

(* What the server has of a file without a request does not matter.        *)
LEMMA GoodNone ==
  ASSUME NEW f, NEW g, NEW s, NEW t, NEW c, NEW bad, g.request = None \/ t = s, Good(f, g, s, c, bad)
  PROVE  Good(f, g, t, c, bad)
<1>1. CASE t = s
  BY <1>1
<1>2. CASE g.request = None
  <2>1. \A n : ~Done(f, g, s, n, bad)
    BY <1>2, Zenon DEF Done
  <2>2. \A o, m, n : Open(f, g, s, o, m, n) => Open(f, g, t, o, m, n)
    BY <1>2, Zenon DEF Open
  <2>3. Ready(f, g, s, bad) => Ready(f, g, t, bad)
    BY <2>1, <2>2, Zenon DEF Ready
  <2>4. QED
    BY <2>1, <2>2, <2>3, Zenon DEF Good
<1>3. QED
  BY <1>1, <1>2

(* A step of the call leaves the other files alone, on the server too.     *)
LEMMA OtherSent ==
  ASSUME UploadInv, Work, NEW f \in Files, f # call.f
  PROVE  file'[f] = file[f] /\ (file[f].request = None \/ Sent(file[f])' = Sent(file[f]))
<1>1. Types /\ CallHasFile /\ PlacesInv
  BY DEF UploadInv
<1>2. FileStep /\ SentStep /\ call.f \in Files
  BY <1>1, WorkEffect DEF Effect, FileStep
<1>3. file'[f] = file[f]
  BY <1>1, <1>2, ShapeKept
<1>4. ASSUME file[f].request # None PROVE Sent(file[f])' = Sent(file[f])
  <2> DEFINE a == file[f].request
             b == file[f].index
  <2>1. a \in 1..Len(request) /\ b \in 1..Len(request[a])
    BY <1>1, <1>4, SentFact
  <2>2. ~(a = file[call.f].request /\ b = file[call.f].index)
    BY <1>1, <1>2, <1>4 DEF PlacesInv
  <2> HIDE DEF a, b
  <2>3. request'[a][b] = request[a][b] \/ (a = file[call.f].request /\ b = file[call.f].index)
    BY <1>1, <1>2, <2>1, ShapeKept, Zenon
  <2>4. request'[a][b] = request[a][b]
    BY <2>2, <2>3
  <2>5. QED
    BY <1>3, <2>4 DEF Sent, a, b
<1>5. QED
  BY <1>3, <1>4

LEMMA WorkClean ==
  ASSUME UploadInv, KeyInv, CleanInv, TornInv, FreshInv, Work
  PROVE  CleanInv' /\ TornInv' /\ FreshInv'
<1>1. Types /\ CallHasFile
  BY DEF UploadInv
<1>2. FileStep /\ SentStep /\ entry' = entry /\ faulty \subseteq faulty' /\ call.f \in Files
  BY <1>1, WorkEffect DEF Effect, FileStep
<1>3. \A f \in Files : Kept(file[f], file'[f])
  BY <1>1, <1>2, ShapeKept
<1>4. \A f \in Files : (file[f].early => file'[f].early) /\ file'[f].request = file[f].request
  BY <1>3, Zenon DEF Kept
<1>5. \A f \in Files : Misused(f) => Misused(f)'
  BY <1>2, <1>4, MisusedIs, MisusedNext
<1>6. call' = Idle \/ call'.f = call.f \/ call'.pc = "finalize"
  BY <1>1, WorkCall
<1>7. Idle.f = None /\ None \notin Files
  BY IdleFacts, Constants
<1>8. ASSUME NEW f \in Files, ~file'[f].torn, ~Misused(f)'
      PROVE  Good(f, file'[f], Sent(file[f])', call', f \in faulty')
  <2>1. ~Misused(f) /\ ~file'[f].early /\ ~file[f].early
    BY <1>5, <1>8, MisusedNext, MisusedIs
  <2>2. CASE f = call.f
    <3>1. StepGood(f)
      BY <2>2, WorkGood
    <3>2. ~file[f].torn
      BY <1>8, <3>1, Zenon DEF StepGood
    <3>3. Fine(f)
      BY <2>1, <3>2, Zenon DEF CleanInv, Fine
    <3>4. QED
      BY <1>8, <2>1, <3>1, <3>3, Zenon DEF StepGood, KeepsGood
  <2>3. CASE f # call.f
    <3>1. file'[f] = file[f] /\ (file[f].request = None \/ Sent(file[f])' = Sent(file[f]))
      BY <2>3, OtherSent
    <3>2. Good(f, file[f], Sent(file[f]), call, f \in faulty)
      BY <1>8, <2>1, <3>1, Zenon DEF CleanInv
    <3>3. Ready(f, file[f], Sent(file[f]), f \in faulty)
      BY <2>3, <3>2, Zenon DEF Good
    <3>4. call'.f # f \/ call'.pc = "finalize"
      BY <1>6, <1>7, <2>3
    <3>5. Alike(file[f], file'[f])
      BY <3>1, Zenon DEF Alike, StreamAlike
    <3>6. Ready(f, file[f], Sent(file[f]), f \in faulty')
      BY <1>2, <3>3, Zenon DEF Ready, Done
    <3>7. Good(f, file[f], Sent(file[f]), call', f \in faulty')
      BY <3>4, <3>6, ReadyGood, Zenon
    <3>8. Good(f, file[f], Sent(file[f])', call', f \in faulty')
      BY <3>1, <3>7, GoodNone, Zenon
    <3>9. QED
      BY <3>1, <3>8
  <2>4. QED
    BY <2>2, <2>3
<1>9. ASSUME NEW f \in Files, file'[f].torn PROVE f \in faulty' \/ Misused(f)'
  <2>1. CASE file[f].torn
    BY <1>2, <1>5, <2>1 DEF TornInv
  <2>2. CASE ~file[f].torn
    <3>1. f = call.f
      BY <1>9, <2>2, OtherSent
    <3>2. CASE Misused(f)
      BY <1>5, <3>2
    <3>3. CASE ~Misused(f)
      <4>1. Fine(f)
        BY <2>2, <3>3, MisusedIs, Zenon DEF CleanInv, Fine
      <4>2. QED
        BY <1>9, <3>1, <4>1, WorkGood, Zenon DEF StepGood
    <3>4. QED
      BY <3>2, <3>3
  <2>3. QED
    BY <2>1, <2>2
<1>10. FreshInv'
  BY <1>2, <1>4 DEF FreshInv
<1>11. QED
  BY <1>8, <1>9, <1>10, Zenon DEF CleanInv, TornInv

WellInv == CleanInv /\ TornInv /\ FreshInv

(* Steps that change nothing of the bytes of any file.                     *)
SameBytes(f) ==
  /\ Alike(file[f], file'[f]) /\ file'[f].index = file[f].index
  /\ file'[f].early = file[f].early /\ file'[f].torn = file[f].torn

LEMMA AlikeClean ==
  ASSUME WellInv, request' = request, faulty' = faulty,
         \A e \in Entries : entry'[e].files = entry[e].files,
         \A f \in Files : SameBytes(f),
         \A f \in Files : \A g, s, bad : Good(f, g, s, call, bad) => Good(f, g, s, call', bad)
  PROVE  WellInv'
<1>1. \A f : Twice(entry', f) <=> Twice(entry, f)
  BY DEF Twice
<1>2. \A f \in Files : Misused(f)' <=> Misused(f)
  BY <1>1, MisusedIs, MisusedNext DEF SameBytes
<1>3. \A f \in Files : file'[f].request = file[f].request
  BY DEF SameBytes, Alike
<1>4. ASSUME NEW f \in Files, ~file'[f].torn, ~Misused(f)'
      PROVE  Good(f, file'[f], Sent(file[f])', call', f \in faulty')
  <2>1. ~file[f].torn /\ ~Misused(f) /\ Alike(file[f], file'[f]) /\ file'[f].index = file[f].index
    BY <1>2, <1>4 DEF SameBytes
  <2>2. Good(f, file[f], Sent(file[f]), call, f \in faulty)
    BY <2>1, Zenon DEF WellInv, CleanInv
  <2>3. Sent(file[f])' = Sent(file[f])
    BY <1>3, <2>1, SameSent
  <2>4. Good(f, file[f], Sent(file[f]), call', f \in faulty)
    BY <2>2, Zenon
  <2>5. Good(f, file'[f], Sent(file[f]), call', f \in faulty)
    <3>1. PICK bad \in BOOLEAN : bad = (f \in faulty)
      BY Bad
    <3>2. Good(f, file'[f], Sent(file[f]), call', bad)
      BY <2>1, <2>4, <3>1, GoodSame
    <3>3. QED
      BY <3>1, <3>2
  <2>6. QED
    BY <2>3, <2>5
<1>5. CleanInv'
  BY <1>4, Zenon DEF CleanInv
<1>6. TornInv'
  BY <1>2 DEF WellInv, TornInv, SameBytes
<1>7. FreshInv'
  BY <1>3 DEF WellInv, FreshInv
<1>8. QED
  BY <1>5, <1>6, <1>7 DEF WellInv

(* Between calls every file is ready.                                      *)
LEMMA IdleReady ==
  ASSUME NEW f, f # None, NEW g, NEW s, NEW bad, Good(f, g, s, Idle, bad) PROVE Ready(f, g, s, bad)
BY IdleFacts, Zenon DEF Good

LEMMA GoneSame ==
  ASSUME Types, NEW fs, RemoveFileHandles(fs) PROVE \A f \in Files : SameBytes(f)
<1>1. TAKE f \in Files
<1>2. file[f] \in FileType /\ file'[f] \in {file[f], Gone(file[f])}
  BY RemoveFact DEF Types
<1>3. QED
  BY <1>2, GoneFact DEF SameBytes, Alike, StreamAlike

LEMMA ReleaseClean ==
  ASSUME Types, CallHasFile, WellInv, ReleaseHandles
  PROVE  WellInv'
<1> DEFINE next == [call EXCEPT !.pc = "send"]
<1>1. /\ call.pc = "release" /\ call' \in {next, Idle} /\ request' = request /\ faulty' = faulty
      /\ entry' = [entry EXCEPT ![call.e].state = "gone"] /\ RemoveFileHandles(entry[call.e].files)
  BY DEF ReleaseHandles, keys, losses
<1>2. call \in CallType /\ call.e \in Entries /\ call.op = "send" /\ call.part = 0
  BY <1>1, IdleFacts DEF Types, CallHasFile, CallShape, PartsShape
<1>3. next.pc = "send" /\ next.f = call.f /\ next.op = call.op /\ next.part = call.part
  BY <1>2 DEF CallType
<1> HIDE DEF next
<1>4. ASSUME NEW f \in Files, NEW g, NEW s, NEW bad, Good(f, g, s, call, bad) PROVE Good(f, g, s, call', bad)
  <2>0. 0 * PartSize = 0
    BY PartSizeNat
  <2>1. CASE call' = Idle
    <3>1. Ready(f, g, s, bad)
      <4>1. CASE call.f # f
        BY <1>4, <4>1, Zenon DEF Good
      <4>2. CASE call.f = f
        <5>1. Done(f, g, s, call.part * PartSize, bad)
          BY <1>1, <1>2, <1>4, <4>2 DEF Good
        <5>2. Done(f, g, s, 0, bad)
          BY <1>2, <2>0, <5>1
        <5>3. QED
          BY <5>2, Zenon DEF Ready
      <4>3. QED
        BY <4>1, <4>2
    <3>2. call'.f # f
      BY <2>1, IdleFacts, Constants
    <3>3. QED
      BY <3>1, <3>2, ReadyGood, Zenon
  <2>2. CASE call' = next
    BY <1>1, <1>2, <1>3, <1>4, <2>2 DEF Good
  <2>3. QED
    BY <1>1, <2>1, <2>2
<1>5. \A e \in Entries : entry'[e].files = entry[e].files
  BY <1>1, <1>2, EntryGone
<1>6. \A f \in Files : SameBytes(f)
  BY <1>1, GoneSame
<1>7. QED
  BY <1>1, <1>4, <1>5, <1>6, AlikeClean, Zenon

LEMMA IdleTo ==
  ASSUME NEW f \in Files, NEW g, NEW s, NEW bad, NEW c, Good(f, g, s, Idle, bad), c = Idle \/ c.pc = "finalize"
  PROVE  Good(f, g, s, c, bad)
<1>1. f # None
  BY Constants
<1>2. QED
  BY <1>1, IdleReady, ReadyGood, Zenon

(* closeFile and sendEntry begin; an entry without files is sent.          *)
LEMMA CloseClean ==
  ASSUME Types, WellInv, NEW f \in Files, CloseFile(f) PROVE WellInv'
<1> DEFINE h == [file[f] EXCEPT !.state = "gone", !.began = storeKey]
<1>1. /\ call = Idle /\ file' = [file EXCEPT ![f] = h] /\ call' = Started("close", f, None, "finalize")
      /\ entry' = entry /\ request' = request /\ faulty' = faulty
  BY DEF CloseFile, losses, Types
<1>2. call'.pc = "finalize"
  BY <1>1 DEF Started, Idle
<1>3. /\ Alike(file[f], h) /\ h.index = file[f].index /\ h.early = file[f].early /\ h.torn = file[f].torn
  BY DEF Types, FileType, Alike, StreamAlike
<1> HIDE DEF h
<1>4. \A g \in Files : file'[g] = IF g = f THEN h ELSE file[g]
  BY <1>1 DEF Types
<1>5. \A g \in Files : SameBytes(g)
  BY <1>3, <1>4 DEF SameBytes, Alike, StreamAlike
<1>6. \A k \in Files : \A g, s, bad : Good(k, g, s, call, bad) => Good(k, g, s, call', bad)
  BY <1>1, <1>2, IdleTo, Zenon
<1>7. QED
  BY <1>1, <1>5, <1>6, AlikeClean

LEMMA SendEntryClean ==
  ASSUME Types, WellInv, NEW e \in Entries, SendEntry(e) PROVE WellInv'
<1>1. /\ call = Idle /\ request' = request /\ faulty' = faulty
      /\ \/ /\ call' = Started("send", entry[e].files[1], e, "finalize") /\ file' = file /\ entry' = entry
         \/ /\ entry' = [entry EXCEPT ![e].state = "gone"] /\ RemoveFileHandles(entry[e].files) /\ call' = call
  BY SendEntryCases
<1>2. call' = Idle \/ call'.pc = "finalize"
  BY <1>1 DEF Started, Idle
<1>3. \A d \in Entries : entry'[d].files = entry[d].files
  BY <1>1, EntryGone
<1>4. \A g \in Files : SameBytes(g)
  <2>1. CASE file' = file
    BY <2>1 DEF SameBytes, Alike, StreamAlike
  <2>2. CASE RemoveFileHandles(entry[e].files)
    BY <2>2, GoneSame
  <2>3. QED
    BY <1>1, <2>1, <2>2
<1>5. \A k \in Files : \A g, s, bad : Good(k, g, s, call, bad) => Good(k, g, s, call', bad)
  BY <1>1, <1>2, IdleTo, Zenon
<1>6. QED
  BY <1>1, <1>3, <1>4, <1>5, AlikeClean

LEMMA StillClean ==
  ASSUME WellInv, UNCHANGED <<file, entry, call, request, faulty>> PROVE WellInv'
<1>1. \A g \in Files : SameBytes(g)
  BY DEF SameBytes, Alike, StreamAlike
<1>2. QED
  BY <1>1, AlikeClean

LEMMA PlainConcat ==
  ASSUME NEW a \in Plain, NEW b \in Plain
  PROVE  /\ a \o b \in Plain /\ Len(a \o b) = Len(a) + Len(b)
         /\ \A i \in 1..Len(a) : (a \o b)[i] = a[i]
         /\ \A i \in 1..Len(b) : (a \o b)[Len(a) + i] = b[i]
BY ConcatFact DEF Plain

(* write: bytes are added to the buffer.                                   *)
LEMMA BuffersAdd ==
  ASSUME NEW f \in Files, NEW buf \in Plain, NEW total \in Nat, NEW seq \in Nat, NEW len \in Nat,
         Buffers(f, buf, total, seq, 0, 0)
  PROVE  Buffers(f, buf \o DataOf(f, total, len), total + len, seq, 0, 0)
<1> DEFINE data == DataOf(f, total, len)
           both == buf \o data
           n == Len(buf)
           p == seq * ChunkSize
           z == 0 * ChunkSize
<1>1. data \in Plain /\ Len(data) = len /\ \A k \in 1..len : data[k] = <<f, total + k>>
  BY DataFact
<1>2. /\ Len(both) = n + len /\ n \in Nat
      /\ \A i \in 1..n : both[i] = buf[i]
      /\ \A i \in 1..len : both[n + i] = data[i]
  <2> HIDE DEF data
  <2>2. /\ Len(buf \o data) = Len(buf) + Len(data)
        /\ \A i \in 1..Len(buf) : (buf \o data)[i] = buf[i]
        /\ \A i \in 1..Len(data) : (buf \o data)[Len(buf) + i] = data[i]
    BY <1>1, PlainConcat
  <2>3. Len(buf) \in Nat
    BY PlainEmpty
  <2>4. QED
    BY <1>1, <2>2, <2>3, Zenon
<1>3. n <= total /\ p + n = total + 0 /\ \A j \in 1..n : buf[j] = <<f, total - n + j>>
  BY DEF Buffers
<1>4. p \in Nat /\ z = 0
  BY Constants
<1> HIDE DEF data, both, n, p, z
<1>5. ASSUME NEW j \in 1..(n + len) PROVE both[j] = <<f, (total + len) - (n + len) + j>>
  <2>1. CASE j <= n
    <3>1. j \in 1..n /\ total - n + j = (total + len) - (n + len) + j
      BY <1>2, <1>5, <2>1
    <3>2. QED
      BY <1>2, <1>3, <3>1
  <2>2. CASE j > n
    <3>1. j - n \in 1..len /\ n + (j - n) = j
      BY <1>2, <1>5, <2>2
    <3>2. both[j] = data[j - n]
      BY <1>2, <3>1
    <3>3. data[j - n] = <<f, total + (j - n)>>
      BY <1>1, <3>1
    <3>4. total + (j - n) = (total + len) - (n + len) + j
      BY <1>2, <1>5
    <3>5. QED
      BY <3>2, <3>3, <3>4
  <2>3. QED
    BY <1>2, <1>5, <2>1, <2>2
<1>6. Len(both) <= total + len /\ p + Len(both) = total + len + 0 /\ 0 + z <= Len(both)
  BY <1>2, <1>3, <1>4
<1>7. \A j \in 1..Len(both) : both[j] = <<f, (total + len) - Len(both) + j>>
  BY <1>2, <1>5
<1>8. QED
  BY <1>6, <1>7 DEF Buffers, both, p, z, data

LEMMA BufferedOpen ==
  ASSUME NEW f \in Files, NEW g \in FileType, NEW s, NEW len \in Nat, Open(f, g, s, 0, 0, 0)
  PROVE  Open(f, Buffered(g, f, len), s, 0, 0, 0)
<1> DEFINE h == Buffered(g, f, len)
<1>1. /\ h.buf = g.buf \o DataOf(f, g.total, len) /\ h.total = g.total + len
      /\ h.key = g.key /\ h.request = g.request /\ h.seq = g.seq /\ h.sums = g.sums
      /\ h.encrypted = g.encrypted /\ h.processed = g.processed /\ h.uploaded = g.uploaded
      /\ h.serverSeq = g.serverSeq
  BY BufferedFact, Zenon
<1> HIDE DEF h
<1>2. g.buf \in Plain /\ g.total \in Nat /\ g.seq \in Nat
  BY DEF FileType
<1>3. Buffers(f, g.buf, g.total, g.seq, 0, 0)
  BY Zenon DEF Open, Writing
<1>4. Buffers(f, h.buf, h.total, h.seq, 0, 0)
  BY <1>1, <1>2, <1>3, BuffersAdd
<1>5. Writing(f, h, 0, 0)
  BY <1>1, <1>4, Zenon DEF Open, Writing
<1>6. StreamAlike(g, h)
  BY <1>1 DEF StreamAlike
<1>7. Open(f, h, s, 0, 0, 0)
  BY <1>1, <1>5, <1>6, StreamSame, Zenon DEF Open, Untouched
<1>8. QED
  BY <1>7 DEF h

LEMMA BufferedDone ==
  ASSUME NEW f \in Files, NEW g \in FileType, NEW s, NEW bad, NEW len \in Nat, Done(f, g, s, 0, bad),
         g.total + len <= FileSize[f]
  PROVE  Done(f, Buffered(g, f, len), s, 0, bad)
<1> DEFINE h == Buffered(g, f, len)
<1>0. /\ h \in FileType /\ h.buf = g.buf \o DataOf(f, g.total, len) /\ h.total = g.total + len
      /\ h.key = g.key /\ h.request = g.request /\ h.seq = g.seq /\ h.sums = g.sums
      /\ h.encrypted = g.encrypted /\ h.processed = g.processed /\ h.uploaded = g.uploaded
      /\ h.serverSeq = g.serverSeq
  BY BufferedFact, Zenon
<1> HIDE DEF h
<1>1. g.total \in Nat /\ g.buf \in Plain /\ h.buf \in Plain
  BY <1>0 DEF FileType
<1>2. g.buf = <<>> /\ g.total = FileSize[f]
  BY Zenon DEF Done, Finished
<1>3. len = 0 /\ h.total = g.total
  BY <1>0, <1>1, <1>2
<1>4. h.buf = <<>>
  <2> DEFINE data == DataOf(f, g.total, len)
  <2>1. data \in Plain /\ Len(data) = 0
    BY <1>1, <1>3, DataFact
  <2>2. Len(g.buf \o data) = Len(g.buf) + Len(data) /\ Len(g.buf) = 0
    BY <1>1, <1>2, <2>1, ConcatFact, PlainEmpty DEF Plain
  <2> HIDE DEF data
  <2>3. Len(h.buf) = 0
    BY <1>0, <2>1, <2>2 DEF data
  <2>4. QED
    BY <1>1, <2>3, PlainEmpty
<1>5. Alike(g, h)
  BY <1>0, <1>2, <1>3, <1>4 DEF Alike, StreamAlike
<1>6. Done(f, h, s, 0, bad)
  BY <1>5, AlikeSame, Zenon
<1>7. QED
  BY <1>6 DEF h

(* A file of which the server has nothing yet.                             *)
LEMMA FreshOpen ==
  ASSUME NEW f \in Files, NEW g, Untouched(g), Writing(f, g, 0, 0), NEW s,
         g.request = None \/ (~s.committed /\ s.parts = 0 /\ s.data = <<>>)
  PROVE  Open(f, g, s, 0, 0, 0)
<1>1. g.sums = <<>> /\ g.encrypted = <<>> /\ g.serverSeq = 0 /\ Len(<<>>) = 0
  BY DEF Untouched
<1>2. ChunksOf(f) \in Nat /\ StreamLen(f, 0) = 0
  BY ChunksFact, StreamLenFact
<1>3. \A key : SumsIn(f, key, <<>>)
  BY <1>1, <1>2 DEF SumsIn
<1>4. \A key : InOrder(f, key, 0, <<>>, <<>>, 0)
  BY <1>1, <1>2 DEF InOrder, DataIn
<1>5. SumsOK(f, g)
  BY <1>1, <1>3 DEF SumsOK
<1>6. CASE g.request = None
  BY <1>5, <1>6, Zenon DEF Open
<1>7. CASE ~s.committed /\ s.parts = 0 /\ s.data = <<>>
  <2>1. Exact(f, g, s, 0)
    BY <1>1, <1>4, <1>7 DEF Exact
  <2>2. QED
    BY <1>5, <2>1, Zenon DEF Open
<1>8. QED
  BY <1>6, <1>7

LEMMA EmptyWriting ==
  ASSUME NEW f, NEW g, g.buf = <<>>, g.total = 0, g.seq = 0, g.processed = 0, g.uploaded = 0, g.sums = <<>>
  PROVE  Writing(f, g, 0, 0) /\ Len(g.buf) < ChunkSize
<1>1. Len(<<>>) = 0 /\ 0 * ChunkSize = 0 /\ (0 + 0) * ChunkSize = 0 /\ 0 < ChunkSize
  BY Constants
<1>2. Buffers(f, <<>>, 0, 0, 0, 0)
  BY <1>1 DEF Buffers
<1>3. QED
  BY <1>1, <1>2 DEF Writing

(* A handle that has just been made.                                       *)
LEMMA NewReady ==
  ASSUME NEW f \in Files, NEW g, NEW s, NEW bad,
         /\ g.buf = <<>> /\ g.total = 0 /\ g.seq = 0 /\ g.processed = 0 /\ g.uploaded = 0 /\ g.sums = <<>>
         /\ g.encrypted = <<>> /\ g.serverSeq = 0,
         g.request = None \/ (~s.committed /\ s.parts = 0 /\ s.data = <<>>)
  PROVE  Good(f, g, s, Idle, bad)
<1>1. Untouched(g) /\ Writing(f, g, 0, 0) /\ Len(g.buf) < ChunkSize
  BY EmptyWriting DEF Untouched
<1>2. Open(f, g, s, 0, 0, 0)
  BY <1>1, FreshOpen
<1>3. Ready(f, g, s, bad)
  BY <1>1, <1>2 DEF Ready
<1>4. Idle.f # f
  BY IdleFacts, Constants
<1>5. QED
  BY <1>3, <1>4, ReadyGood

(* A handle is made: the other files stay.                                 *)
LEMMA NewClean ==
  ASSUME UploadInv, WellInv, NEW f \in Files, call = Idle, call' = Idle, entry' = entry, faulty' = faulty,
         \A h \in Files \ {f} : file'[h] = file[h],
         \A a \in 1..Len(request) : request'[a] = request[a],
         ~file'[f].torn, f \in StoreFiles \/ file'[f].request = None,
         Good(f, file'[f], Sent(file[f])', Idle, f \in faulty)
  PROVE  WellInv'
<1>1. \A h \in Files \ {f} : Misused(h)' <=> Misused(h)
  BY MisusedIs, MisusedNext
<1>2. ASSUME NEW h \in Files, ~file'[h].torn, ~Misused(h)'
      PROVE  Good(h, file'[h], Sent(file[h])', call', h \in faulty')
  <2>1. CASE h = f
    BY <2>1
  <2>2. CASE h # f
    <3>1. file'[h] = file[h] /\ ~Misused(h)
      BY <1>1, <1>2, <2>2
    <3>2. Good(h, file[h], Sent(file[h]), call', h \in faulty')
      BY <1>2, <3>1, Zenon DEF WellInv, CleanInv
    <3>3. file[h].request = None \/ Sent(file[h])' = Sent(file[h])
      <4>1. file[h].request # None => file[h].request \in 1..Len(request)
        BY SentFact DEF UploadInv
      <4>2. QED
        BY <3>1, <4>1 DEF Sent
    <3>4. QED
      BY <3>1, <3>2, <3>3, GoodNone, Zenon
  <2>3. QED
    BY <2>1, <2>2
<1>3. CleanInv'
  BY <1>2, Zenon DEF CleanInv
<1>4. TornInv'
  BY <1>1 DEF WellInv, TornInv
<1>5. FreshInv'
  BY DEF WellInv, FreshInv
<1>6. QED
  BY <1>3, <1>4, <1>5 DEF WellInv

LEMMA NewSentFact ==
  ASSUME NEW n PROVE ~NewSent(n).committed /\ NewSent(n).parts = 0 /\ NewSent(n).data = <<>>
BY DEF NewSent

LEMMA CreateClean ==
  ASSUME UploadInv, WellInv, NEW f \in Files, NEW update \in BOOLEAN, CreateFile(f, update) PROVE WellInv'
<1> DEFINE r == Len(request) + 1
           g == [NewFile EXCEPT !.request = r, !.index = 1, !.key = <<r, 1>>, !.update = update]
<1>0. Types
  BY DEF UploadInv
<1>1. /\ call = Idle /\ f \in StoreFiles /\ r \in Nat /\ entry' = entry /\ call' = call /\ faulty' = faulty
      /\ file'[f] = g /\ \A h \in Files \ {f} : file'[h] = file[h]
      /\ \A a \in 1..Len(request) : request'[a] = request[a]
      /\ request'[r][1] = NewSent(FileSize[f])
  BY <1>0, CreateFileIs, Zenon
<1> HIDE DEF r
<1>2. /\ g.buf = <<>> /\ g.total = 0 /\ g.seq = 0 /\ g.processed = 0 /\ g.uploaded = 0 /\ g.sums = <<>>
      /\ g.encrypted = <<>> /\ g.serverSeq = 0 /\ g.request = r /\ g.index = 1 /\ g.torn = FALSE
  BY DEF NewFile
<1> HIDE DEF g
<1>3. Sent(file[f])' = NewSent(FileSize[f])
  BY <1>1, <1>2 DEF Sent
<1>4. \A bad : Good(f, g, NewSent(FileSize[f]), Idle, bad)
  BY <1>2, NewReady, NewSentFact
<1>5. Good(f, file'[f], Sent(file[f])', Idle, f \in faulty)
  BY <1>1, <1>3, <1>4
<1>6. ~file'[f].torn
  BY <1>1, <1>2
<1>7. QED
  BY <1>1, <1>5, <1>6, NewClean

LEMMA HandleClean ==
  ASSUME UploadInv, WellInv, NEW f \in Files, CreateFileHandle(f) PROVE WellInv'
<1>1. /\ call = Idle /\ entry' = entry /\ call' = call /\ request' = request /\ faulty' = faulty
      /\ file' = [file EXCEPT ![f] = NewFile]
  BY DEF CreateFileHandle, losses
<1>2. file'[f] = NewFile /\ \A h \in Files \ {f} : file'[h] = file[h]
  BY <1>1 DEF UploadInv, Types
<1>3. /\ NewFile.buf = <<>> /\ NewFile.total = 0 /\ NewFile.seq = 0 /\ NewFile.processed = 0
      /\ NewFile.uploaded = 0 /\ NewFile.sums = <<>>
      /\ NewFile.encrypted = <<>> /\ NewFile.serverSeq = 0 /\ NewFile.request = None /\ NewFile.torn = FALSE
  BY DEF NewFile
<1>4. \A s, bad : Good(f, NewFile, s, Idle, bad)
  BY <1>3, NewReady
<1>5. QED
  BY <1>1, <1>2, <1>3, <1>4, NewClean

LEMMA WellInit == ASSUME Init PROVE WellInv
<1> DEFINE g == [NewFile EXCEPT !.state = "none"]
<1>1. file = [f \in Files |-> g] /\ call = Idle
  BY DEF Init
<1>2. /\ g.buf = <<>> /\ g.total = 0 /\ g.seq = 0 /\ g.processed = 0 /\ g.uploaded = 0 /\ g.sums = <<>>
      /\ g.encrypted = <<>> /\ g.serverSeq = 0 /\ g.request = None /\ g.torn = FALSE
  BY DEF NewFile
<1> HIDE DEF g
<1>3. \A f \in Files : file[f] = g
  BY <1>1
<1>4. \A f \in Files : \A s, bad : Good(f, g, s, Idle, bad)
  BY <1>2, NewReady
<1>5. CleanInv
  BY <1>1, <1>3, <1>4, Zenon DEF CleanInv
<1>6. TornInv /\ FreshInv
  BY <1>2, <1>3 DEF TornInv, FreshInv
<1>7. QED
  BY <1>5, <1>6 DEF WellInv

LEMMA WriteClean ==
  ASSUME UploadInv, WellInv, NEW f \in Files, NEW len \in Nat, Write(f, len) PROVE WellInv'
<1> DEFINE h == Buffered(file[f], f, len)
           c == Started("write", f, None, "write")
<1>0. Types
  BY DEF UploadInv
<1>1. /\ call = Idle /\ entry' = entry /\ request' = request /\ faulty' = faulty
      /\ \/ UNCHANGED <<file, call>>
         \/ file[f].total + len <= FileSize[f] /\ file' = [file EXCEPT ![f] = h] /\ call' = c
  BY <1>0, WriteCases
<1>2. c.f = f /\ c.pc = "write" /\ c.op = "write" /\ c.chunk = 0
  BY DEF Started, Idle
<1>3. file[f] \in FileType
  BY <1>0 DEF Types
<1>4. /\ h.request = file[f].request /\ h.index = file[f].index /\ h.early = file[f].early /\ h.torn = file[f].torn
  BY <1>3, BufferedFact, Zenon
<1>5. CASE UNCHANGED <<file, call>>
  BY <1>1, <1>5, StillClean
<1>6. CASE file[f].total + len <= FileSize[f] /\ file' = [file EXCEPT ![f] = h] /\ call' = c
  <2> HIDE DEF c
  <2>1. file'[f] = h /\ \A g \in Files \ {f} : file'[g] = file[g]
    BY <1>0, <1>6 DEF Types
  <2>2. \A g \in Files : /\ file'[g].request = file[g].request /\ file'[g].index = file[g].index
                         /\ file'[g].early = file[g].early /\ file'[g].torn = file[g].torn
    BY <1>4, <2>1
  <2>3. \A g \in Files : Misused(g)' <=> Misused(g)
    BY <1>1, <2>2, MisusedIs, MisusedNext
  <2>4. ASSUME NEW g \in Files, ~file'[g].torn, ~Misused(g)'
        PROVE  Good(g, file'[g], Sent(file[g])', call', g \in faulty')
    <3>0. PICK bad \in BOOLEAN : bad = (g \in faulty)
      BY Bad
    <3>1. Good(g, file[g], Sent(file[g]), Idle, bad)
      BY <1>1, <2>2, <2>3, <2>4, <3>0 DEF WellInv, CleanInv
    <3>2. Sent(file[g])' = Sent(file[g])
      BY <1>1, <2>2, SameSent
    <3>3. Ready(g, file[g], Sent(file[g]), bad)
      BY <3>1, IdleReady, Constants
    <3>4. CASE g # f
      <4>1. Good(g, file[g], Sent(file[g]), c, bad)
        BY <1>2, <3>3, <3>4, ReadyGood
      <4>2. QED
        BY <1>1, <1>6, <2>1, <3>0, <3>2, <3>4, <4>1
    <3>5. CASE g = f
      <4> DEFINE s == Sent(file[f])
      <4>0. Ready(f, file[f], s, bad)
        BY <3>3, <3>5
      <4> HIDE DEF s
      <4>1. Open(f, h, s, 0, 0, 0) \/ Done(f, h, s, 0, bad)
        <5>1. CASE Open(f, file[f], s, 0, 0, 0)
          BY <1>3, <5>1, BufferedOpen
        <5>2. CASE Done(f, file[f], s, 0, bad)
          BY <1>3, <1>6, <5>2, BufferedDone
        <5>3. QED
          BY <4>0, <5>1, <5>2, Zenon DEF Ready
      <4> HIDE DEF h
      <4>2. 0 * ChunkSize = 0
        BY Constants
      <4>3. Good(f, h, s, c, bad)
        BY <1>2, <4>1, <4>2 DEF Good
      <4>4. QED
        BY <1>1, <1>6, <2>1, <3>0, <3>2, <3>5, <4>3 DEF s
    <3>6. QED
      BY <3>4, <3>5
  <2>5. CleanInv'
    BY <2>4, Zenon DEF CleanInv
  <2>6. TornInv'
    BY <1>1, <2>2, <2>3 DEF WellInv, TornInv
  <2>7. FreshInv'
    BY <1>1, <2>2 DEF WellInv, FreshInv
  <2>8. QED
    BY <2>5, <2>6, <2>7 DEF WellInv
<1>7. QED
  BY <1>1, <1>5, <1>6

LEMMA SetRequestKeeps ==
  ASSUME NEW g \in FileType, NEW r, NEW i, NEW h, h = SetRequestData(g, r, i)
  PROVE  /\ h.early = g.early /\ h.torn = g.torn /\ h.buf = g.buf /\ h.total = g.total
         /\ h.seq = g.seq /\ h.sums = g.sums /\ h.encrypted = g.encrypted
         /\ h.processed = g.processed /\ h.uploaded = g.uploaded /\ h.serverSeq = g.serverSeq
BY DEF SetRequestData, FileType

(* A file that gets its request from an entry and is in no other: nothing  *)
(* of it was sent before.                                                  *)
LEMMA PreparedClean ==
  ASSUME UploadInv, WellInv, NEW e \in Entries, NEW fs \in EntryFiles, PrepareEntry(e, fs),
         NEW f \in Range(fs), ~file'[f].torn, ~Misused(f)'
  PROVE  Good(f, file'[f], Sent(file[f])', Idle, f \in faulty)
<1>0. Types /\ CallHasFile /\ ListsInv /\ call = Idle /\ entry[e].state = "none"
  BY PrepareEntryIs DEF UploadInv
<1> DEFINE r == Len(request) + 1
           i == PlaceOf(fs, f)
           h == SetRequestData(file[f], r, i)
<1>1. f \in Files \ StoreFiles /\ i \in 1..Len(fs) /\ file'[f] = h /\ Sent(file[f])' = NewSent(FileSize[f])
  BY <1>0, PreparedFile, Zenon
<1>2. file[f] \in FileType /\ r \in Nat /\ i \in Nat
  <2>1. fs \in Seq(Files) /\ Len(request) \in Nat
    BY <1>0, PrepareEntryIs
  <2> HIDE DEF i
  <2>2. QED
    BY <1>0, <1>1, <2>1 DEF Types
<1> HIDE DEF r, i
<1>3. /\ h.early = file[f].early /\ h.torn = file[f].torn /\ h.buf = file[f].buf /\ h.total = file[f].total
      /\ h.seq = file[f].seq /\ h.sums = file[f].sums /\ h.encrypted = file[f].encrypted
      /\ h.processed = file[f].processed /\ h.uploaded = file[f].uploaded /\ h.serverSeq = file[f].serverSeq
  BY <1>2, SetRequestKeeps
<1> HIDE DEF h
<1>4. ~file[f].torn /\ ~file[f].early /\ ~Twice(entry', f)
  BY <1>1, <1>3, MisusedNext
<1>5. ~Twice(entry, f)
  BY <1>0, <1>4, TwiceAdded
<1>6. ~Misused(f)
  BY <1>4, <1>5, MisusedIs
<1>7. file[f].request = None
  <2>1. SUFFICES ASSUME file[f].request # None PROVE FALSE
    OBVIOUS
  <2>2. PICK d \in Entries : f \in Range(entry[d].files)
    BY <1>1, <2>1 DEF WellInv, FreshInv
  <2>3. PICK k \in DOMAIN entry[d].files : entry[d].files[k] = f
    BY <2>2 DEF Range
  <2>4. entry[e].files = <<>>
    BY <1>0 DEF ListsInv
  <2>5. d # e
    BY <2>3, <2>4
  <2>6. PICK j \in DOMAIN fs : fs[j] = f
    BY DEF Range
  <2>7. j \in 1..Len(fs)
    BY <1>0, <2>6, PrepareEntryIs
  <2>8. Twice(entry', f)
    BY <1>0, <2>3, <2>5, <2>6, <2>7, TwiceAdded
  <2>9. QED
    BY <1>4, <2>8
<1>8. Good(f, file[f], Sent(file[f]), Idle, f \in faulty)
  BY <1>0, <1>1, <1>4, <1>6, Zenon DEF WellInv, CleanInv
<1>9. Ready(f, file[f], Sent(file[f]), f \in faulty)
  BY <1>1, <1>8, IdleReady, Constants
<1>10. Untouched(file[f]) /\ Writing(f, file[f], 0, 0) /\ Len(file[f].buf) < ChunkSize
  BY <1>7, <1>9, Zenon DEF Ready, Open, Done
<1>11. Untouched(h) /\ Writing(f, h, 0, 0) /\ Len(h.buf) < ChunkSize
  BY <1>3, <1>10, Zenon DEF Untouched, Writing
<1>12. Open(f, h, NewSent(FileSize[f]), 0, 0, 0)
  BY <1>1, <1>11, FreshOpen, NewSentFact
<1>13. Ready(f, h, NewSent(FileSize[f]), f \in faulty)
  BY <1>11, <1>12, Zenon DEF Ready
<1>14. Idle.f # f
  BY <1>1, IdleFacts, Constants
<1>15. Good(f, h, NewSent(FileSize[f]), Idle, f \in faulty)
  BY <1>13, <1>14, ReadyGood, Zenon
<1>16. QED
  BY <1>1, <1>15

LEMMA PrepareClean ==
  ASSUME UploadInv, WellInv, NEW e \in Entries, NEW fs \in EntryFiles, PrepareEntry(e, fs) PROVE WellInv'
<1>0. Types /\ CallHasFile /\ ListsInv /\ call = Idle
  BY PrepareEntryIs DEF UploadInv
<1>1. /\ call' = call /\ faulty' = faulty /\ entry[e].state = "none"
      /\ \A a \in 1..Len(request) : request'[a] = request[a]
      /\ \A f \in Files : f \notin Range(fs) => file'[f] = file[f]
      /\ entry'[e] = [state |-> "open", files |-> fs] /\ \A d \in Entries \ {e} : entry'[d] = entry[d]
      /\ \A f \in Range(fs) : f \in Files
  BY <1>0, PrepareEntryIs
<1>2. \A f : Twice(entry, f) => Twice(entry', f)
  BY <1>0, TwiceAdded
<1>3. \A f \in Files : file'[f].early = file[f].early /\ file'[f].torn = file[f].torn
  <2>1. TAKE f \in Files
  <2>2. CASE f \notin Range(fs)
    BY <1>1, <2>2
  <2>3. CASE f \in Range(fs)
    <3> DEFINE r == Len(request) + 1
               i == PlaceOf(fs, f)
    <3>1. file'[f] = SetRequestData(file[f], r, i) /\ i \in 1..Len(fs)
      BY <1>0, <2>3, PreparedFile, Zenon
    <3>2. fs \in Seq(Files) /\ Len(request) \in Nat
      BY <1>0, PrepareEntryIs
    <3> HIDE DEF i
    <3>3. file[f] \in FileType /\ r \in Nat /\ i \in Nat
      BY <1>0, <3>1, <3>2 DEF Types
    <3> HIDE DEF r
    <3>4. QED
      BY <3>1, <3>3, SetRequestKeeps
  <2>4. QED
    BY <2>2, <2>3
<1>4. \A f \in Files : Misused(f) => Misused(f)'
  BY <1>2, <1>3, MisusedIs, MisusedNext
<1>5. ASSUME NEW f \in Files, ~file'[f].torn, ~Misused(f)'
      PROVE  Good(f, file'[f], Sent(file[f])', call', f \in faulty')
  <2>1. CASE f \in Range(fs)
    BY <1>0, <1>1, <1>5, <2>1, PreparedClean
  <2>2. CASE f \notin Range(fs)
    <3>1. file'[f] = file[f] /\ ~Misused(f) /\ ~file[f].torn
      BY <1>1, <1>4, <1>5, <2>2
    <3>2. Good(f, file[f], Sent(file[f]), call', f \in faulty')
      BY <1>1, <3>1, Zenon DEF WellInv, CleanInv
    <3>3. file[f].request = None \/ Sent(file[f])' = Sent(file[f])
      <4>1. file[f].request # None => file[f].request \in 1..Len(request)
        BY <1>0, SentFact
      <4>2. QED
        BY <1>1, <3>1, <4>1 DEF Sent
    <3>4. QED
      BY <3>1, <3>2, <3>3, GoodNone, Zenon
  <2>3. QED
    BY <2>1, <2>2
<1>6. CleanInv'
  BY <1>5, Zenon DEF CleanInv
<1>7. TornInv'
  BY <1>1, <1>3, <1>4 DEF WellInv, TornInv
<1>8. FreshInv'
  <2>1. SUFFICES ASSUME NEW f \in Files \ StoreFiles, file'[f].request # None
                 PROVE  \E d \in Entries : f \in Range(entry'[d].files)
    BY Zenon DEF FreshInv
  <2>2. CASE f \in Range(fs)
    <3>1. entry'[e].files = fs
      BY <1>1
    <3>2. QED
      BY <2>2, <3>1
  <2>3. CASE f \notin Range(fs)
    <3>1. PICK d \in Entries : f \in Range(entry[d].files)
      BY <1>1, <2>1, <2>3 DEF WellInv, FreshInv
    <3>2. d # e
      <4>1. entry[e].files = <<>>
        BY <1>0, <1>1 DEF ListsInv
      <4>2. QED
        BY <3>1, <4>1 DEF Range
    <3>3. QED
      BY <1>1, <3>1, <3>2
  <2>4. QED
    BY <2>2, <2>3
<1>9. QED
  BY <1>6, <1>7, <1>8 DEF WellInv

LEMMA WellNext == ASSUME UploadInv, KeyInv, WellInv, [Next]_vars PROVE WellInv'
<1>0. Types /\ CallHasFile
  BY DEF UploadInv
<1>1. CASE Work
  BY <1>1, WorkClean DEF WellInv
<1>2. CASE ReleaseHandles
  BY <1>0, <1>2, ReleaseClean
<1>3. CASE Begin
  <2>1. ASSUME NEW e \in Entries, NEW lost \in Losses, SendText(e, lost) PROVE WellInv'
    <3>1. UNCHANGED <<file, entry, call, request, faulty>>
      BY <2>1 DEF SendText
    <3>2. QED
      BY <3>1, StillClean
  <2>2. QED
    BY <1>0, <1>3, <2>1, BeginCases, CreateClean, CloseClean, HandleClean, WriteClean, SendEntryClean, PrepareClean
<1>4. CASE RotateKey
  <2>1. UNCHANGED <<file, entry, call, request, faulty>>
    BY <1>4 DEF RotateKey, losses
  <2>2. QED
    BY <2>1, StillClean
<1>5. CASE UNCHANGED vars
  <2>1. UNCHANGED <<file, entry, call, request, faulty>>
    BY <1>5 DEF vars, losses
  <2>2. QED
    BY <2>1, StillClean
<1>6. QED
  BY <1>1, <1>2, <1>3, <1>4, <1>5, StepIs DEF Next

-----------------------------------------------------------------------------
(* How a step of a call goes on, and with what it ends.                    *)

Ended(f, x) ==
  /\ call' = Idle /\ outcome' = [outcome EXCEPT ![Caller] = x]
  /\ x \in {"lost", "refused", "size", "smaller", "different", "stored", "InvalidKey"}
  /\ x = "lost" => Concerned \subseteq faulty'
  /\ x \in {"stored", "InvalidKey"} => call.pc \in {"sendFile", "send"}
  /\ x = "different" => file[f].total # FileSize[f]
  /\ x \in Refusals => call.pc # "fetch"
  /\ x \in Refusals /\ call.pc = "sendFile" => ~TakesRequest(file[f].request, 1)
  /\ x \in Refusals /\ call.pc = "send" =>
       ~TakesRequest(file[entry[call.e].files[1]].request, Len(entry[call.e].files))

Moved(f) ==
  /\ outcome' = outcome /\ call'.op = call.op /\ call'.e = call.e /\ call'.at = call.at /\ call'.f = call.f
  /\ call.pc \notin {"release", "send"} /\ call'.pc \notin {"release", "send"}
  /\ call'.pc \in {"fetch", "sendFile"} <=> call.pc \in {"fetch", "sendFile"}
  /\ call.pc = "last" => (Sent(file[f])'.committed => Sent(file[f]).committed)

CommitOn(f) == call.pc = "last" /\ call' = Committed /\ outcome' = outcome /\ Sent(file[f])'.committed

Out(f) ==
  \/ call.op = "write" /\ call' = Idle /\ outcome' = outcome
  \/ \E x : Ended(f, x)
  \/ Moved(f)
  \/ CommitOn(f)

LEMMA ThrowOut ==
  ASSUME NEW f, NEW g, NEW x \in {"refused", "size", "smaller"}, Throw(g, x),
         call.pc \notin {"fetch", "sendFile", "send"}
  PROVE  Out(f)
<1>1. Ended(f, x)
  BY DEF Ended, Throw
<1>2. QED
  BY <1>1 DEF Out

LEMMA RequestOut ==
  ASSUME NEW f, NEW takes, NEW lost \in Losses, NEW s, NEW before, NEW after, NEW next,
         Request(takes, lost, s, before, after, next), call.pc \notin {"fetch", "sendFile", "send"}
  PROVE  (\E x : Ended(f, x)) \/ (takes /\ call' = next /\ outcome' = outcome)
<1>1. CASE takes /\ lost = "no" /\ Continue(after, next)
  BY <1>1 DEF Continue
<1>2. CASE (~takes \/ lost # "no") /\ Throw(before, IF lost = "no" THEN "refused" ELSE "lost")
  <2>1. CASE lost = "no"
    <3>1. Throw(before, "refused")
      BY <1>2, <2>1
    <3>2. Ended(f, "refused")
      BY <3>1 DEF Throw, Ended
    <3>3. QED
      BY <3>2
  <2>2. CASE lost # "no"
    <3>1. Throw(before, "lost") /\ faulty' = faulty \cup Concerned
      BY <1>2, <2>2 DEF Request, CountLoss
    <3>2. Concerned \subseteq faulty'
      BY <3>1
    <3>3. Ended(f, "lost")
      BY <3>1, <3>2 DEF Throw, Ended, Refusals
    <3>4. QED
      BY <3>3
  <2>3. QED
    BY <2>1, <2>2
<1>3. QED
  BY <1>1, <1>2, Zenon DEF Request

LEMMA PrepareOut ==
  ASSUME call \in CallType, NEW f, NEW g, NEW data \in Plain, NEW after \in {"write", "check"},
         PrepareAndSendChunk(g, data, after), call.pc \in {"write", "finalize"}
  PROVE  Out(f)
<1>1. CASE \E h : Throw(h, "size")
  BY <1>1, ThrowOut
<1>2. CASE outcome' = outcome /\ call' = ToParts(call, Len(data), after)
  <2>1. Len(data) \in Nat
    BY PlainEmpty
  <2>2. PICK n \in Nat : n = Len(data)
    BY <2>1
  <2>3. call' = ToParts(call, n, after)
    BY <1>2, <2>2
  <2>4. /\ call'.pc = "parts" /\ call'.f = call.f /\ call'.op = call.op /\ call'.e = call.e /\ call'.at = call.at
    BY <2>3 DEF ToParts, CallType
  <2>5. QED
    BY <1>2, <2>4 DEF Moved, Out
<1>3. QED
  BY <1>1, <1>2, Zenon DEF PrepareAndSendChunk, Continue, ToParts

LEMMA LocalOut ==
  ASSUME Types, CallHasFile, NEW f, f = call.f, WriteChunk \/ WriteEnds \/ PartsSent \/ Finalize \/ CheckSize
  PROVE  Out(f)
<1>0. call \in CallType /\ CallShape(call)
  BY DEF Types, CallHasFile
<1>1. CASE WriteChunk
  <2>1. call.pc = "write" /\ call # Idle /\ call.part = 0 /\ call.chunk \in Nat
    BY <1>0, <1>1, IdleFacts DEF WriteChunk, CallShape, PartsShape, CallType
  <2>2. f \in Files /\ file[f] \in FileType /\ file[f].buf \in Plain
    BY <2>1, CallFacts DEF FileType
  <2>3. GetFullChunk(file[f].buf, ChunkSize, call.chunk) \in Plain
    BY <1>1, <2>1, <2>2, FullChunk DEF WriteChunk
  <2>4. PrepareAndSendChunk(file[f], GetFullChunk(file[f].buf, ChunkSize, call.chunk), "write")
    BY <1>1 DEF WriteChunk
  <2>5. QED
    BY <1>0, <2>1, <2>3, <2>4, PrepareOut
<1>2. CASE WriteEnds
  <2>1. call.op = "write"
    BY <1>0, <1>2, IdleFacts DEF WriteEnds, CallShape
  <2>2. QED
    BY <1>2, <2>1 DEF WriteEnds, Continue, Out
<1>3. CASE PartsSent
  <2>1. call.pc = "parts" /\ call' = Returned(call) /\ outcome' = outcome
    BY <1>3 DEF PartsSent, Returned, Continue
  <2>2. /\ Returned(call).op = call.op /\ Returned(call).e = call.e /\ Returned(call).f = call.f
        /\ Returned(call).at = call.at /\ Returned(call).pc \in {"write", "check", "last"}
    BY <1>0, <2>1, ReturnedFact
  <2>3. QED
    BY <2>1, <2>2 DEF Moved, Out
<1>4. CASE Finalize
  <2>0. call.pc = "finalize" /\ call # Idle
    BY <1>4, FinalizeCases, IdleFacts
  <2>1. CASE file[f].total # FileSize[f] /\ Throw(file[f], "different")
    <3>1. Ended(f, "different")
      BY <2>0, <2>1 DEF Ended, Throw, Refusals
    <3>2. QED
      BY <3>1 DEF Out
  <2>2. CASE PrepareAndSendChunk(Rest(file[f]), LastChunk(file[f]), "check")
    <3>1. LastChunk(file[f]) \in Plain
      BY <2>0, CallFacts, RestFact
    <3>2. QED
      BY <1>0, <2>0, <2>2, <3>1, PrepareOut
  <2>3. CASE Continue(Rest(file[f]), [call EXCEPT !.pc = "check"])
    <3>1. outcome' = outcome /\ call' = [call EXCEPT !.pc = "check"]
      BY <2>3 DEF Continue
    <3>2. call'.op = call.op /\ call'.e = call.e /\ call'.f = call.f /\ call'.at = call.at /\ call'.pc = "check"
      BY <1>0, <3>1 DEF CallType
    <3>3. QED
      BY <2>0, <3>1, <3>2 DEF Moved, Out
  <2>4. QED
    BY <1>4, <2>1, <2>2, <2>3, FinalizeCases
<1>5. CASE CheckSize
  <2>1. call.pc = "check"
    BY <1>5 DEF CheckSize
  <2>2. CASE Throw(file[f], "smaller")
    BY <2>1, <2>2, ThrowOut
  <2>3. CASE outcome' = outcome /\ call' = [call EXCEPT !.pc = "parts", !.after = "last"]
    <3>1. call'.op = call.op /\ call'.e = call.e /\ call'.f = call.f /\ call'.at = call.at /\ call'.pc = "parts"
      BY <1>0, <2>3 DEF CallType
    <3>2. QED
      BY <2>1, <2>3, <3>1 DEF Moved, Out
  <2>4. QED
    BY <1>5, <2>2, <2>3, Zenon DEF CheckSize, Continue
<1>6. QED
  BY <1>1, <1>2, <1>3, <1>4, <1>5

LEMMA SendPartOut ==
  ASSUME Types, CallHasFile, NEW f, f = call.f, NEW lost \in Losses, SendPart(lost)
  PROVE  Out(f)
<1> DEFINE g == file[f]
           data == GetFullChunk(g.encrypted, PartSize, call.part)
<1>0. call \in CallType
  BY DEF Types
<1>1. /\ Request(TakesChunk(g, data), lost, [Sent(g) EXCEPT !.data = @ \o data, !.parts = @ + 1],
                 g, [g EXCEPT !.serverSeq = @ + 1], [call EXCEPT !.part = @ + 1])
      /\ call.pc = "parts"
  BY Zenon DEF SendPart, SendChunkToServer
<1>2. (\E x : Ended(f, x)) \/ (call' = [call EXCEPT !.part = @ + 1] /\ outcome' = outcome)
  BY <1>1, RequestOut
<1>3. ASSUME call' = [call EXCEPT !.part = @ + 1], outcome' = outcome PROVE Moved(f)
  <2>1. /\ call'.op = call.op /\ call'.e = call.e /\ call'.f = call.f /\ call'.at = call.at /\ call'.pc = "parts"
    BY <1>0, <1>1, <1>3 DEF CallType
  <2>2. QED
    BY <1>1, <1>3, <2>1 DEF Moved
<1>4. QED
  BY <1>2, <1>3, Zenon DEF Out

LEMMA SendLastOut ==
  ASSUME UploadInv, NEW f, f = call.f, NEW lost \in Losses, SendLast(lost)
  PROVE  Out(f)
<1> DEFINE g == file[f]
           s == Sent(g)
           part == g.encrypted
           e == [g EXCEPT !.encrypted = <<>>]
           t == [s EXCEPT !.data = @ \o part, !.parts = @ + 1]
           h == [e EXCEPT !.serverSeq = @ + 1]
           takes == e.request # None /\ Fits(e, s, part)
<1>1. call.pc = "last" /\ SendChunkToServer(e, part, lost, call)
  BY DEF SendLast
<1>2. Types /\ CallHasFile
  BY DEF UploadInv
<1>3. call # Idle
  BY <1>1, IdleFacts
<1>4. f \in Files /\ g \in FileType /\ call \in CallType /\ part \in Stream
  BY <1>2, <1>3, CallFacts DEF CallType, FileType
<1>5. e \in FileType /\ Kept(g, e)
  BY <1>4, DrainedIs, Zenon
<1>6. (\E x : Ended(f, x)) \/ (call' = call /\ outcome' = outcome)
  <2>1. Request(TakesChunk(e, part), lost, [Sent(e) EXCEPT !.data = @ \o part, !.parts = @ + 1],
                e, [e EXCEPT !.serverSeq = @ + 1], call)
    BY <1>1, Zenon DEF SendChunkToServer
  <2> HIDE DEF e, part
  <2>2. QED
    BY <1>1, <2>1, RequestOut
<1> HIDE DEF e
<1>7. /\ takes => SentBy(s, part, t)
      /\ (takes /\ Answered(f, h, call, t)) \/ LostOn(f, e, takes, t) \/ (~takes /\ RefusedOn(f, e))
  <2> DEFINE q == part
  <2>1. q \in Stream /\ SendChunkToServer(e, q, lost, call) /\ Kept(file[f], e)
    BY <1>1, <1>4, <1>5
  <2>2. q = part
    OBVIOUS
  <2> HIDE DEF q
  <2>3. LET t2 == [s EXCEPT !.data = @ \o q, !.parts = @ + 1]
            takes2 == e.request # None /\ Fits(e, s, q)
        IN /\ takes2 => s \in SentType /\ t2 \in SentType /\ SentBy(s, q, t2)
           /\ (takes2 /\ Answered(f, h, call, t2)) \/ LostOn(f, e, takes2, t2) \/ (~takes2 /\ RefusedOn(f, e))
    BY <1>3, <1>5, <2>1, SendCases, Zenon
  <2>4. QED
    BY <2>2, <2>3
<1> HIDE DEF t, h
<1>8. Sent(file[f])'.committed => s.committed
  BY <1>7, Zenon DEF Answered, LostOn, RefusedOn, SentBy
<1>9. ASSUME call' = call, outcome' = outcome PROVE Moved(f)
  BY <1>1, <1>8, <1>9 DEF Moved
<1>10. QED
  BY <1>6, <1>9, Zenon DEF Out

LEMMA CommitFileOut ==
  ASSUME UploadInv, NEW f, f = call.f, NEW lost \in Losses, CommitFile(lost)
  PROVE  Out(f)
<1> DEFINE g == file[f]
           s == Sent(g)
           t == [s EXCEPT !.committed = TRUE, !.sums = g.sums]
<1>1. call.pc = "last" /\ Request(TakesCommit(g), lost, t, g, g, Committed)
  BY DEF CommitFile
<1>2. Types /\ CallHasFile
  BY DEF UploadInv
<1>3. call # Idle
  BY <1>1, IdleFacts
<1>4. f \in Files /\ g \in FileType /\ call \in CallType /\ g.sums \in Sums
  BY <1>2, <1>3, CallFacts DEF CallType, FileType
<1>5. (\E x : Ended(f, x)) \/ (TakesCommit(g) /\ call' = Committed /\ outcome' = outcome)
  BY <1>1, RequestOut
<1>6. ASSUME TakesCommit(g), call' = Committed, outcome' = outcome PROVE CommitOn(f)
  <2>1. g.request # None
    BY <1>6 DEF TakesCommit
  <2>2. t \in SentType /\ t.committed
    <3>1. s \in SentType
      BY <1>2, <1>4, <2>1, SentFact
    <3>2. QED
      BY <1>4, <3>1, CommitRecord, Zenon
  <2> HIDE DEF t
  <2>3. Committed # Idle
    BY <1>1, <1>2, CommittedFact, IdleFacts
  <2>4. request' = [request EXCEPT ![g.request][g.index] = t] /\ file' = [file EXCEPT ![call.f] = g]
    <3>1. ~Throw(g, IF lost = "no" THEN "refused" ELSE "lost")
      BY <1>6, <2>3 DEF Throw
    <3>2. QED
      BY <1>1, <1>6, <3>1 DEF Request, Continue
  <2>5. file'[f].request = file[f].request /\ file'[f].index = file[f].index
    BY <1>2, <1>4, <2>4 DEF Types
  <2>6. Sent(file[f])' = t
    BY <1>2, <1>4, <2>1, <2>2, <2>4, <2>5, SentPut
  <2>7. QED
    BY <1>1, <1>6, <2>2, <2>6 DEF CommitOn
<1>7. QED
  BY <1>5, <1>6, Zenon DEF Out

LEMMA KeyOut ==
  ASSUME Types, CallHasFile, NEW f, f = call.f, NEW lost \in Losses, FetchKey(lost) \/ SendFile(lost)
  PROVE  Out(f)
<1>0. call \in CallType
  BY DEF Types
<1>1. CASE FetchKey(lost)
  <2>1. CASE lost # "no"
    <3>1. call.pc = "fetch" /\ Throw(file[f], "lost") /\ faulty' = faulty \cup Concerned
      BY <1>1, <2>1 DEF FetchKey, CountLoss
    <3>2. Concerned \subseteq faulty'
      BY <3>1
    <3>3. Ended(f, "lost")
      BY <3>1, <3>2 DEF Throw, Ended, Refusals
    <3>4. QED
      BY <3>3 DEF Out
  <2>2. CASE lost = "no"
    <3>1. call.pc = "fetch" /\ outcome' = outcome /\ call' = [call EXCEPT !.pc = "sendFile", !.keyId = storeKey]
      BY <1>1, <2>2 DEF FetchKey, Continue
    <3>2. /\ call'.op = call.op /\ call'.e = call.e /\ call'.f = call.f /\ call'.at = call.at
          /\ call'.pc = "sendFile"
      BY <1>0, <3>1 DEF CallType
    <3>3. QED
      BY <3>1, <3>2 DEF Moved, Out
  <2>3. QED
    BY <2>1, <2>2
<1>2. CASE SendFile(lost)
  <2> DEFINE g == file[f]
             fresh == call.keyId = storeKey
             takes == fresh /\ TakesRequest(g.request, 1)
             error == IF lost # "no" THEN "lost" ELSE IF takes THEN "stored"
                      ELSE IF fresh THEN "refused" ELSE "InvalidKey"
  <2>1. /\ call.pc = "sendFile" /\ CountLoss(lost)
        /\ \/ Continue(g, [call EXCEPT !.pc = "fetch", !.retried = TRUE])
           \/ Throw(g, error)
    BY <1>2 DEF SendFile
  <2>2. CASE Continue(g, [call EXCEPT !.pc = "fetch", !.retried = TRUE])
    <3>1. outcome' = outcome /\ call' = [call EXCEPT !.pc = "fetch", !.retried = TRUE]
      BY <2>2 DEF Continue
    <3>2. /\ call'.op = call.op /\ call'.e = call.e /\ call'.f = call.f /\ call'.at = call.at /\ call'.pc = "fetch"
      BY <1>0, <3>1 DEF CallType
    <3>3. QED
      BY <2>1, <3>1, <3>2 DEF Moved, Out
  <2>3. CASE Throw(g, error)
    <3>1. error \in {"lost", "stored", "refused", "InvalidKey"}
      OBVIOUS
    <3>2. error = "refused" => ~TakesRequest(file[f].request, 1)
      OBVIOUS
    <3>3. error = "lost" => Concerned \subseteq faulty'
      BY <2>1 DEF CountLoss
    <3> HIDE DEF error
    <3>4. Ended(f, error)
      BY <2>1, <2>3, <3>1, <3>2, <3>3 DEF Throw, Ended, Refusals
    <3>5. QED
      BY <3>4 DEF Out
  <2>4. QED
    BY <2>1, <2>2, <2>3
<1>3. QED
  BY <1>1, <1>2

LEMMA InboxSendOut ==
  ASSUME Types, CallHasFile, NEW f, f = call.f, NEW lost \in Losses, InboxSend(lost)
  PROVE  Out(f)
<1> DEFINE takes == TakesRequest(file[entry[call.e].files[1]].request, Len(entry[call.e].files))
           error == IF lost # "no" THEN "lost" ELSE IF takes THEN "stored" ELSE "refused"
<1>1. call.pc = "send" /\ Throw(file[f], error) /\ CountLoss(lost)
  BY DEF InboxSend
<1>2. error \in {"lost", "stored", "refused"} /\ (error = "refused" => ~takes)
  OBVIOUS
<1>3. error = "lost" => Concerned \subseteq faulty'
  BY <1>1 DEF CountLoss
<1> HIDE DEF error
<1>4. Ended(f, error)
  BY <1>1, <1>2, <1>3 DEF Throw, Ended, Refusals
<1>5. QED
  BY <1>4 DEF Out

LEMMA WorkOut ==
  ASSUME UploadInv, Work, NEW f, f = call.f
  PROVE  Out(f)
<1>1. Types /\ CallHasFile
  BY DEF UploadInv
<1>2. QED
  BY <1>1, LocalOut, SendPartOut, SendLastOut, CommitFileOut, KeyOut, InboxSendOut DEF Work

(* What is stored by a step.                                               *)
StoredStep ==
  \/ stored' = stored
  \/ /\ call.pc = "sendFile" /\ TakesRequest(file[call.f].request, 1)
     /\ stored' = Created(call.f, file[call.f].request, <<call.f>>)
  \/ /\ call.pc = "send" /\ TakesRequest(file[entry[call.e].files[1]].request, Len(entry[call.e].files))
     /\ stored' = Created(call.e, file[entry[call.e].files[1]].request, entry[call.e].files)
  \/ /\ call = Idle
     /\ \E e \in Entries : entry[e].files = <<>> /\ stored' = Created(e, None, <<>>)

LEMMA WorkStored == ASSUME Work PROVE StoredStep
<1>1. CASE WriteChunk \/ WriteEnds \/ PartsSent \/ Finalize \/ CheckSize
  BY <1>1 DEF WriteChunk, WriteEnds, PartsSent, Finalize, CheckSize, PrepareAndSendChunk, StoredStep
<1>2. ASSUME NEW lost \in Losses, SendPart(lost) \/ SendLast(lost) \/ CommitFile(lost) PROVE StoredStep
  BY <1>2, Zenon DEF SendPart, SendLast, CommitFile, SendChunkToServer, Request, StoredStep
<1>3. ASSUME NEW lost \in Losses, FetchKey(lost) PROVE StoredStep
  BY <1>3 DEF FetchKey, StoredStep
<1>4. ASSUME NEW lost \in Losses, SendFile(lost) PROVE StoredStep
  BY <1>4, SMTT(30) DEF SendFile, StoredStep
<1>5. ASSUME NEW lost \in Losses, InboxSend(lost) PROVE StoredStep
  BY <1>5 DEF InboxSend, StoredStep
<1>6. QED
  BY <1>1, <1>2, <1>3, <1>4, <1>5, SMTT(30) DEF Work

LEMMA NextStored == ASSUME [Next]_vars PROVE StoredStep
<1>1. CASE Work
  BY <1>1, WorkStored
<1>2. CASE ReleaseHandles
  BY <1>2 DEF ReleaseHandles, StoredStep
<1>3. CASE Begin
  <2>1. ASSUME NEW e \in Entries, NEW lost \in Losses, SendText(e, lost) PROVE StoredStep
    BY <2>1, SMTT(30) DEF SendText, StoredStep
  <2>2. ASSUME NEW f \in Files, \/ CloseFile(f) \/ CreateFileHandle(f)
                                \/ \E update \in BOOLEAN : CreateFile(f, update)
                                \/ \E len \in Nat : Write(f, len)
        PROVE  StoredStep
    BY <2>2 DEF CloseFile, CreateFileHandle, CreateFile, Write, StoredStep
  <2>3. ASSUME NEW e \in Entries, SendEntry(e) \/ \E fs \in EntryFiles : PrepareEntry(e, fs)
        PROVE  StoredStep
    BY <2>3, Zenon DEF SendEntry, PrepareEntry, StoredStep
  <2>4. QED
    BY <1>3, <2>1, <2>2, <2>3, BeginCases
<1>4. CASE RotateKey \/ UNCHANGED vars
  BY <1>4 DEF RotateKey, vars, StoredStep
<1>5. QED
  BY <1>1, <1>2, <1>3, <1>4, StepIs DEF Next

-----------------------------------------------------------------------------
(* What the server has made stays as it is.                                *)

LEMMA MarksStay ==
  ASSUME UploadInv, KeyInv, [Next]_vars, NEW f \in Files, file[f].state # "none"
  PROVE  (file[f].torn => file'[f].torn) /\ (Misused(f) => Misused(f)')
<1>0. Types /\ CallHasFile /\ PlacesInv /\ ListsInv
  BY DEF UploadInv
<1> DEFINE Marks == (file[f].torn => file'[f].torn) /\ (file[f].early => file'[f].early)
<1>1. ASSUME Work PROVE Marks
  <2>1. FileStep /\ SentStep /\ call.f \in Files
    BY <1>0, <1>1, WorkEffect DEF Effect, FileStep
  <2>2. Kept(file[f], file'[f]) /\ (f # call.f => file'[f] = file[f])
    BY <1>0, <2>1, ShapeKept
  <2>3. f = call.f => StepGood(f)
    BY <1>1, WorkGood
  <2>4. f = call.f => (file[f].torn => file'[f].torn)
    BY <2>3, Zenon DEF StepGood
  <2>5. QED
    BY <2>2, <2>4, Zenon DEF Kept
<1>2. ASSUME \A g \in Files : SameBytes(g) PROVE Marks
  BY <1>2 DEF SameBytes
<1>3. ASSUME ReleaseHandles PROVE Marks
  BY <1>0, <1>2, <1>3, GoneSame DEF ReleaseHandles
<1>4. ASSUME NEW e \in Entries, SendEntry(e) PROVE Marks
  <2>1. file' = file \/ RemoveFileHandles(entry[e].files)
    BY <1>0, <1>4, SendEntryCases
  <2>2. QED
    BY <1>0, <1>2, <2>1, GoneSame
<1>5. ASSUME NEW g \in Files, CloseFile(g) PROVE Marks
  <2>1. file' = [file EXCEPT ![g] = [file[g] EXCEPT !.state = "gone", !.began = storeKey]]
    BY <1>0, <1>5 DEF CloseFile, Types
  <2>2. QED
    BY <1>0, <2>1 DEF Types, FileType
<1>6. ASSUME NEW g \in Files, NEW update \in BOOLEAN, CreateFile(g, update) PROVE Marks
  <2>1. file'[f] = file[f]
    BY <1>0, <1>6, CreateFileIs
  <2>2. QED
    BY <2>1
<1>7. ASSUME NEW g \in Files, CreateFileHandle(g) PROVE Marks
  <2>1. file'[f] = file[f]
    BY <1>0, <1>7 DEF CreateFileHandle, Types
  <2>2. QED
    BY <2>1
<1>8. ASSUME NEW g \in Files, NEW len \in Nat, Write(g, len) PROVE Marks
  <2>1. file' = file \/ file' = [file EXCEPT ![g] = Buffered(file[g], g, len)]
    BY <1>0, <1>8, WriteCases
  <2>2. Buffered(file[g], g, len).torn = file[g].torn /\ Buffered(file[g], g, len).early = file[g].early
    BY <1>0, BufferedFact, ZenonT(60) DEF Types
  <2>3. QED
    BY <1>0, <2>1, <2>2 DEF Types
<1>9. ASSUME NEW e \in Entries, NEW fs \in EntryFiles, PrepareEntry(e, fs) PROVE Marks
  <2>1. CASE f \in Range(fs)
    BY <1>0, <1>9, <2>1, PrepareEntryFile, SetRequestKeeps DEF Types
  <2>2. CASE f \notin Range(fs)
    <3>1. file'[f] = file[f]
      BY <1>0, <1>9, <2>2, PrepareEntryIs
    <3>2. QED
      BY <3>1
  <2>3. QED
    BY <2>1, <2>2
<1>10. ASSUME RotateKey \/ UNCHANGED vars \/ \E e \in Entries, lost \in Losses : SendText(e, lost) PROVE Marks
  <2>1. file' = file
    BY <1>10 DEF RotateKey, vars, SendText
  <2>2. QED
    BY <2>1
<1> HIDE DEF Marks
<1>11. Marks
  BY <1>1, <1>3, <1>4, <1>5, <1>6, <1>7, <1>8, <1>9, <1>10, BeginCases, StepIs, Zenon DEF Next
<1>12. Twice(entry, f) => Twice(entry', f)
  BY <1>0, ListStep
<1>13. QED
  BY <1>11, <1>12, MisusedIs, MisusedNext DEF Marks

LEMMA RequestStays ==
  ASSUME UploadInv, [Next]_vars, NEW a \in 1..Len(request)
  PROVE  /\ a \in 1..Len(request') /\ Len(request'[a]) = Len(request[a])
         /\ \A b \in 1..Len(request[a]) : request[a][b].committed => request'[a][b] = request[a][b]
<1>0. Types /\ CallHasFile /\ PlacesInv /\ ListsInv
  BY DEF UploadInv
<1>1. CASE Work
  <2>1. FileStep /\ SentStep
    BY <1>0, <1>1, WorkEffect DEF Effect, FileStep
  <2>2. QED
    BY <1>0, <2>1, ShapeKept
<1>2. CASE request' = request
  BY <1>2
<1>3. CASE \A d \in 1..Len(request) : d \in 1..Len(request') /\ request'[d] = request[d]
  BY <1>3
<1>4. CASE Begin
  <2>1. ASSUME NEW f \in Files, CloseFile(f) \/ CreateFileHandle(f) PROVE request' = request
    BY <2>1 DEF CloseFile, CreateFileHandle
  <2>2. ASSUME NEW f \in Files, NEW len \in Nat, Write(f, len) PROVE request' = request
    BY <1>0, <2>2, WriteCases
  <2>3. ASSUME NEW e \in Entries, SendEntry(e) PROVE request' = request
    BY <1>0, <2>3, SendEntryCases
  <2>4. ASSUME NEW e \in Entries, NEW lost \in Losses, SendText(e, lost) PROVE request' = request
    BY <2>4 DEF SendText
  <2>5. ASSUME NEW f \in Files, NEW update \in BOOLEAN, CreateFile(f, update)
        PROVE  \A d \in 1..Len(request) : d \in 1..Len(request') /\ request'[d] = request[d]
    BY <1>0, <2>5, CreateFileIs
  <2>6. ASSUME NEW e \in Entries, NEW fs \in EntryFiles, PrepareEntry(e, fs)
        PROVE  \A d \in 1..Len(request) : d \in 1..Len(request') /\ request'[d] = request[d]
    BY <1>0, <2>6, PrepareEntryIs
  <2>7. (request' = request) \/ (\A d \in 1..Len(request) : d \in 1..Len(request') /\ request'[d] = request[d])
    BY <1>4, <2>1, <2>2, <2>3, <2>4, <2>5, <2>6, BeginCases, Zenon
  <2>8. QED
    BY <1>2, <1>3, <2>7
<1>5. CASE ReleaseHandles \/ RotateKey \/ UNCHANGED vars
  BY <1>2, <1>5 DEF ReleaseHandles, RotateKey, vars
<1>6. QED
  BY <1>1, <1>4, <1>5, StepIs DEF Next

LEMMA StateStays ==
  ASSUME UploadInv, [Next]_vars, NEW f \in Files, file[f].state # "none" PROVE file'[f].state # "none"
BY GrowsNext DEF UploadInv, Grows

(* A file that is well and committed is whole.                             *)
Whole(f, content, meta) ==
  /\ content.sums = meta.sums /\ Len(content.data) = DeclaredSize(FileSize[f])
  /\ DataIn(f, meta.key, content.data) /\ SumsIn(f, meta.key, meta.sums)
  /\ Len(meta.sums) = ChunksOf(f) /\ meta.size = FileSize[f]

LEMMA DoneWhole ==
  ASSUME NEW f, NEW g, NEW s, NEW n, NEW bad, Done(f, g, s, n, bad), s.committed
  PROVE  Whole(f, s, MetaOf(g))
<1>1. MetaOf(g).key = g.key /\ MetaOf(g).sums = g.sums /\ MetaOf(g).size = g.uploaded
  BY DEF MetaOf
<1>2. Complete(f, g, s)
  BY Zenon DEF Done, Exact, Stuck
<1>3. SumsOK(f, g) /\ Finished(f, g)
  BY Zenon DEF Done
<1>4. QED
  BY <1>1, <1>2, <1>3 DEF Complete, SumsOK, Finished, DataOK, Whole

LEMMA CommittedWhole ==
  ASSUME UploadInv, WellInv, NEW f \in Files, ~file[f].torn, ~Misused(f), file[f].request # None,
         Sent(file[f]).committed, call.pc \in {"sendFile", "send"}
  PROVE  Whole(f, Sent(file[f]), MetaOf(file[f]))
<1> DEFINE g == file[f]
           s == Sent(g)
<1>0. PICK bad \in BOOLEAN : bad = (f \in faulty)
  BY Bad
<1>1. Good(f, g, s, call, bad)
  BY <1>0 DEF WellInv, CleanInv
<1>2. \A o, m, n : ~Open(f, g, s, o, m, n)
  BY Zenon DEF Open, Exact
<1>3. call.op # "write"
  BY LastOp DEF UploadInv
<1>4. \E n : Done(f, g, s, n, bad)
  <2>1. CASE call.f = f
    BY <1>1, <1>3, <2>1 DEF Good
  <2>2. CASE call.f # f
    BY <1>1, <1>2, <2>2, Zenon DEF Good, Ready
  <2>3. QED
    BY <2>1, <2>2
<1>5. QED
  BY <1>4, DoneWhole, Zenon

(* What the server makes: a file of a Store, an entry with its files, an   *)
(* entry without files.                                                    *)
NewStored(x) ==
  \/ x.request = None /\ x.files = <<>>
  \/ /\ x.request # None /\ TakesRequest(x.request, Len(x.files)) /\ call.pc \in {"sendFile", "send"}
     /\ \E g \in Files : file[g].request = x.request
     /\ \A i \in 1..Len(x.files) : /\ x.files[i] \in Files /\ x.metas[i] = MetaOf(file[x.files[i]])
                                   /\ file[x.files[i]].request # None
     /\ (\A i \in 1..Len(x.files) : ~Misused(x.files[i])) =>
          \A i \in 1..Len(x.files) : file[x.files[i]].request = x.request /\ file[x.files[i]].index = i

LEMMA OneFile == ASSUME NEW f \in Files PROVE <<f>> \in Seq(Files) /\ Len(<<f>>) = 1 /\ <<f>>[1] = f
OBVIOUS

(* The server adds x to what it has made.                                  *)
AddedAs(x, r, fs) ==
  /\ stored' = Append(stored, x) /\ x.request = r /\ x.files = fs
  /\ \A i \in 1..Len(fs) : x.metas[i] = MetaOf(file[fs[i]])

LEMMA CreatedIs ==
  ASSUME Types, NEW by \in Files \cup Entries, NEW r \in Nat \cup {None}, NEW fs \in Seq(Files),
         stored' = Created(by, r, fs)
  PROVE  \E x \in StoredType : AddedAs(x, r, fs)
<1> DEFINE x == [by |-> by, request |-> r, files |-> fs,
                 metas |-> [i \in 1..Len(fs) |-> MetaOf(file[fs[i]])]]
<1>1. x \in StoredType
  BY CreatedFact
<1>2. Created(by, r, fs) = Append(stored, x)
  BY DEF Created
<1>3. x.request = r /\ x.files = fs /\ \A i \in 1..Len(fs) : x.metas[i] = MetaOf(file[fs[i]])
  OBVIOUS
<1> HIDE DEF x
<1>4. QED
  BY <1>1, <1>2, <1>3 DEF AddedAs

LEMMA StoredAlone ==
  ASSUME UploadInv, call.pc = "sendFile", TakesRequest(file[call.f].request, 1),
         NEW x, x.request = file[call.f].request, x.files = <<call.f>>,
         \A i \in 1..Len(<<call.f>>) : x.metas[i] = MetaOf(file[<<call.f>>[i]])
  PROVE  NewStored(x)
<1> DEFINE f == call.f
           r == file[f].request
<1>0. Types /\ CallHasFile /\ PlacesInv
  BY DEF UploadInv
<1>1. f \in StoreFiles /\ f \in Files
  BY <1>0, IdleFacts, Constants DEF CallHasFile, CallShape
<1>2. r # None
  BY DEF TakesRequest
<1>3. file[f].index = 1
  BY <1>0, <1>1, <1>2 DEF PlacesInv
<1>4. Len(<<f>>) = 1 /\ <<f>>[1] = f
  BY <1>1, OneFile
<1> HIDE DEF f, r
<1>5. x.files = <<f>> /\ x.request = r /\ TakesRequest(r, 1) /\ file[f].request = r
  BY DEF f, r
<1>6. \A i \in 1..Len(x.files) : i = 1 /\ x.files[i] = f /\ x.metas[i] = MetaOf(file[f])
  BY <1>4, <1>5, SMTT(30) DEF f
<1>7. QED
  BY <1>1, <1>2, <1>3, <1>4, <1>5, <1>6 DEF NewStored

LEMMA StoredTogether ==
  ASSUME UploadInv, call.pc = "send", NEW fs, fs = entry[call.e].files,
         TakesRequest(file[fs[1]].request, Len(fs)),
         NEW x, x.request = file[fs[1]].request, x.files = fs,
         \A i \in 1..Len(fs) : x.metas[i] = MetaOf(file[fs[i]])
  PROVE  NewStored(x)
<1> DEFINE e == call.e
<1>0. Types /\ CallHasFile /\ ListsInv
  BY DEF UploadInv
<1>1. e \in Entries /\ call.at \in 1..Len(fs)
  BY <1>0, IdleFacts DEF CallHasFile, CallShape
<1>2. /\ fs \in Seq(Files) /\ DOMAIN fs = 1..Len(fs) /\ Len(fs) \in Nat
      /\ \A i \in 1..Len(fs) : fs[i] \in Files
  BY <1>0, <1>1, ListFact
<1>3. 1 \in 1..Len(fs)
  BY <1>0, <1>1, <1>2, SMTT(30) DEF Types, CallType
<1>4. \A i \in 1..Len(fs) : file[fs[i]].request # None
  BY <1>0, <1>1, <1>2, SMTT(30) DEF ListsInv
<1>5. ASSUME \A i \in 1..Len(fs) : ~Misused(fs[i])
      PROVE  \A i \in 1..Len(fs) : file[fs[i]].request = x.request /\ file[fs[i]].index = i
  <2>1. \A i \in 1..Len(fs) : ~Twice(entry, fs[i])
    BY <1>5, MisusedIs, SMTT(30)
  <2>2. \A i \in 1..Len(fs) : InList(e, i)
    BY <1>0, <1>1, <1>2, <2>1, SMTT(30) DEF ListsInv
  <2>3. \A i \in 1..Len(fs) : file[fs[i]].index = i
    BY <2>2, ZenonT(60) DEF InList
  <2>4. \A j \in DOMAIN fs : ~Twice(entry, fs[j]) => file[fs[j]].request = file[fs[1]].request
    BY <1>3, <2>2, ZenonT(60) DEF InList
  <2>5. \A j \in 1..Len(fs) : file[fs[j]].request = file[fs[1]].request
    BY <1>2, <2>1, <2>4
  <2>6. QED
    BY <2>3, <2>5
<1>6. QED
  BY <1>2, <1>3, <1>4, <1>5, ZenonT(60) DEF NewStored

LEMMA StoredCases ==
  ASSUME UploadInv, [Next]_vars
  PROVE  stored' = stored \/ \E x \in StoredType : stored' = Append(stored, x) /\ NewStored(x)
<1>0. Types /\ CallHasFile
  BY DEF UploadInv
<1>1. CASE /\ call.pc = "sendFile" /\ TakesRequest(file[call.f].request, 1)
           /\ stored' = Created(call.f, file[call.f].request, <<call.f>>)
  <2>1. call.f \in Files /\ file[call.f].request \in Nat \cup {None}
    BY <1>0, <1>1, IdleFacts, CallFacts DEF FileType
  <2>2. <<call.f>> \in Seq(Files)
    BY <2>1, OneFile
  <2>3. PICK fs \in Seq(Files) : fs = <<call.f>>
    BY <2>2
  <2>4. PICK x \in StoredType : AddedAs(x, file[call.f].request, fs)
    <3>1. PICK by \in Files \cup Entries : by = call.f
      BY <2>1
    <3>2. PICK r \in Nat \cup {None} : r = file[call.f].request
      BY <2>1
    <3>3. stored' = Created(by, r, fs)
      BY <1>1, <2>3, <3>1, <3>2
    <3>4. QED
      BY <1>0, <3>2, <3>3, CreatedIs
  <2>5. NewStored(x)
    BY <1>1, <2>3, <2>4, StoredAlone DEF AddedAs
  <2>6. QED
    BY <2>4, <2>5 DEF AddedAs
<1>2. CASE /\ call.pc = "send" /\ TakesRequest(file[entry[call.e].files[1]].request, Len(entry[call.e].files))
           /\ stored' = Created(call.e, file[entry[call.e].files[1]].request, entry[call.e].files)
  <2>1. call.e \in Entries /\ call.at \in 1..Len(entry[call.e].files)
    BY <1>0, <1>2, IdleFacts DEF CallHasFile, CallShape
  <2>2. PICK fs \in Seq(Files) : fs = entry[call.e].files
    BY <1>0, <2>1, ListFact
  <2>3. fs[1] \in Files
    BY <1>0, <2>1, <2>2 DEF Types, CallType
  <2>4. PICK r \in Nat \cup {None} : r = file[fs[1]].request
    BY <1>0, <2>3 DEF Types, FileType
  <2>5. PICK x \in StoredType : AddedAs(x, r, fs)
    <3>1. PICK by \in Files \cup Entries : by = call.e
      BY <2>1
    <3>2. stored' = Created(by, r, fs)
      BY <1>2, <2>2, <2>4, <3>1, SMTT(30)
    <3>3. QED
      BY <1>0, <3>2, CreatedIs
  <2>6. NewStored(x)
    BY <1>2, <2>2, <2>4, <2>5, StoredTogether DEF AddedAs
  <2>7. QED
    BY <2>5, <2>6 DEF AddedAs
<1>3. ASSUME NEW e \in Entries, stored' = Created(e, None, <<>>)
      PROVE  \E x \in StoredType : stored' = Append(stored, x) /\ NewStored(x)
  <2>1. PICK fs \in Seq(Files) : fs = <<>>
    <3>1. <<>> \in Seq(Files)
      BY EmptySeq
    <3>2. QED
      BY <3>1
  <2>2. PICK x \in StoredType : stored' = Append(stored, x) /\ x.request = None /\ x.files = fs
    <3>1. stored' = Created(e, None, fs)
      BY <1>3, <2>1
    <3>2. QED
      <4>1. PICK r \in Nat \cup {None} : r = None
        OBVIOUS
      <4>2. PICK by \in Files \cup Entries : by = e
        OBVIOUS
      <4>3. stored' = Created(by, r, fs)
        BY <3>1, <4>1, <4>2
      <4>4. QED
        BY <1>0, <4>1, <4>3, CreatedIs DEF AddedAs
  <2>3. QED
    BY <2>1, <2>2 DEF NewStored
<1>4. QED
  BY <1>1, <1>2, <1>3, NextStored DEF StoredStep

StoredInv ==
  \A k \in DOMAIN stored :
    /\ stored[k].request = None => stored[k].files = <<>>
    /\ stored[k].request # None =>
         /\ stored[k].request \in 1..Len(request) /\ Len(stored[k].files) = Len(request[stored[k].request])
         /\ \A i \in 1..Len(stored[k].files) : request[stored[k].request][i].committed
    /\ \A i \in 1..Len(stored[k].files) : /\ stored[k].files[i] \in Files /\ file[stored[k].files[i]].state # "none"
                                          /\ stored[k].metas[i] \in MetaType

WholeInv ==
  \A k \in DOMAIN stored :
    (\A i \in 1..Len(stored[k].files) : ~Misused(stored[k].files[i])) =>
      \A i \in 1..Len(stored[k].files) :
        \/ file[stored[k].files[i]].torn
        \/ Whole(stored[k].files[i], request[stored[k].request][i], stored[k].metas[i])

(* The same of one thing that is stored.                                   *)
StoredOne(x) ==
  /\ x.request = None => x.files = <<>>
  /\ x.request # None =>
       /\ x.request \in 1..Len(request) /\ Len(x.files) = Len(request[x.request])
       /\ \A i \in 1..Len(x.files) : request[x.request][i].committed
  /\ \A i \in 1..Len(x.files) : /\ x.files[i] \in Files /\ file[x.files[i]].state # "none"
                                /\ x.metas[i] \in MetaType

WholeOne(x) ==
  (\A i \in 1..Len(x.files) : ~Misused(x.files[i])) =>
    \A i \in 1..Len(x.files) : file[x.files[i]].torn \/ Whole(x.files[i], request[x.request][i], x.metas[i])

LEMMA NewStoredOne == ASSUME UploadInv, WellInv, NEW x \in StoredType, NewStored(x) PROVE StoredOne(x) /\ WholeOne(x)
<1>0. Types /\ CallHasFile /\ PlacesInv /\ Len(<<>>) = 0
  BY DEF UploadInv
<1>1. CASE x.request = None /\ x.files = <<>>
  BY <1>0, <1>1 DEF StoredOne, WholeOne
<1>2. CASE x.request # None
  <2>1. /\ TakesRequest(x.request, Len(x.files)) /\ call.pc \in {"sendFile", "send"}
        /\ \E g \in Files : file[g].request = x.request
        /\ \A i \in 1..Len(x.files) : /\ x.files[i] \in Files /\ x.metas[i] = MetaOf(file[x.files[i]])
                                      /\ file[x.files[i]].request # None
        /\ (\A i \in 1..Len(x.files) : ~Misused(x.files[i])) =>
             \A i \in 1..Len(x.files) : file[x.files[i]].request = x.request /\ file[x.files[i]].index = i
    BY <1>2, Zenon DEF NewStored
  <2>2. x.request \in 1..Len(request)
    BY <1>0, <1>2, <2>1 DEF CallHasFile
  <2>3. /\ Len(request[x.request]) = Len(x.files)
        /\ \A i \in 1..Len(x.files) : request[x.request][i].committed
    BY <2>1, Zenon DEF TakesRequest
  <2>4. \A i \in 1..Len(x.files) : file[x.files[i]].state # "none"
    BY <1>0, <2>1 DEF PlacesInv
  <2>a. \A i \in 1..Len(x.files) : x.metas[i] \in MetaType
    <3>1. \A i \in 1..Len(x.files) : file[x.files[i]] \in FileType
      BY <1>0, <2>1 DEF Types
    <3>2. \A i \in 1..Len(x.files) : MetaOf(file[x.files[i]]) \in MetaType
      BY <3>1 DEF MetaOf, MetaType, FileType
    <3>3. QED
      BY <2>1, <3>2
  <2>5. StoredOne(x)
    BY <1>2, <2>1, <2>2, <2>3, <2>4, <2>a DEF StoredOne
  <2>6. ASSUME \A i \in 1..Len(x.files) : ~Misused(x.files[i]), NEW i \in 1..Len(x.files), ~file[x.files[i]].torn
        PROVE  Whole(x.files[i], request[x.request][i], x.metas[i])
    <3>1. PICK f \in Files : f = x.files[i]
      BY <2>1
    <3>2. file[f].request = x.request /\ file[f].index = i /\ x.metas[i] = MetaOf(file[f]) /\ ~Misused(f)
      BY <2>1, <2>6, <3>1
    <3>3. Sent(file[f]) = request[x.request][i]
      BY <3>2 DEF Sent
    <3>4. Sent(file[f]).committed
      BY <2>3, <3>3
    <3>5. Whole(f, Sent(file[f]), MetaOf(file[f]))
      BY <1>2, <2>1, <2>6, <3>1, <3>2, <3>4, CommittedWhole
    <3>6. QED
      BY <3>1, <3>2, <3>3, <3>5
  <2>7. WholeOne(x)
    BY <2>6 DEF WholeOne
  <2>8. QED
    BY <2>5, <2>7
<1>3. QED
  BY <1>1, <1>2 DEF NewStored

LEMMA OneStays ==
  ASSUME UploadInv, KeyInv, [Next]_vars, NEW x, StoredOne(x)
  PROVE  StoredOne(x)' /\ (WholeOne(x) => WholeOne(x)')
<1>0. Len(<<>>) = 0
  OBVIOUS
<1>1. \A i \in 1..Len(x.files) : /\ x.files[i] \in Files /\ file[x.files[i]].state # "none"
                                 /\ x.metas[i] \in MetaType
  BY Zenon DEF StoredOne
<1>2. \A i \in 1..Len(x.files) : /\ file'[x.files[i]].state # "none"
                                 /\ file[x.files[i]].torn => file'[x.files[i]].torn
                                 /\ Misused(x.files[i]) => Misused(x.files[i])'
  BY <1>1, StateStays, MarksStay
<1>3. CASE x.request # None
  <2>1. /\ x.request \in 1..Len(request) /\ Len(x.files) = Len(request[x.request])
        /\ \A i \in 1..Len(x.files) : request[x.request][i].committed
    BY <1>3, Zenon DEF StoredOne
  <2>2. /\ x.request \in 1..Len(request') /\ Len(request'[x.request]) = Len(request[x.request])
        /\ \A i \in 1..Len(x.files) : request'[x.request][i] = request[x.request][i]
    BY <2>1, RequestStays
  <2>3. StoredOne(x)'
    BY <1>1, <1>2, <1>3, <2>1, <2>2 DEF StoredOne
  <2>4. WholeOne(x) => WholeOne(x)'
    BY <1>2, <2>2 DEF WholeOne
  <2>5. QED
    BY <2>3, <2>4
<1>4. CASE x.request = None
  <2>1. x.files = <<>>
    BY <1>4, Zenon DEF StoredOne
  <2>2. QED
    BY <1>0, <1>4, <2>1 DEF StoredOne, WholeOne
<1>5. QED
  BY <1>3, <1>4

LEMMA StoredNext ==
  ASSUME UploadInv, KeyInv, WellInv, StoredInv, WholeInv, [Next]_vars
  PROVE  StoredInv' /\ WholeInv'
<1>0. Types
  BY DEF UploadInv
<1>1. \A k \in DOMAIN stored : StoredOne(stored[k]) /\ WholeOne(stored[k])
  BY Zenon DEF StoredInv, WholeInv, StoredOne, WholeOne
<1>2. \A x : StoredOne(x) /\ WholeOne(x) => StoredOne(x)' /\ WholeOne(x)'
  BY OneStays
<1>3. \A k \in DOMAIN stored' : \E x : x = stored'[k] /\ StoredOne(x) /\ WholeOne(x)
  <2>1. CASE stored' = stored
    BY <1>1, <2>1
  <2>2. ASSUME NEW x \in StoredType, stored' = Append(stored, x), NewStored(x)
        PROVE  \A k \in DOMAIN stored' : \E y : y = stored'[k] /\ StoredOne(y) /\ WholeOne(y)
    <3>1. StoredOne(x) /\ WholeOne(x)
      BY <2>2, NewStoredOne
    <3>2. \A k \in DOMAIN stored' : (k \in DOMAIN stored /\ stored'[k] = stored[k]) \/ stored'[k] = x
      BY <1>0, <2>2, AppendProperties DEF Types
    <3>3. QED
      BY <1>1, <3>1, <3>2, Zenon
  <2>3. QED
    BY <2>1, <2>2, StoredCases, Zenon
<1>4. ASSUME NEW k \in DOMAIN stored' PROVE (StoredOne(stored[k]) /\ WholeOne(stored[k]))'
  <2>1. PICK x : x = stored'[k] /\ StoredOne(x) /\ WholeOne(x)
    BY <1>3, <1>4
  <2>2. StoredOne(x)' /\ WholeOne(x)'
    BY <1>2, <2>1
  <2>3. QED
    BY <2>1, <2>2 DEF StoredOne, WholeOne, Misused
<1>5. QED
  BY <1>4 DEF StoredInv, WholeInv, StoredOne, WholeOne

-----------------------------------------------------------------------------
(* A file that is whole is read back as what was given.                    *)

LEMMA StreamEqual ==
  ASSUME NEW a \in Stream, NEW b \in Stream, Len(a) = Len(b), \A k \in 1..Len(a) : a[k] = b[k]
  PROVE  a = b
BY SeqEqual DEF Stream

LEMMA ChunkOfFact ==
  ASSUME NEW f \in Files, NEW key \in Keys, NEW i \in 1..ChunksOf(f)
  PROVE  /\ ChunkOf(f, key, i) \in Chunks /\ ChunkOf(f, key, i).key = key /\ ChunkOf(f, key, i).seq = i - 1
         /\ Len(ChunkOf(f, key, i).plain) = PlainLen(f, i)
         /\ \A t \in 1..PlainLen(f, i) : ChunkOf(f, key, i).plain[t] = <<f, (i - 1) * ChunkSize + t>>
<1> DEFINE from == (i - 1) * ChunkSize
           len == PlainLen(f, i)
           data == DataOf(f, from, len)
<1>0. ChunksOf(f) \in Nat /\ ChunkSize \in Nat \ {0}
  BY ChunksFact
<1>1. from \in Nat /\ len \in 1..ChunkSize
  BY PlainLenFact
<1>2. len \in Nat /\ i - 1 \in Nat
  BY <1>0, <1>1
<1> HIDE DEF from, len
<1>3. data \in Plain /\ Len(data) = len /\ \A t \in 1..len : data[t] = <<f, from + t>>
  BY <1>1, <1>2, DataFact
<1> HIDE DEF data
<1>4. ChunkOf(f, key, i) = [key |-> key, seq |-> i - 1, plain |-> data]
  BY DEF ChunkOf, PrepareChunk, data, from, len
<1>5. QED
  BY <1>2, <1>3, <1>4 DEF Chunks, from, len

LEMMA PieceEnd ==
  ASSUME NEW f \in Files, NEW i \in 1..ChunksOf(f), NEW len, len = DeclaredSize(FileSize[f])
  PROVE  /\ (i - 1) * FullSize \in Nat /\ EncryptedSize(PlainLen(f, i)) \in 1..FullSize
         /\ Min({i * FullSize, len}) = (i - 1) * FullSize + EncryptedSize(PlainLen(f, i))
         /\ (i - 1) * FullSize + EncryptedSize(PlainLen(f, i)) <= len /\ len \in Nat
<1> DEFINE n == i - 1
           a == n * FullSize
           e == EncryptedSize(PlainLen(f, i))
           b == i * FullSize
<1>0. ChunksOf(f) \in Nat /\ FullSize \in Nat \ {0} /\ FileSize[f] \in Nat
  BY ChunksFact
<1>1. n \in 0..ChunksOf(f) /\ n < ChunksOf(f) /\ n + 1 = i /\ n \in Nat /\ i \in 0..ChunksOf(f)
  BY <1>0
<1>2. len \in Nat
  BY <1>0, DeclaredSizeNat
<1> HIDE DEF n
<1>3. StreamLen(f, n) = n * FullSize /\ n * FullSize \in Nat /\ EncryptedSize(PlainLen(f, n + 1)) \in 1..FullSize
      /\ StreamLen(f, n + 1) = n * FullSize + EncryptedSize(PlainLen(f, n + 1))
  BY <1>1, StreamLenFact
<1>4. a \in Nat /\ e \in 1..FullSize /\ StreamLen(f, i) = a + e
  BY <1>1, <1>3
<1>5. b = a + FullSize
  BY <1>0, <1>1, MulSuc
<1>6. StreamLen(f, i) <= len
  BY <1>1, StreamLenFact
<1>7. i < ChunksOf(f) => StreamLen(f, i) = b
  BY <1>1, StreamLenFact
<1>8. i = ChunksOf(f) => StreamLen(f, i) = len
  BY <1>1, StreamLenFact
<1> HIDE DEF a, b, e
<1>9. b \in Nat /\ a + e \in Nat /\ a + e <= b /\ a + e <= len /\ (a + e = b \/ a + e = len)
  BY <1>0, <1>1, <1>4, <1>5, <1>6, <1>7, <1>8, SMT
<1>10. Min({b, len}) = IF b <= len THEN b ELSE len
  BY <1>2, <1>9, MinOfTwo
<1>11. Min({b, len}) = a + e
  BY <1>2, <1>9, <1>10, SMT
<1>12. QED
  BY <1>2, <1>4, <1>9, <1>11 DEF a, b, e, n

LEMMA PieceIs ==
  ASSUME NEW f \in Files, NEW key \in Keys, NEW data \in Stream, Len(data) = DeclaredSize(FileSize[f]),
         DataIn(f, key, data), NEW i \in 1..ChunksOf(f)
  PROVE  SubSeq(data, (i - 1) * FullSize + 1, Min({i * FullSize, Len(data)})) = BytesOf(ChunkOf(f, key, i))
<1> DEFINE n == i - 1
           a == n * FullSize
           e == EncryptedSize(PlainLen(f, i))
           len == Len(data)
           chunk == ChunkOf(f, key, i)
           piece == SubSeq(data, a + 1, a + e)
<1>0. ChunksOf(f) \in Nat /\ FullSize \in Nat \ {0}
  BY ChunksFact
<1>1. a \in Nat /\ e \in 1..FullSize /\ Min({i * FullSize, len}) = a + e /\ a + e <= len /\ len \in Nat
  BY PieceEnd
<1>2. chunk \in Chunks /\ Len(chunk.plain) = PlainLen(f, i)
  BY ChunkOfFact
<1>3. n \in Nat /\ n + 1 = i
  BY <1>0
<1> HIDE DEF n
<1>4. \A t \in 1..FullSize : StreamByte(f, key, a + t) = <<chunk, t>>
  BY <1>3, StreamByteIs
<1> HIDE DEF chunk
<1>5. BytesOf(chunk) \in Stream /\ Len(BytesOf(chunk)) = e /\ \A k \in 1..e : BytesOf(chunk)[k] = <<chunk, k>>
  BY <1>2, BytesOfFact
<1> HIDE DEF a, e, len
<1>6. e \in Nat /\ a + 1 \in Nat /\ a + e \in Nat /\ 1 <= a + 1 /\ a + 1 <= a + e + 1 /\ a + e <= Len(data)
  BY <1>0, <1>1 DEF len
<1>7. piece \in Stream /\ Len(piece) = (a + e) - (a + 1) + 1
      /\ \A k \in 1..((a + e) - (a + 1) + 1) : piece[k] = data[(a + 1) + k - 1]
  <2>1. data \in Seq(Encrypted)
    BY DEF Stream
  <2>2. QED
    BY <1>6, <2>1, SubSeqFact DEF Stream
<1> HIDE DEF piece
<1>8. (a + e) - (a + 1) + 1 = e /\ \A k \in 1..e : (a + 1) + k - 1 = a + k /\ a + k \in 1..len /\ k \in 1..FullSize
  BY <1>0, <1>1, <1>6
<1>9. \A k \in 1..e : piece[k] = <<chunk, k>>
  BY <1>4, <1>7, <1>8 DEF DataIn, len
<1>10. piece = BytesOf(chunk)
  BY <1>5, <1>7, <1>8, <1>9, StreamEqual
<1>11. QED
  BY <1>1, <1>10 DEF piece, len, a, n, chunk

LEMMA PlainIs ==
  ASSUME NEW f \in Files, NEW key \in Keys, NEW n \in 1..FileSize[f]
  PROVE  /\ (n - 1) \div ChunkSize + 1 \in 1..ChunksOf(f)
         /\ ChunkOf(f, key, (n - 1) \div ChunkSize + 1).plain[((n - 1) % ChunkSize) + 1] = <<f, n>>
<1> DEFINE q == (n - 1) \div ChunkSize
           r == (n - 1) % ChunkSize
           c == ChunksOf(f)
           i == q + 1
           size == FileSize[f]
<1>0. c \in Nat /\ ChunkSize \in Nat \ {0} /\ size \in Nat /\ size <= c * ChunkSize /\ c * ChunkSize \in Nat
  BY ChunksFact
<1>1. n - 1 \in Nat /\ n <= size
  BY <1>0
<1>2. q \in Nat /\ r \in Nat /\ r < ChunkSize /\ n - 1 = q * ChunkSize + r
  BY <1>0, <1>1, DivFact
<1> HIDE DEF q, r, c, size
<1>3. q * ChunkSize < c * ChunkSize
  <2>1. q * ChunkSize \in Nat
    BY <1>0, <1>2, MulSuc
  <2>2. QED
    BY <1>0, <1>1, <1>2, <2>1
<1>4. q < c
  BY <1>0, <1>2, <1>3, MulStrict
<1>5. i \in 1..c /\ i - 1 = q
  BY <1>0, <1>2, <1>4
<1> HIDE DEF i
<1>6. /\ PlainLen(f, i) \in 1..ChunkSize
      /\ i = c => (i - 1) * ChunkSize + PlainLen(f, i) = size
      /\ i < c => PlainLen(f, i) = ChunkSize
  BY <1>5, PlainLenFact DEF c, size
<1>7. r + 1 \in 1..PlainLen(f, i)
  <2> DEFINE p == PlainLen(f, i)
             a == q * ChunkSize
  <2>1. a \in Nat
    BY <1>0, <1>2, MulSuc
  <2>2. p \in 1..ChunkSize /\ (i = c => a + p = size) /\ (i < c => p = ChunkSize) /\ n - 1 = a + r
    BY <1>2, <1>5, <1>6
  <2> HIDE DEF p, a
  <2>3. r + 1 \in 1..p
    BY <1>0, <1>1, <1>2, <1>5, <2>1, <2>2
  <2>4. QED
    BY <2>3 DEF p
<1>8. \A t \in 1..PlainLen(f, i) : ChunkOf(f, key, i).plain[t] = <<f, (i - 1) * ChunkSize + t>>
  BY <1>5, ChunkOfFact DEF c
<1>9. (i - 1) * ChunkSize + (r + 1) = n
  <2> DEFINE a == q * ChunkSize
  <2>1. a \in Nat /\ n - 1 = a + r /\ (i - 1) * ChunkSize = a
    BY <1>0, <1>2, <1>5, MulSuc
  <2> HIDE DEF a
  <2>2. n \in Nat
    BY <1>0 DEF size
  <2>3. QED
    BY <1>2, <2>1, <2>2
<1>10. QED
  BY <1>5, <1>7, <1>8, <1>9 DEF i, q, r, c

LEMMA WholeReads ==
  ASSUME NEW f \in Files, NEW content \in SentType, NEW meta \in MetaType, Whole(f, content, meta)
  PROVE  ReadBack(content, meta) = Given(f)
<1> DEFINE key == meta.key
           sums == meta.sums
           data == content.data
<1>1. key \in Keys /\ data \in Stream /\ sums \in Sums
  BY DEF SentType, MetaType
<1>2. /\ content.sums = sums /\ Len(data) = DeclaredSize(FileSize[f]) /\ DataIn(f, key, data)
      /\ Len(sums) = ChunksOf(f) /\ meta.size = FileSize[f]
      /\ \A i \in 1..ChunksOf(f) : sums[i] = ChunkOf(f, key, i)
  BY DEF Whole, SumsIn
<1>3. DOMAIN sums = 1..ChunksOf(f)
  BY <1>1, <1>2 DEF Sums
<1>4. FullSize = EncryptedSize(ChunkSize)
  BY DEF FullSize
<1> HIDE DEF key, sums, data
<1>5. \A i \in 1..ChunksOf(f) : /\ SubSeq(data, (i - 1) * FullSize + 1, Min({i * FullSize, Len(data)})) = BytesOf(sums[i])
                                /\ sums[i].key = key /\ sums[i].seq = i - 1
  <2> SUFFICES ASSUME NEW i \in 1..ChunksOf(f)
               PROVE  /\ SubSeq(data, (i - 1) * FullSize + 1, Min({i * FullSize, Len(data)})) = BytesOf(sums[i])
                      /\ sums[i].key = key /\ sums[i].seq = i - 1
    BY Zenon
  <2>1. sums[i] = ChunkOf(f, key, i)
    BY <1>2
  <2>2. ChunkOf(f, key, i).key = key /\ ChunkOf(f, key, i).seq = i - 1
    BY <1>1, ChunkOfFact
  <2>3. SubSeq(data, (i - 1) * FullSize + 1, Min({i * FullSize, Len(data)})) = BytesOf(ChunkOf(f, key, i))
    BY <1>1, <1>2, PieceIs
  <2>4. QED
    BY <2>1, <2>2, <2>3
<1>6. \A n \in 1..FileSize[f] : sums[(n - 1) \div ChunkSize + 1].plain[((n - 1) % ChunkSize) + 1] = <<f, n>>
  <2> SUFFICES ASSUME NEW n \in 1..FileSize[f]
               PROVE  sums[(n - 1) \div ChunkSize + 1].plain[((n - 1) % ChunkSize) + 1] = <<f, n>>
    OBVIOUS
  <2>1. PICK i : i = (n - 1) \div ChunkSize + 1
    OBVIOUS
  <2>2. i \in 1..ChunksOf(f) /\ ChunkOf(f, key, i).plain[((n - 1) % ChunkSize) + 1] = <<f, n>>
    BY <1>1, <2>1, PlainIs
  <2>3. QED
    BY <1>2, <2>1, <2>2
<1>7. Len(sums) = NumberOfChunks(meta.size) /\ Len(data) = DeclaredSize(meta.size)
  BY <1>2 DEF ChunksOf
<1>8. ReadBack(content, meta) =
        [n \in 1..meta.size |-> sums[(n - 1) \div ChunkSize + 1].plain[((n - 1) % ChunkSize) + 1]]
  <2>1. /\ content.sums = meta.sums /\ Len(content.data) = DeclaredSize(meta.size)
        /\ Len(meta.sums) = NumberOfChunks(meta.size)
        /\ \A i \in DOMAIN meta.sums :
             /\ SubSeq(content.data, (i - 1) * EncryptedSize(ChunkSize) + 1,
                       Min({i * EncryptedSize(ChunkSize), Len(content.data)})) = BytesOf(meta.sums[i])
             /\ meta.sums[i].key = meta.key /\ meta.sums[i].seq = i - 1
    BY <1>2, <1>3, <1>4, <1>5, <1>7 DEF key, sums, data
  <2>2. QED
    BY <2>1, Zenon DEF ReadBack, sums
<1>9. QED
  BY <1>2, <1>6, <1>8, Zenon DEF Given

LEMMA StoredInit == ASSUME Init PROVE StoredInv /\ WholeInv
<1>1. stored = <<>>
  BY DEF Init
<1>2. QED
  BY <1>1 DEF StoredInv, WholeInv

LEMMA StoredIsGiven == ASSUME UploadInv, StoredInv, WholeInv PROVE CreatedIsGiven
<1>0. Types
  BY DEF UploadInv
<1> SUFFICES ASSUME NEW k \in DOMAIN stored, \A i \in DOMAIN stored[k].files : ~Misused(stored[k].files[i]),
                    NEW i \in DOMAIN stored[k].files, ~file[stored[k].files[i]].torn
             PROVE  ReadBack(request[stored[k].request][i], stored[k].metas[i]) = Given(stored[k].files[i])
  BY Zenon DEF CreatedIsGiven
<1>1. PICK x \in StoredType : x = stored[k]
  BY <1>0 DEF Types
<1>2. DOMAIN x.files = 1..Len(x.files)
  BY DEF StoredType
<1>3. /\ x.request = None => x.files = <<>>
      /\ x.request # None =>
           x.request \in 1..Len(request) /\ Len(x.files) = Len(request[x.request])
      /\ x.files[i] \in Files /\ x.metas[i] \in MetaType
  BY <1>1, <1>2 DEF StoredInv
<1>4. x.request # None
  BY <1>1, <1>2, <1>3
<1>5. request[x.request] \in Seq(SentType) /\ i \in 1..Len(request[x.request])
  BY <1>0, <1>1, <1>2, <1>3, <1>4 DEF Types
<1>6. request[x.request][i] \in SentType
  BY <1>5
<1>7. Whole(x.files[i], request[x.request][i], x.metas[i])
  BY <1>1, <1>2 DEF WholeInv
<1>8. QED
  BY <1>1, <1>3, <1>6, <1>7, WholeReads

-----------------------------------------------------------------------------
(* Counters and their bounds.                                              *)

(* The chunks that are processed stay within the declared size of the file. *)
Within(f, p, c) ==
  /\ p <= FileSize[f]
  /\ c.f = f /\ c.pc = "parts" /\ c.after # "last" => p + c.length <= FileSize[f]

LEMMA ThrowKeeps ==
  ASSUME Types, NEW f \in Files, f = call.f, NEW g \in FileType, NEW x, Throw(g, x)
  PROVE  file'[f].processed = g.processed /\ call'.pc = "idle"
<1>1. file' = [file EXCEPT ![f] = [g EXCEPT !.torn = @ \/ call.op = "write"]] /\ call' = Idle
  BY DEF Throw
<1>2. file'[f] = [g EXCEPT !.torn = @ \/ call.op = "write"]
  BY <1>1 DEF Types
<1>3. QED
  BY <1>1, <1>2, IdleFacts DEF FileType

LEMMA ContinueKeeps ==
  ASSUME Types, NEW f \in Files, f = call.f, NEW g \in FileType, NEW next, Continue(g, next)
  PROVE  file'[f].processed = g.processed /\ call' = next
BY DEF Continue, Types

LEMMA RequestKeeps ==
  ASSUME Types, NEW f \in Files, f = call.f, NEW takes, NEW lost, NEW s, NEW before \in FileType, NEW after \in FileType,
         NEW next, NEW p, before.processed = p, after.processed = p,
         Request(takes, lost, s, before, after, next)
  PROVE  file'[f].processed = p /\ (call'.pc = "idle" \/ call' = next)
<1>1. Continue(after, next) \/ \E x : Throw(before, x)
  BY Zenon DEF Request
<1>2. QED
  BY <1>1, ThrowKeeps, ContinueKeeps

LEMMA PrepareWithin ==
  ASSUME Types, NEW f \in Files, f = call.f, NEW g \in FileType, NEW data \in Plain, NEW after,
         PrepareAndSendChunk(g, data, after), NEW p \in Nat, g.processed = p, p <= FileSize[f]
  PROVE  Within(f, file'[f].processed, call')
<1> DEFINE n == Len(data)
           counted == [g EXCEPT !.uploaded = @ + n]
<1>0. n \in Nat /\ call \in CallType
  BY PlainEmpty DEF Types
<1> HIDE DEF n
<1>1. counted \in FileType /\ counted.processed = p
  BY <1>0 DEF FileType
<1>2. Prepared(g, data) \in FileType /\ Prepared(g, data).processed = p
  BY PreparedFact
<1>3. CASE \E x : Throw(counted, x)
  <2>1. file'[f].processed = p /\ call'.pc = "idle"
    BY <1>1, <1>3, ThrowKeeps
  <2>2. QED
    BY <2>1 DEF Within
<1>4. CASE p + n <= FileSize[f] /\ Continue(Prepared(g, data), ToParts(call, n, after))
  <2>1. file'[f].processed = p /\ call' = ToParts(call, n, after)
    BY <1>2, <1>4, ContinueKeeps
  <2>2. call'.length = n
    BY <1>0, <2>1 DEF ToParts, CallType
  <2>3. QED
    BY <1>4, <2>1, <2>2 DEF Within
<1>5. QED
  BY <1>3, <1>4 DEF PrepareAndSendChunk, Prepared, ToParts, n

LEMMA LocalWithin ==
  ASSUME Types, CallHasFile, NEW f \in Files, f = call.f, WriteChunk \/ WriteEnds \/ PartsSent \/ Finalize \/ CheckSize,
         Within(f, file[f].processed, call)
  PROVE  Within(f, file'[f].processed, call')
<1>0. call \in CallType /\ CallShape(call) /\ file[f] \in FileType /\ FileSize[f] \in Nat
  BY Constants DEF Types, CallHasFile
<1>a. PICK p \in Nat : p = file[f].processed
  BY <1>0 DEF FileType
<1>b. p <= FileSize[f]
  BY <1>a DEF Within
<1>1. CASE WriteChunk
  <2>1. call.pc = "write" /\ call # Idle /\ call.chunk \in Nat /\ file[f].buf \in Plain
    BY <1>0, <1>1, IdleFacts DEF WriteChunk, CallType, FileType
  <2>2. GetFullChunk(file[f].buf, ChunkSize, call.chunk) \in Plain
    BY <1>1, <2>1, FullChunk DEF WriteChunk
  <2>3. PrepareAndSendChunk(file[f], GetFullChunk(file[f].buf, ChunkSize, call.chunk), "write")
    BY <1>1 DEF WriteChunk
  <2>4. QED
    BY <1>0, <1>a, <1>b, <2>2, <2>3, PrepareWithin
<1>2. CASE WriteEnds
  <2> DEFINE h == [file[f] EXCEPT !.buf = FreeFullChunks(@, ChunkSize)]
  <2>1. h \in FileType /\ h.processed = p
    BY <1>0, <1>a, FreedFact
  <2>2. Continue(h, Idle)
    BY <1>2 DEF WriteEnds
  <2> HIDE DEF h
  <2>3. file'[f].processed = p /\ call' = Idle
    BY <2>1, <2>2, ContinueKeeps
  <2>4. QED
    BY <1>b, <2>3, IdleFacts DEF Within
<1>3. CASE PartsSent
  <2>1. Continue(Freed(file[f], call), Returned(call)) /\ call.pc = "parts"
    BY <1>3 DEF PartsSent, Returned, Freed
  <2>2. /\ Freed(file[f], call) \in FileType
        /\ Freed(file[f], call).processed = (IF call.after = "last" THEN p ELSE p + call.length)
    BY <1>0, <1>a, FreedStreamFact
  <2>3. file'[f].processed = (IF call.after = "last" THEN p ELSE p + call.length) /\ call' = Returned(call)
    BY <2>1, <2>2, ContinueKeeps
  <2>4. Returned(call).pc = call.after /\ call.after \in {"write", "check", "last"}
    BY <1>0, <2>1, ReturnedFact
  <2>5. QED
    BY <1>a, <2>1, <2>3, <2>4 DEF Within
<1>4. CASE Finalize
  <2>0. Rest(file[f]) \in FileType /\ Rest(file[f]).processed = p /\ LastChunk(file[f]) \in Plain
    BY <1>0, <1>a, RestFact
  <2>1. CASE Throw(file[f], "different")
    <3>1. file'[f].processed = p /\ call'.pc = "idle"
      BY <1>0, <1>a, <2>1, ThrowKeeps
    <3>2. QED
      BY <1>b, <3>1 DEF Within
  <2>2. CASE PrepareAndSendChunk(Rest(file[f]), LastChunk(file[f]), "check")
    BY <1>b, <2>0, <2>2, PrepareWithin
  <2>3. CASE Continue(Rest(file[f]), [call EXCEPT !.pc = "check"])
    <3>1. file'[f].processed = p /\ call' = [call EXCEPT !.pc = "check"]
      BY <2>0, <2>3, ContinueKeeps
    <3>2. call'.pc = "check"
      BY <1>0, <3>1 DEF CallType
    <3>3. QED
      BY <1>b, <3>1, <3>2 DEF Within
  <2>4. QED
    BY <1>4, <2>1, <2>2, <2>3, FinalizeCases
<1>5. CASE CheckSize
  <2>1. Throw(file[f], "smaller") \/ Continue(file[f], [call EXCEPT !.pc = "parts", !.after = "last"])
    BY <1>5 DEF CheckSize
  <2>2. file'[f].processed = p /\ (call'.pc = "idle" \/ call' = [call EXCEPT !.pc = "parts", !.after = "last"])
    BY <1>0, <1>a, <2>1, ThrowKeeps, ContinueKeeps
  <2>3. file'[f].processed = p /\ (call'.pc = "idle" \/ call'.after = "last")
    BY <1>0, <2>2 DEF CallType
  <2>4. QED
    BY <1>b, <2>3 DEF Within
<1>6. QED
  BY <1>1, <1>2, <1>3, <1>4, <1>5

LEMMA SentWithin ==
  ASSUME Types, CallHasFile, NEW f \in Files, f = call.f, NEW lost \in Losses,
         \/ SendPart(lost) \/ SendLast(lost) \/ CommitFile(lost) \/ FetchKey(lost) \/ SendFile(lost) \/ InboxSend(lost),
         Within(f, file[f].processed, call)
  PROVE  Within(f, file'[f].processed, call')
<1> DEFINE g == file[f]
<1>0. call \in CallType /\ CallShape(call) /\ g \in FileType /\ FileSize[f] \in Nat
  BY Constants DEF Types, CallHasFile
<1>a. PICK p \in Nat : p = g.processed
  BY <1>0 DEF FileType
<1>b. p <= FileSize[f]
  BY <1>a DEF Within
<1>c. ASSUME file'[f].processed = p, call'.pc # "parts" PROVE Within(f, file'[f].processed, call')
  BY <1>b, <1>c DEF Within
<1>1. CASE SendPart(lost)
  <2> DEFINE data == GetFullChunk(g.encrypted, PartSize, call.part)
             h == [g EXCEPT !.serverSeq = @ + 1]
             next == [call EXCEPT !.part = @ + 1]
  <2>1. h \in FileType /\ h.processed = p
    BY <1>0, <1>a DEF FileType
  <2>2. next.f = call.f /\ next.pc = call.pc /\ next.after = call.after /\ next.length = call.length
    BY <1>0 DEF CallType
  <2>3. Request(TakesChunk(g, data), lost, [Sent(g) EXCEPT !.data = @ \o data, !.parts = @ + 1], g, h, next)
    BY <1>1, Zenon DEF SendPart, SendChunkToServer
  <2> HIDE DEF h, next, data
  <2>4. file'[f].processed = p /\ (call'.pc = "idle" \/ call' = next)
    BY <1>0, <1>a, <2>1, <2>3, RequestKeeps
  <2>5. CASE call' = next
    BY <1>a, <2>2, <2>4, <2>5 DEF Within
  <2>6. QED
    BY <1>c, <2>4, <2>5
<1>2. CASE SendLast(lost)
  <2> DEFINE e == [g EXCEPT !.encrypted = <<>>]
             h == [e EXCEPT !.serverSeq = @ + 1]
             data == g.encrypted
  <2>0. e \in FileType /\ e.processed = p
    <3>1. <<>> \in Stream
      BY EmptySeq DEF Stream
    <3>2. QED
      BY <1>0, <1>a, <3>1 DEF FileType
  <2>1. Request(TakesChunk(e, data), lost, [Sent(e) EXCEPT !.data = @ \o data, !.parts = @ + 1], e, h, call)
        /\ call.pc = "last"
    BY <1>2, Zenon DEF SendLast, SendChunkToServer
  <2> HIDE DEF e
  <2>2. h \in FileType /\ h.processed = p
    BY <2>0 DEF FileType
  <2> HIDE DEF h, data
  <2>4. file'[f].processed = p /\ (call'.pc = "idle" \/ call' = call)
    BY <2>0, <2>1, <2>2, RequestKeeps
  <2>5. QED
    BY <1>c, <2>1, <2>4
<1>3. CASE CommitFile(lost)
  <2>1. /\ Request(TakesCommit(g), lost, [Sent(g) EXCEPT !.committed = TRUE, !.sums = g.sums], g, g, Committed)
        /\ call.pc = "last"
    BY <1>3 DEF CommitFile
  <2>2. file'[f].processed = p /\ (call'.pc = "idle" \/ call' = Committed)
    BY <1>0, <1>a, <2>1, RequestKeeps
  <2>3. Committed.pc # "parts"
    BY <2>1, CommittedFact
  <2>4. QED
    BY <1>c, <2>2, <2>3
<1>4. CASE FetchKey(lost)
  <2>1. Continue(g, [call EXCEPT !.pc = "sendFile", !.keyId = storeKey]) \/ \E x : Throw(g, x)
    BY <1>4 DEF FetchKey
  <2>2. file'[f].processed = p /\ (call'.pc = "idle" \/ call' = [call EXCEPT !.pc = "sendFile", !.keyId = storeKey])
    BY <1>0, <1>a, <2>1, ThrowKeeps, ContinueKeeps
  <2>3. call'.pc # "parts"
    BY <1>0, <2>2 DEF CallType
  <2>4. QED
    BY <1>c, <2>2, <2>3
<1>5. CASE SendFile(lost)
  <2>1. Continue(g, [call EXCEPT !.pc = "fetch", !.retried = TRUE]) \/ \E x : Throw(g, x)
    BY <1>5, Zenon DEF SendFile
  <2>2. file'[f].processed = p /\ (call'.pc = "idle" \/ call' = [call EXCEPT !.pc = "fetch", !.retried = TRUE])
    BY <1>0, <1>a, <2>1, ThrowKeeps, ContinueKeeps
  <2>3. call'.pc # "parts"
    BY <1>0, <2>2 DEF CallType
  <2>4. QED
    BY <1>c, <2>2, <2>3
<1>6. CASE InboxSend(lost)
  <2>1. \E x : Throw(g, x)
    BY <1>6, Zenon DEF InboxSend
  <2>2. file'[f].processed = p /\ call'.pc = "idle"
    BY <1>0, <1>a, <2>1, ThrowKeeps
  <2>3. QED
    BY <1>c, <2>2
<1>7. QED
  BY <1>1, <1>2, <1>3, <1>4, <1>5, <1>6

ProcessedInv == \A f \in Files : Within(f, file[f].processed, call)

CountersInv ==
  /\ \A e \in Entries : entry[e].files \in EntryFiles \cup {<<>>}
  /\ Len(request) <= MaxRequests /\ storeKey <= MaxKey /\ faults <= MaxFaults

LEMMA WorkProcessed == ASSUME UploadInv, ProcessedInv, Work PROVE ProcessedInv'
<1>0. Types /\ CallHasFile /\ call # Idle
  BY IdleFacts, ZenonT(60) DEF UploadInv, Work, WriteChunk, WriteEnds, PartsSent, Finalize, CheckSize, SendPart, SendLast,
                   CommitFile, FetchKey, SendFile, InboxSend
<1>1. PICK f \in Files : f = call.f
  BY <1>0, CallFacts
<1>2. Within(f, file[f].processed, call)
  BY DEF ProcessedInv
<1>3. Within(f, file'[f].processed, call')
  BY <1>0, <1>1, <1>2, LocalWithin, SentWithin DEF Work
<1>4. ASSUME NEW h \in Files, h # f PROVE Within(h, file'[h].processed, call')
  <2>1. file'[h] = file[h]
    BY <1>0, <1>1, <1>4, WorkEffect, ShapeKept DEF Effect
  <2>2. file[h].processed <= FileSize[h]
    BY DEF ProcessedInv, Within
  <2>3. call'.f = h => call'.pc # "parts"
    <3>1. CASE call'.f = f \/ call' = Idle
      BY <1>4, <3>1, IdleFacts
    <3>2. CASE call' = Committed /\ call.pc = "last"
      BY <1>0, <3>2, CommittedFact
    <3>3. QED
      BY <1>1, <3>1, <3>2, WorkOut DEF Out, Ended, Moved, CommitOn
  <2>4. QED
    BY <2>1, <2>2, <2>3 DEF Within
<1>5. \A h \in Files : Within(h, file'[h].processed, call')
  BY <1>3, <1>4
<1>6. QED
  BY <1>5, SMTT(30) DEF ProcessedInv, Within

(* Steps that process nothing.                                             *)
LEMMA OtherProcessed ==
  ASSUME ProcessedInv, call'.pc # "parts",
         \A f \in Files : file'[f].processed = file[f].processed \/ file'[f].processed = 0
  PROVE  ProcessedInv'
<1>1. \A f \in Files : file[f].processed <= FileSize[f] /\ 0 <= FileSize[f]
  BY Constants DEF ProcessedInv, Within
<1>2. QED
  BY <1>1 DEF ProcessedInv, Within

LEMMA ProcessedNext == ASSUME UploadInv, ProcessedInv, [Next]_vars PROVE ProcessedInv'
<1>0. Types /\ CallHasFile
  BY DEF UploadInv
<1>1. CASE Work
  BY <1>1, WorkProcessed
<1>2. CASE ReleaseHandles
  <2>1. RemoveFileHandles(entry[call.e].files) /\ (call' = Idle \/ call' = [call EXCEPT !.pc = "send"])
    BY <1>2 DEF ReleaseHandles
  <2>2. \A f \in Files : file'[f].processed = file[f].processed
    BY <1>0, <2>1, RemoveFact, GoneFact DEF Types
  <2>3. call'.pc # "parts"
    BY <1>0, <2>1, IdleFacts DEF Types, CallType
  <2>4. QED
    BY <2>2, <2>3, OtherProcessed
<1>3. CASE Begin
  <2>1. ASSUME NEW f \in Files, NEW update \in BOOLEAN, CreateFile(f, update) PROVE ProcessedInv'
    <3>1. call' = Idle /\ file' = [file EXCEPT ![f] = [NewFile EXCEPT !.request = Len(request) + 1, !.index = 1,
                                    !.key = <<Len(request) + 1, 1>>, !.update = update]]
      BY <2>1 DEF CreateFile
    <3>2. \A h \in Files : file'[h].processed = file[h].processed \/ file'[h].processed = 0
      BY <1>0, <3>1 DEF Types, NewFile
    <3>3. QED
      BY <3>1, <3>2, OtherProcessed, IdleFacts
  <2>2. ASSUME NEW f \in Files, CloseFile(f) PROVE ProcessedInv'
    <3>1. /\ file' = [file EXCEPT ![f].state = "gone", ![f].began = storeKey]
          /\ call' = Started("close", f, None, "finalize")
      BY <2>2 DEF CloseFile
    <3>2. \A h \in Files : file'[h].processed = file[h].processed
      BY <1>0, <3>1 DEF Types, FileType
    <3>3. call'.pc = "finalize"
      BY <3>1 DEF Started, Idle
    <3>4. QED
      BY <3>2, <3>3, OtherProcessed
  <2>3. ASSUME NEW f \in Files, CreateFileHandle(f) PROVE ProcessedInv'
    <3>1. call' = Idle /\ file' = [file EXCEPT ![f] = NewFile]
      BY <2>3 DEF CreateFileHandle
    <3>2. \A h \in Files : file'[h].processed = file[h].processed \/ file'[h].processed = 0
      BY <1>0, <3>1 DEF Types, NewFile
    <3>3. QED
      BY <3>1, <3>2, OtherProcessed, IdleFacts
  <2>4. ASSUME NEW f \in Files, NEW len \in Nat, Write(f, len) PROVE ProcessedInv'
    <3>1. CASE call = Idle /\ UNCHANGED <<file, call>>
      BY <3>1, OtherProcessed, IdleFacts
    <3>2. CASE /\ file' = [file EXCEPT ![f] = Buffered(file[f], f, len)]
               /\ call' = Started("write", f, None, "write")
      <4>1. Buffered(file[f], f, len).processed = file[f].processed
        BY <1>0, BufferedFact DEF Types
      <4>2. \A h \in Files : file'[h].processed = file[h].processed
        BY <1>0, <3>2, <4>1 DEF Types
      <4>3. call'.pc = "write"
        BY <3>2 DEF Started, Idle
      <4>4. QED
        BY <4>2, <4>3, OtherProcessed
    <3>3. QED
      BY <1>0, <2>4, <3>1, <3>2, WriteCases
  <2>5. ASSUME NEW e \in Entries, SendEntry(e) PROVE ProcessedInv'
    <3>1. \A f \in Files : file'[f].processed = file[f].processed
      <4>1. UNCHANGED file \/ RemoveFileHandles(entry[e].files)
        BY <1>0, <2>5, SendEntryCases
      <4>2. QED
        BY <1>0, <4>1, RemoveFact, GoneFact, ZenonT(60) DEF Types
    <3>2. call'.pc # "parts"
      <4>1. call' = Idle \/ call' = Started("send", entry[e].files[1], e, "finalize")
        BY <1>0, <2>5, SendEntryCases
      <4>2. QED
        BY <4>1, IdleFacts DEF Started, Idle
    <3>3. QED
      BY <3>1, <3>2, OtherProcessed
  <2>6. ASSUME NEW e \in Entries, NEW fs \in EntryFiles, PrepareEntry(e, fs) PROVE ProcessedInv'
    <3>0. call' = Idle /\ Len(request) \in Nat
      BY <1>0, <2>6 DEF PrepareEntry, Types
    <3>1. /\ \A f \in Files : f \in Range(fs) => file'[f] = SetRequestData(file[f], Len(request) + 1, PlaceOf(fs, f))
          /\ \A f \in Files : f \notin Range(fs) => file'[f] = file[f]
      <4>1. \A f \in Files : f \notin Range(fs) => file'[f] = file[f]
        BY <1>0, <2>6, PrepareEntryIs, ZenonT(60)
      <4>2. QED
        BY <2>6, <4>1, PrepareEntryFile
    <3>2. \A f \in Files : file'[f].processed = file[f].processed
      BY <1>0, <3>0, <3>1, ZenonT(60) DEF SetRequestData, Types, FileType
    <3>3. QED
      BY <3>0, <3>2, OtherProcessed, IdleFacts
  <2>7. ASSUME NEW e \in Entries, NEW lost \in Losses, SendText(e, lost) PROVE ProcessedInv'
    BY <2>7, OtherProcessed, IdleFacts DEF SendText
  <2>8. QED
    BY <1>3, <2>1, <2>2, <2>3, <2>4, <2>5, <2>6, <2>7, BeginCases
<1>4. CASE RotateKey \/ UNCHANGED vars
  BY <1>4 DEF RotateKey, vars, ProcessedInv, Within
<1>5. QED
  BY <1>1, <1>2, <1>3, <1>4, StepIs DEF Next

(* Losses are counted up to their bound.                                   *)
LEMMA FaultsNext == ASSUME Types, faults <= MaxFaults, [Next]_vars PROVE faults' <= MaxFaults
<1>0. faults \in Nat /\ MaxFaults \in Nat
  BY UploadsAssumption DEF Types
<1>1. ASSUME NEW lost \in Losses, faults' = faults + (IF lost = "no" THEN 0 ELSE 1) PROVE faults' <= MaxFaults
  BY <1>0, <1>1 DEF Losses
<1>2. ASSUME NEW lost \in Losses, CountLoss(lost) PROVE faults' <= MaxFaults
  BY <1>1, <1>2, Zenon DEF CountLoss
<1>3. CASE faults' = faults
  BY <1>3
<1>4. ASSUME NEW lost \in Losses, \/ SendPart(lost) \/ SendLast(lost) \/ CommitFile(lost)
                                  \/ FetchKey(lost) \/ SendFile(lost) \/ InboxSend(lost)
      PROVE  faults' <= MaxFaults
  <2>1. CountLoss(lost)
    BY <1>4, Zenon DEF SendPart, SendLast, CommitFile, SendChunkToServer, Request, FetchKey, SendFile, InboxSend
  <2>2. QED
    BY <1>2, <2>1
<1>5. CASE WriteChunk \/ WriteEnds \/ PartsSent \/ Finalize \/ CheckSize \/ ReleaseHandles
  <2>1. faults' = faults
    BY <1>5 DEF WriteChunk, WriteEnds, PartsSent, Finalize, CheckSize, ReleaseHandles, PrepareAndSendChunk, losses
  <2>2. QED
    BY <1>3, <2>1, SMTT(30)
<1>6. CASE Begin
  <2>1. ASSUME NEW e \in Entries, NEW lost \in Losses, SendText(e, lost) PROVE faults' <= MaxFaults
    <3>1. faults' = faults + (IF lost = "no" THEN 0 ELSE 1)
      BY <2>1, Zenon DEF SendText
    <3>2. QED
      BY <1>1, <3>1
  <2>2. ASSUME NEW f \in Files, \/ CloseFile(f) \/ CreateFileHandle(f)
                                \/ \E update \in BOOLEAN : CreateFile(f, update)
                                \/ \E len \in Nat : Write(f, len)
        PROVE  faults' = faults
    BY <2>2 DEF CloseFile, CreateFileHandle, CreateFile, Write, losses
  <2>3. ASSUME NEW e \in Entries, SendEntry(e) \/ \E fs \in EntryFiles : PrepareEntry(e, fs)
        PROVE  faults' = faults
    BY <2>3 DEF SendEntry, PrepareEntry, losses
  <2>4. QED
    BY <1>3, <1>6, <2>1, <2>2, <2>3, BeginCases
<1>7. CASE RotateKey \/ UNCHANGED vars
  BY <1>3, <1>7 DEF RotateKey, vars, losses
<1>8. QED
  BY <1>4, <1>5, <1>6, <1>7, StepIs DEF Next, Work

LEMMA KeyBound == ASSUME UploadInv, storeKey <= MaxKey, [Next]_vars PROVE storeKey' <= MaxKey
<1>0. Types /\ CallHasFile /\ storeKey \in Nat /\ MaxKey \in Nat
  BY UploadsAssumption DEF UploadInv, Types
<1>1. CASE RotateKey
  BY <1>0, <1>1 DEF RotateKey
<1>2. CASE Work
  BY <1>0, <1>2, WorkResult DEF Result
<1>3. CASE ReleaseHandles \/ UNCHANGED vars
  BY <1>3 DEF ReleaseHandles, vars, keys
<1>4. CASE Begin
  <2>1. ASSUME NEW f \in Files, \/ CloseFile(f) \/ CreateFileHandle(f)
                                \/ \E update \in BOOLEAN : CreateFile(f, update)
                                \/ \E len \in Nat : Write(f, len)
        PROVE  storeKey' = storeKey
    BY <2>1 DEF CloseFile, CreateFileHandle, CreateFile, Write, keys
  <2>2. ASSUME NEW e \in Entries, \/ SendEntry(e) \/ (\E fs \in EntryFiles : PrepareEntry(e, fs))
                                  \/ \E lost \in Losses : SendText(e, lost)
        PROVE  storeKey' = storeKey
    BY <2>2, Zenon DEF SendEntry, PrepareEntry, SendText, keys
  <2>3. QED
    BY <1>4, <2>1, <2>2, BeginCases, SMTT(30)
<1>5. QED
  BY <1>1, <1>2, <1>3, <1>4, StepIs DEF Next

LEMMA CountersNext == ASSUME UploadInv, CountersInv, [Next]_vars PROVE CountersInv'
<1>0. Types /\ CallHasFile /\ PlacesInv /\ ListsInv /\ MaxRequests \in Nat
  BY UploadsAssumption DEF UploadInv
<1>1. storeKey' <= MaxKey /\ faults' <= MaxFaults
  BY <1>0, KeyBound, FaultsNext DEF CountersInv
<1>2. Len(request') <= MaxRequests
  <2>1. Len(request) \in Nat /\ Len(request) <= MaxRequests
    BY <1>0 DEF Types, CountersInv
  <2>2. CASE Same
    BY <2>1, <2>2 DEF Same
  <2>3. ASSUME NEW f \in Files, CreateFileHandle(f) PROVE Len(request') <= MaxRequests
    BY <2>1, <2>3 DEF CreateFileHandle
  <2>4. ASSUME NEW f \in Files, NEW update \in BOOLEAN, CreateFile(f, update) PROVE Len(request') <= MaxRequests
    <3>1. Len(request) < MaxRequests
      BY <2>4 DEF CreateFile
    <3>2. Len(request') = Len(request) + 1
      BY <1>0, <2>4, CreateFileIs
    <3>3. QED
      BY <1>0, <2>1, <3>1, <3>2
  <2>5. ASSUME NEW e \in Entries, NEW fs \in EntryFiles, PrepareEntry(e, fs) PROVE Len(request') <= MaxRequests
    <3>1. CASE fs = <<>>
      <4>1. request' = request
        BY <1>0, <2>5, <3>1, PrepareEntryIs
      <4>2. QED
        BY <2>1, <4>1
    <3>2. CASE fs # <<>>
      <4>1. Len(request) < MaxRequests
        BY <2>5, <3>2 DEF PrepareEntry
      <4>2. Len(request') = Len(request) + 1
        BY <1>0, <2>5, <3>2, PrepareEntryRequest
      <4>3. QED
        BY <1>0, <2>1, <4>1, <4>2
    <3>3. QED
      BY <3>1, <3>2
  <2>6. QED
    BY <1>0, <2>2, <2>3, <2>4, <2>5, StepSame
<1>3. ASSUME NEW e \in Entries PROVE entry'[e].files \in EntryFiles \cup {<<>>}
  <2>1. CASE entry'[e].files = entry[e].files
    BY <2>1 DEF CountersInv
  <2>2. ASSUME NEW fs \in EntryFiles, PrepareEntry(e, fs) PROVE entry'[e].files \in EntryFiles
    <3>1. entry'[e] = [state |-> "open", files |-> fs]
      BY <1>0, <2>2, PrepareEntryIs
    <3>2. QED
      BY <3>1
  <2>3. QED
    BY <1>0, <2>1, <2>2, ListStep
<1>4. QED
  BY <1>1, <1>2, <1>3 DEF CountersInv

LEMMA CountersInit == ASSUME Init PROVE ProcessedInv /\ CountersInv
<1>1. \A f \in Files : file[f].processed = 0 /\ FileSize[f] \in Nat
  BY Constants DEF Init, NewFile
<1>2. call.pc = "idle"
  BY IdleFacts DEF Init
<1>3. ProcessedInv
  BY <1>1, <1>2 DEF ProcessedInv, Within
<1>4. Len(request) = 0 /\ storeKey = 0 /\ faults = 0 /\ \A e \in Entries : entry[e].files = <<>>
  BY DEF Init
<1>5. QED
  BY <1>3, <1>4, UploadsAssumption DEF CountersInv

LEMMA TypeOKHolds == ASSUME UploadInv, KeyInv, ProcessedInv, CountersInv PROVE TypeOK
<1>0. Types /\ CallHasFile /\ TotalInv
  BY DEF UploadInv
<1>1. ASSUME NEW f \in Files
      PROVE  /\ file[f].state \in {"none", "open", "gone"}
             /\ {file[f].total, file[f].processed} \subseteq 0..FileSize[f]
             /\ file[f].request \in 1..Len(request) \cup {None}
  <2>1. file[f] \in FileType /\ FileSize[f] \in Nat
    BY <1>0, Constants DEF Types
  <2>2. file[f].total <= FileSize[f] /\ file[f].processed <= FileSize[f]
    BY <1>0 DEF TotalInv, ProcessedInv, Within
  <2>3. file[f].request \in 1..Len(request) \cup {None}
    BY <1>0 DEF CallHasFile
  <2>4. QED
    BY <2>1, <2>2, <2>3 DEF FileType
<1>2. ASSUME NEW e \in Entries
      PROVE  entry[e].state \in {"none", "open", "gone"} /\ entry[e].files \in EntryFiles \cup {<<>>}
  BY <1>0 DEF Types, EntryType, CountersInv
<1>3. call.f \in Files \cup {None} /\ call.e \in Entries \cup {None}
  BY <1>0 DEF Types, CallType
<1>4. Len(request) <= MaxRequests /\ storeKey \in 0..MaxKey /\ cachedKey \in 0..storeKey \cup {None}
  BY <1>0, UploadsAssumption DEF Types, CountersInv, KeyInv
<1>5. faults \in 0..MaxFaults /\ faulty \subseteq Files
  BY <1>0, UploadsAssumption DEF Types, CountersInv
<1>6. QED
  BY <1>1, <1>2, <1>3, <1>4, <1>5 DEF TypeOK

(* A file that the server has made of an upload is read back as the bytes   *)
(* that were given to writeToFile, all of them and in their order, for all  *)
(* sizes of files, writes, chunks and parts, and whatever requests and      *)
(* answers were lost: unless a writeToFile of it threw, or a file of its    *)
(* entry was in several entries or written before it was in any.  The       *)
(* counters of the handles stay within the declared sizes.                  *)
THEOREM CreatedInvAlways == Spec => []CreatedInv
<1> DEFINE Inv == UploadInv /\ KeyInv /\ WellInv /\ StoredInv /\ WholeInv /\ ProcessedInv /\ CountersInv
<1>1. Init => Inv
  <2> SUFFICES ASSUME Init PROVE Inv
    OBVIOUS
  <2>1. UploadInv /\ KeyInv
    BY UploadInit, KeyInit
  <2>2. QED
    BY <2>1, WellInit, StoredInit, CountersInit
<1>2. Inv /\ [Next]_vars => Inv'
  <2> SUFFICES ASSUME Inv, [Next]_vars PROVE Inv'
    OBVIOUS
  <2>1. UploadInv' /\ KeyInv'
    BY UploadNext, KeyNext DEF UploadInv
  <2>2. WellInv' /\ StoredInv' /\ WholeInv'
    BY WellNext, StoredNext
  <2>3. ProcessedInv' /\ CountersInv'
    BY ProcessedNext, CountersNext
  <2>4. QED
    BY <2>1, <2>2, <2>3
<1>3. Inv => CreatedInv
  BY StoredIsGiven, TypeOKHolds DEF CreatedInv
<1>4. QED
  BY <1>1, <1>2, <1>3, PTL DEF Spec

-----------------------------------------------------------------------------
(* Entries that are open, and the files of their lists.                    *)

OpenList(e) ==
  entry[e].state = "open" => \A f \in Range(entry[e].files) : Twice(entry, f) \/ file[f].state = "open"

OpenCall ==
  /\ call.op = "send" => entry[call.e].state = (IF call.pc = "send" THEN "gone" ELSE "open")
  /\ call.op = "write" => file[call.f].state = "open"

OpenInv == OpenCall /\ \A e \in Entries : OpenList(e)

LEMMA TwiceLists ==
  ASSUME \A e \in Entries : entry'[e].files = entry[e].files, NEW f
  PROVE  Twice(entry', f) <=> Twice(entry, f)
BY DEF Twice

LEMMA TwoLists ==
  ASSUME Types, NEW d \in Entries, NEW e \in Entries, d # e, NEW f, f \in Range(entry[d].files), f \in Range(entry[e].files)
  PROVE  Twice(entry, f)
<1>1. PICK i \in DOMAIN entry[d].files : entry[d].files[i] = f
  BY DEF Range
<1>2. PICK j \in DOMAIN entry[e].files : entry[e].files[j] = f
  BY DEF Range
<1>3. <<d, i>> # <<e, j>>
  OBVIOUS
<1>4. QED
  BY <1>1, <1>2, <1>3, Zenon DEF Twice

(* The handles of one entry are removed.                                   *)
LEMMA OpenRemoved ==
  ASSUME Types, NEW d \in Entries, OpenList(d), NEW e \in Entries,
         entry' = [entry EXCEPT ![e].state = "gone"], RemoveFileHandles(entry[e].files)
  PROVE  OpenList(d)'
<1>1. /\ entry'[e].state = "gone"
      /\ \A c \in Entries : entry'[c].files = entry[c].files /\ (c # e => entry'[c] = entry[c])
  BY EntryGone
<1> SUFFICES ASSUME entry'[d].state = "open", NEW f, f \in Range(entry[d].files), ~Twice(entry, f)
             PROVE  file'[f].state = "open"
  <2>1. \A f : Twice(entry', f) <=> Twice(entry, f)
    BY <1>1, TwiceLists
  <2>2. entry'[d].files = entry[d].files
    BY <1>1
  <2>3. QED
    BY <2>1, <2>2 DEF OpenList
<1>2. d # e
  BY <1>1
<1>3. entry[d].state = "open"
  BY <1>1, <1>2
<1>4. f \in Files /\ file[f].state = "open"
  BY <1>3, ListFact DEF OpenList
<1>5. f \notin Range(entry[e].files)
  BY <1>2, TwoLists
<1>6. Removed(entry[e].files) \subseteq Range(entry[e].files)
  BY DEF Removed, Range
<1>7. QED
  BY <1>4, <1>5, <1>6, RemoveFact

(* Steps that leave the lists and what is open.                            *)
LEMMA OpenSame ==
  ASSUME NEW d \in Entries, OpenList(d), entry' = entry,
         \A f \in Range(entry[d].files) : file[f].state = "open" => file'[f].state = "open"
  PROVE  OpenList(d)'
BY DEF OpenList

LEMMA OpenWork == ASSUME UploadInv, OpenInv, Work PROVE OpenInv'
<1>1. Types /\ CallHasFile
  BY DEF UploadInv
<1>2. FileStep /\ SentStep /\ entry' = entry /\ call.f \in Files
  BY <1>1, WorkEffect DEF Effect, FileStep
<1>3. \A f \in Files : Kept(file[f], file'[f])
  BY <1>1, <1>2, ShapeKept
<1>4. \A f \in Files : file'[f].state = file[f].state
  BY <1>3, Zenon DEF Kept
<1>5. ASSUME NEW e \in Entries PROVE OpenList(e)'
  <2>1. \A f \in Range(entry[e].files) : f \in Files
    BY <1>1, ListFact
  <2>2. QED
    BY <1>2, <1>4, <2>1, OpenSame DEF OpenInv
<1>6. PICK f \in Files : f = call.f
  BY <1>2
<1>7. Out(f)
  BY <1>6, WorkOut
<1>8. OpenCall'
  <2>1. CASE call' = Idle
    BY <2>1, IdleFacts DEF OpenCall
  <2>2. CASE Moved(f)
    <3>1. call'.op = call.op /\ call'.e = call.e /\ call'.f = call.f /\ call.pc # "send" /\ call'.pc # "send"
      BY <2>2 DEF Moved
    <3>2. QED
      BY <1>2, <1>4, <3>1 DEF OpenInv, OpenCall
  <2>3. CASE CommitOn(f)
    <3>1. call.pc = "last" /\ call' = Committed
      BY <2>3 DEF CommitOn
    <3>2. Committed.op = call.op /\ Committed.e = call.e /\ Committed.pc # "send"
      BY <1>1, <3>1, CommittedFact
    <3>3. call.op # "write"
      BY <1>1, <3>1, LastOp
    <3>4. QED
      BY <1>2, <3>1, <3>2, <3>3 DEF OpenInv, OpenCall
  <2>4. QED
    BY <1>7, <2>1, <2>2, <2>3, Zenon DEF Out, Ended
<1>9. QED
  BY <1>5, <1>8 DEF OpenInv

LEMMA OpenRelease == ASSUME Types, CallHasFile, OpenInv, ReleaseHandles PROVE OpenInv'
<1> DEFINE next == [call EXCEPT !.pc = "send"]
<1>1. /\ call.pc = "release" /\ call' \in {next, Idle}
      /\ entry' = [entry EXCEPT ![call.e].state = "gone"] /\ RemoveFileHandles(entry[call.e].files)
  BY DEF ReleaseHandles
<1>2. call # Idle /\ call \in CallType
  BY <1>1, IdleFacts DEF Types
<1>3. call.op = "send" /\ call.e \in Entries
  BY <1>1, <1>2, CallFacts DEF CallShape
<1>4. next.op = "send" /\ next.pc = "send" /\ next.e = call.e
  BY <1>2, <1>3 DEF CallType
<1> HIDE DEF next
<1>5. entry'[call.e].state = "gone"
  BY <1>1, <1>3, EntryGone
<1>6. OpenCall'
  BY <1>1, <1>3, <1>4, <1>5, IdleFacts DEF OpenCall
<1>7. ASSUME NEW d \in Entries PROVE OpenList(d)'
  <2>1. PICK e \in Entries : e = call.e
    BY <1>3
  <2>2. entry' = [entry EXCEPT ![e].state = "gone"] /\ RemoveFileHandles(entry[e].files)
    BY <1>1, <2>1
  <2>3. QED
    BY <2>2, OpenRemoved DEF OpenInv
<1>8. QED
  BY <1>6, <1>7 DEF OpenInv

LEMMA StartedFact ==
  ASSUME NEW op, NEW f, NEW e, NEW pc
  PROVE  LET c == Started(op, f, e, pc)
         IN c.op = op /\ c.f = f /\ c.e = e /\ c.pc = pc /\ c.at = 1
BY DEF Started, Idle

LEMMA OpenPrepare ==
  ASSUME Types, CallHasFile, ListsInv, OpenInv, NEW e \in Entries, NEW fs \in EntryFiles, PrepareEntry(e, fs)
  PROVE  OpenInv'
<1>1. /\ call = Idle /\ call' = call /\ entry'[e] = [state |-> "open", files |-> fs] /\ fs \in Seq(Files)
      /\ \A d \in Entries \ {e} : entry'[d] = entry[d]
      /\ \A f \in Files : f \notin Range(fs) => file'[f] = file[f]
  BY PrepareEntryIs, ZenonT(60)
<1>2. \A f \in Range(fs) : file'[f].state = "open"
  BY PreparedFile
<1>3. ASSUME NEW d \in Entries PROVE OpenList(d)'
  <2>1. CASE d = e
    BY <1>1, <1>2, <2>1 DEF OpenList
  <2>2. CASE d # e
    <3> SUFFICES ASSUME entry[d].state = "open", NEW f, f \in Range(entry[d].files), ~Twice(entry', f)
                 PROVE  file'[f].state = "open"
      BY <1>1, <2>2 DEF OpenList
    <3>1. f \in Files
      BY ListFact
    <3>2. ~Twice(entry, f)
      BY TwiceAdded
    <3>3. file[f].state = "open"
      BY <3>2 DEF OpenInv, OpenList
    <3>4. CASE f \in Range(fs)
      BY <1>2, <3>4
    <3>5. CASE f \notin Range(fs)
      BY <1>1, <3>1, <3>3, <3>5
    <3>6. QED
      BY <3>4, <3>5
  <2>3. QED
    BY <2>1, <2>2
<1>4. QED
  BY <1>1, <1>3, IdleFacts DEF OpenInv, OpenCall

LEMMA OpenBegin == ASSUME UploadInv, OpenInv, Begin PROVE OpenInv'
<1>0. Types /\ CallHasFile /\ ListsInv
  BY DEF UploadInv
<1>a. \A d \in Entries : OpenList(d) /\ Range(entry[d].files) \subseteq Files \ StoreFiles
  BY <1>0, ListFact DEF OpenInv
<1>1. ASSUME NEW f \in Files, NEW update \in BOOLEAN, CreateFile(f, update) PROVE OpenInv'
  <2>1. call = Idle /\ call' = call /\ entry' = entry /\ \A h \in Files \ {f} : file'[h] = file[h]
    BY <1>0, <1>1, CreateFileIs
  <2>2. file[f].state = "none"
    BY <1>1 DEF CreateFile
  <2>3. \A h \in Files : file[h].state = "open" => file'[h].state = "open"
    BY <2>1, <2>2
  <2>4. QED
    BY <1>a, <2>1, <2>3, OpenSame, IdleFacts DEF OpenInv, OpenCall
<1>2. ASSUME NEW f \in Files, CloseFile(f) PROVE OpenInv'
  <2>1. /\ f \in StoreFiles /\ entry' = entry /\ call' = Started("close", f, None, "finalize")
        /\ file' = [file EXCEPT ![f].state = "gone", ![f].began = storeKey]
    BY <1>2 DEF CloseFile
  <2>2. \A h \in Files \ StoreFiles : file'[h] = file[h]
    BY <1>0, <2>1 DEF Types
  <2>3. call'.op = "close"
    BY <2>1, StartedFact
  <2>4. OpenCall'
    BY <2>3 DEF OpenCall
  <2>5. ASSUME NEW d \in Entries PROVE OpenList(d)'
    <3>1. \A h \in Range(entry[d].files) : file[h].state = "open" => file'[h].state = "open"
      BY <1>a, <2>2
    <3>2. QED
      BY <1>a, <2>1, <3>1, OpenSame
  <2>6. QED
    BY <2>4, <2>5 DEF OpenInv
<1>3. ASSUME NEW f \in Files, CreateFileHandle(f) PROVE OpenInv'
  <2>1. /\ call = Idle /\ call' = call /\ entry' = entry /\ file[f].state = "none"
        /\ \A h \in Files \ {f} : file'[h] = file[h]
    BY <1>0, <1>3 DEF CreateFileHandle, Types
  <2>3. \A h \in Files : file[h].state = "open" => file'[h].state = "open"
    BY <2>1
  <2>4. QED
    BY <1>a, <2>1, <2>3, OpenSame, IdleFacts DEF OpenInv, OpenCall
<1>4. ASSUME NEW f \in Files, NEW len \in Nat, Write(f, len) PROVE OpenInv'
  <2>1. /\ call = Idle /\ file[f].state = "open" /\ entry' = entry
        /\ \/ file' = file /\ call' = call
           \/ /\ file' = [file EXCEPT ![f] = Buffered(file[f], f, len)]
              /\ call' = Started("write", f, None, "write")
    BY <1>0, <1>4, WriteCases, Zenon
  <2>2. Buffered(file[f], f, len).state = "open"
    BY <1>0, <2>1, BufferedFact DEF Types
  <2>3. \A h \in Files : file[h].state = "open" => file'[h].state = "open"
    BY <1>0, <2>1, <2>2 DEF Types
  <2>4. OpenCall'
    BY <2>1, <2>3, StartedFact, IdleFacts DEF OpenCall
  <2>5. QED
    BY <1>a, <2>1, <2>3, <2>4, OpenSame DEF OpenInv
<1>5. ASSUME NEW e \in Entries, SendEntry(e) PROVE OpenInv'
  <2>1. /\ call = Idle /\ entry[e].state = "open"
        /\ \/ /\ call' = Started("send", entry[e].files[1], e, "finalize")
              /\ UNCHANGED <<file, entry>>
           \/ /\ entry' = [entry EXCEPT ![e].state = "gone"] /\ RemoveFileHandles(entry[e].files)
              /\ UNCHANGED call
    BY <1>0, <1>5, SendEntryCases, Zenon
  <2>2. OpenCall'
    BY <2>1, StartedFact, IdleFacts DEF OpenCall
  <2>3. ASSUME NEW d \in Entries PROVE OpenList(d)'
    BY <1>0, <1>a, <2>1, OpenRemoved, OpenSame
  <2>4. QED
    BY <2>2, <2>3 DEF OpenInv
<1>6. ASSUME NEW e \in Entries, NEW lost \in Losses, SendText(e, lost) PROVE OpenInv'
  <2>1. UNCHANGED <<file, entry, call>>
    BY <1>6 DEF SendText
  <2>2. QED
    BY <2>1 DEF OpenInv, OpenCall, OpenList
<1>7. QED
  BY <1>0, <1>1, <1>2, <1>3, <1>4, <1>5, <1>6, BeginCases, OpenPrepare

LEMMA OpenNext == ASSUME UploadInv, OpenInv, [Next]_vars PROVE OpenInv'
<1>1. Types /\ CallHasFile
  BY DEF UploadInv
<1>2. CASE Begin
  BY <1>2, OpenBegin
<1>3. CASE Step
  BY <1>1, <1>3, StepIs, OpenWork, OpenRelease
<1>4. ASSUME RotateKey \/ UNCHANGED vars PROVE OpenInv'
  <2>1. UNCHANGED <<file, entry, call>>
    BY <1>4 DEF RotateKey, vars
  <2>2. QED
    BY <2>1 DEF OpenInv, OpenCall, OpenList
<1>5. QED
  BY <1>2, <1>3, <1>4 DEF Next

LEMMA OpenInit == ASSUME Init PROVE OpenInv
<1>1. call = Idle /\ \A e \in Entries : entry[e].state = "none"
  BY DEF Init
<1>2. QED
  BY <1>1, IdleFacts DEF OpenInv, OpenCall, OpenList

-----------------------------------------------------------------------------
(* Files that are committed, and requests that nothing was made of.        *)

IsCommitted(f) == file[f].request # None /\ Sent(file[f]).committed

Unused(f) == \A k \in DOMAIN stored : stored[k].request = None \/ stored[k].request # file[f].request

LEMMA FaultyGrows == ASSUME UploadInv, [Next]_vars PROVE faulty \subseteq faulty'
<1>1. CASE Begin
  <2>1. faulty' = faulty
    BY <1>1, ZenonT(60) DEF Begin, CreateFile, WriteToFile, Write, CloseFile, CreateFileHandle, PrepareEntry,
                WriteToEntryFile, SendEntry, SendText, losses
  <2>2. QED
    BY <2>1, SMTT(30)
<1>2. CASE Step
  <2>1. CASE Work
    BY <2>1, WorkFaulty
  <2>2. CASE ReleaseHandles
    BY <2>2 DEF ReleaseHandles, losses
  <2>3. QED
    BY <1>2, <2>1, <2>2, StepIs
<1>3. ASSUME RotateKey \/ UNCHANGED vars PROVE faulty' = faulty
  BY <1>3 DEF RotateKey, losses, vars
<1>4. QED
  BY <1>1, <1>2, <1>3 DEF Next

(* A file that keeps its place in a request.                               *)
Placed(f) == file'[f].request = file[f].request /\ file'[f].index = file[f].index

LEMMA CommitFrame ==
  ASSUME UploadInv, [Next]_vars, NEW f \in Files, Placed(f)
  PROVE  /\ IsCommitted(f) => IsCommitted(f)'
         /\ IsCommitted(f)' => IsCommitted(f) \/ (call.f = f /\ call.pc = "last")
<1>0. Types /\ CallHasFile /\ PlacesInv /\ ListsInv
  BY DEF UploadInv
<1>1. ASSUME IsCommitted(f) PROVE IsCommitted(f)'
  <2> DEFINE a == file[f].request
             b == file[f].index
  <2>1. a # None
    BY <1>1 DEF IsCommitted
  <2>2. a \in 1..Len(request) /\ b \in 1..Len(request[a])
    BY <1>0, <2>1, SentFact
  <2>3. request[a][b].committed
    BY <1>1 DEF IsCommitted, Sent
  <2> HIDE DEF a, b
  <2>4. request'[a][b] = request[a][b]
    BY <2>2, <2>3, RequestStays
  <2>5. request'[a][b].committed
    BY <2>3, <2>4
  <2>6. QED
    BY <2>1, <2>5 DEF IsCommitted, Sent, Placed, a, b
<1>2. ASSUME IsCommitted(f)' PROVE IsCommitted(f) \/ (call.f = f /\ call.pc = "last")
  <2>1. file'[f].request # None /\ Sent(file[f])'.committed
    BY <1>2 DEF IsCommitted
  <2>2. Sent(file[f]).committed \/ (call.f = f /\ call.pc = "last")
    BY <1>0, <2>1, CommitStep
  <2>3. QED
    BY <2>1, <2>2 DEF IsCommitted, Placed
<1>3. QED
  BY <1>1, <1>2

(* What is made of a request ends the call.                                *)
LEMMA StoredEnds == ASSUME Work, stored' # stored PROVE call' = Idle /\ call.pc \in {"sendFile", "send"}
<1>1. ASSUME WriteChunk \/ Finalize PROVE stored' = stored
  BY <1>1 DEF WriteChunk, Finalize, PrepareAndSendChunk
<1>2. ASSUME WriteEnds \/ PartsSent \/ CheckSize PROVE stored' = stored
  BY <1>2 DEF WriteEnds, PartsSent, CheckSize
<1>3. ASSUME NEW lost \in Losses, SendPart(lost) \/ SendLast(lost) \/ CommitFile(lost) PROVE stored' = stored
  BY <1>3, Zenon DEF SendPart, SendLast, CommitFile, SendChunkToServer, Request
<1>4. ASSUME NEW lost \in Losses, FetchKey(lost) PROVE stored' = stored
  BY <1>4 DEF FetchKey
<1>5. ASSUME NEW lost \in Losses, SendFile(lost) PROVE call' = Idle /\ call.pc = "sendFile"
  BY <1>5 DEF SendFile, Throw
<1>6. ASSUME NEW lost \in Losses, InboxSend(lost) PROVE call' = Idle /\ call.pc = "send"
  BY <1>6 DEF InboxSend, Throw
<1>7. QED
  BY <1>1, <1>2, <1>3, <1>4, <1>5, <1>6, Zenon DEF Work

LEMMA CreatedUnused ==
  ASSUME Types, NEW f, NEW by \in Files \cup Entries, NEW r \in Nat \cup {None}, NEW fs \in Seq(Files),
         stored' = Created(by, r, fs), Unused(f), file'[f].request = file[f].request,
         r = None \/ r # file[f].request
  PROVE  Unused(f)'
<1>1. PICK x \in StoredType : stored' = Append(stored, x) /\ x.request = r
  BY CreatedIs DEF AddedAs
<1>2. stored \in Seq(StoredType)
  BY DEF Types
<1>3. QED
  BY <1>1, <1>2 DEF Unused

(* The file whose request is made into something.                         *)
Making(g) ==
  \/ call.pc = "sendFile" /\ g = call.f
  \/ call.pc = "send" /\ g = entry[call.e].files[1]

LEMMA MakingFact ==
  ASSUME Types, CallHasFile, NEW g, Making(g)
  PROVE  /\ g \in Files /\ call # Idle
         /\ call.pc = "sendFile" => g \in StoreFiles /\ call.op = "close"
         /\ call.pc = "send" => /\ call.op = "send" /\ call.e \in Entries /\ g \in Range(entry[call.e].files)
                                /\ entry[call.e].files \in Seq(Files) /\ g \notin StoreFiles
<1>1. call.pc \in {"sendFile", "send"}
  BY DEF Making
<1>2. call # Idle
  BY <1>1, IdleFacts
<1>3. CASE call.pc = "sendFile"
  BY <1>2, <1>3, Constants DEF Making, CallHasFile, CallShape
<1>4. CASE call.pc = "send"
  <2>1. call.op = "send" /\ call.e \in Entries /\ g = entry[call.e].files[1]
    BY <1>2, <1>4 DEF Making, CallHasFile, CallShape
  <2>2. entry[call.e].files \in Seq(Files) /\ call.at \in 1..Len(entry[call.e].files)
    BY <1>2, <2>1, CallFacts
  <2>3. 1 \in DOMAIN entry[call.e].files /\ DOMAIN entry[call.e].files = 1..Len(entry[call.e].files)
    BY <2>2
  <2>4. g \in Files \ StoreFiles
    BY <2>1, <2>3, ListFact
  <2>5. QED
    BY <1>2, <1>4, <2>1, <2>2, <2>3, <2>4 DEF Range
<1>5. QED
  BY <1>1, <1>3, <1>4

LEMMA UnusedStep ==
  ASSUME UploadInv, [Next]_vars, NEW f \in Files, file'[f].request = file[f].request, Unused(f)
  PROVE  \/ Unused(f)'
         \/ \E g \in Files : Making(g) /\ file[g].request = file[f].request /\ file[f].request # None
<1>0. Types /\ CallHasFile
  BY DEF UploadInv
<1>1. CASE stored' = stored
  BY <1>1 DEF Unused
<1>2. CASE /\ call.pc = "sendFile"
           /\ stored' = Created(call.f, file[call.f].request, <<call.f>>)
  <2>1. Making(call.f)
    BY <1>2 DEF Making
  <2>2. PICK g \in Files : g = call.f
    BY <1>0, <2>1, MakingFact
  <2>3. file[g].request \in Nat \cup {None} /\ <<g>> \in Seq(Files)
    BY <1>0, OneFile DEF Types, FileType
  <2>4. stored' = Created(g, file[g].request, <<g>>)
    BY <1>2, <2>2
  <2>5. CASE file[g].request = None \/ file[g].request # file[f].request
    BY <1>0, <2>3, <2>4, <2>5, CreatedUnused
  <2>6. CASE file[g].request # None /\ file[g].request = file[f].request
    BY <2>1, <2>2, <2>6
  <2>7. QED
    BY <2>5, <2>6
<1>3. CASE /\ call.pc = "send"
           /\ stored' = Created(call.e, file[entry[call.e].files[1]].request, entry[call.e].files)
  <2>1. Making(entry[call.e].files[1])
    BY <1>3 DEF Making
  <2>2. PICK g \in Files : g = entry[call.e].files[1]
    BY <1>0, <2>1, MakingFact
  <2>3. PICK e \in Entries : e = call.e
    BY <1>0, <1>3, <2>1, MakingFact
  <2>4. file[g].request \in Nat \cup {None} /\ entry[e].files \in Seq(Files)
    BY <1>0, ListFact DEF Types, FileType
  <2>5. stored' = Created(e, file[g].request, entry[e].files)
    BY <1>3, <2>2, <2>3
  <2>6. CASE file[g].request = None \/ file[g].request # file[f].request
    BY <1>0, <2>4, <2>5, <2>6, CreatedUnused
  <2>7. CASE file[g].request # None /\ file[g].request = file[f].request
    BY <2>1, <2>2, <2>7
  <2>8. QED
    BY <2>6, <2>7
<1>4. ASSUME NEW e \in Entries, entry[e].files = <<>>, stored' = Created(e, None, <<>>) PROVE Unused(f)'
  <2>1. <<>> \in Seq(Files)
    OBVIOUS
  <2>2. QED
    BY <1>0, <1>4, <2>1, CreatedUnused
<1>5. QED
  BY <1>1, <1>2, <1>3, <1>4, NextStored DEF StoredStep

(* Of a request that is new nothing was made.                              *)
LEMMA NewUnused ==
  ASSUME UploadInv, StoredInv, NEW f \in Files, stored' = stored, file'[f].request = Len(request) + 1
  PROVE  Unused(f)'
<1>1. Len(request) \in Nat
  BY DEF UploadInv, Types
<1>2. \A k \in DOMAIN stored : stored[k].request = None \/ stored[k].request \in 1..Len(request)
  BY DEF StoredInv
<1>3. QED
  BY <1>1, <1>2 DEF Unused

(* A file without a loss that is not misused is refused only when it is    *)
(* committed already.                                                      *)
LEMMA RefusedWhen ==
  ASSUME UploadInv, KeyInv, WellInv, OpenInv, Work, NEW f \in Files, f = call.f, f \notin faulty', ~Misused(f)',
         NEW x, Ended(f, x), x \in Refusals, outcome[Caller] \notin Refusals
  PROVE  /\ call.pc # "fetch"
         /\ call.pc \in {"sendFile", "send"} \/ (call.op # "write" /\ IsCommitted(f))
<1>0. Types /\ CallHasFile /\ PlacesInv /\ call # Idle
  <2>1. call.f # Idle.f
    BY IdleFacts, Constants
  <2>2. QED
    BY <2>1 DEF UploadInv
<1>1. [Next]_vars
  BY DEF Next, Step, Work
<1>2. file[f].state # "none"
  <2>1. CASE call.op = "write"
    BY <2>1 DEF OpenInv, OpenCall
  <2>2. CASE call.op # "write"
    BY <1>0, <2>2, CallRequest DEF PlacesInv
  <2>3. QED
    BY <2>1, <2>2
<1>3. ~Misused(f) /\ f \notin faulty
  BY <1>1, <1>2, MarksStay, FaultyGrows
<1>4. ~file[f].torn /\ ~file[f].early
  BY <1>3 DEF WellInv, TornInv, Misused
<1>5. Fine(f)
  BY <1>3, <1>4 DEF WellInv, CleanInv, Fine
<1>6. StepGood(f)
  BY WorkGood
<1>7. Mild \/ f \in faulty' \/ call.pc \in {"sendFile", "send"} \/ (call.op # "write" /\ Sent(file[f]).committed)
  BY <1>5, <1>6, Zenon DEF StepGood
<1>8. ~Mild
  <2>1. outcome' = [outcome EXCEPT ![Caller] = x] /\ Caller \in Files \cup Entries
    BY <1>0, CallFacts DEF Ended
  <2>2. outcome \in [Files \cup Entries -> Outcomes]
    BY <1>0 DEF Types
  <2>3. outcome'[Caller] = x
    BY <2>1, <2>2
  <2>4. outcome' # outcome
    BY <2>3
  <2>5. QED
    BY <2>1, <2>2, <2>3, <2>4 DEF Mild
<1>9. call.op # "write" => file[f].request # None
  BY <1>0, CallRequest
<1>10. QED
  BY <1>7, <1>8, <1>9 DEF Ended, IsCommitted

-----------------------------------------------------------------------------
(* A file of a Store: until a loss it is committed by its closeFile only,  *)
(* and nothing is made of its request before.                              *)

AloneOne(f) ==
  f \notin faulty /\ file[f].state # "none" =>
    /\ file[f].state = "open" => ~IsCommitted(f)
    /\ file[f].state = "open" \/ call.f = f => Unused(f)
    /\ call.f = f => (IsCommitted(f) <=> call.pc \in {"fetch", "sendFile"})

AloneInv == \A f \in StoreFiles : AloneOne(f)

LEMMA StoreFileStep ==
  ASSUME UploadInv, [Next]_vars, NEW f \in StoreFiles
  PROVE  \/ /\ Placed(f)
            /\ file'[f].state = "open" => file[f].state = "open"
            /\ file'[f].state # "none" => file[f].state # "none"
         \/ \E update \in BOOLEAN : CreateFile(f, update)
<1>0. Types /\ CallHasFile /\ PlacesInv /\ ListsInv /\ TotalInv /\ f \in Files
  BY Constants DEF UploadInv
<1>1. CASE Same
  <2>1. Placed(f) /\ (file'[f].state = "none" <=> file[f].state = "none")
    BY <1>0, <1>1 DEF Same, Placed
  <2>2. file[f].state = "gone" => file'[f].state = "gone"
    BY <1>0, GrowsNext DEF Grows
  <2>3. file[f].state \in {"none", "open", "gone"}
    BY <1>0 DEF Types, FileType
  <2>4. QED
    BY <2>1, <2>2, <2>3
<1>2. ASSUME NEW h \in Files, NEW update \in BOOLEAN, CreateFile(h, update)
      PROVE  file'[f] = file[f] \/ CreateFile(f, update)
  BY <1>0, <1>2, CreateFileIs
<1>3. ASSUME NEW h \in Files, CreateFileHandle(h) PROVE file'[f] = file[f]
  BY <1>0, <1>3 DEF CreateFileHandle, Types
<1>4. ASSUME NEW e \in Entries, NEW fs \in EntryFiles, PrepareEntry(e, fs) PROVE file'[f] = file[f]
  <2>1. fs \in Seq(Files \ StoreFiles) /\ \A h \in Files : h \notin Range(fs) => file'[h] = file[h]
    BY <1>0, <1>4, PrepareEntryIs, ZenonT(60)
  <2>2. f \notin Range(fs)
    BY <2>1 DEF Range
  <2>3. QED
    BY <1>0, <2>1, <2>2
<1>5. ASSUME file'[f] = file[f]
      PROVE  /\ Placed(f)
             /\ file'[f].state = "open" => file[f].state = "open"
             /\ file'[f].state # "none" => file[f].state # "none"
  BY <1>5 DEF Placed
<1>6. QED
  BY <1>0, <1>1, <1>2, <1>3, <1>4, <1>5, StepSame

LEMMA AloneCreated ==
  ASSUME UploadInv, StoredInv, NEW f \in StoreFiles, NEW update \in BOOLEAN, CreateFile(f, update)
  PROVE  AloneOne(f)'
<1>0. Types /\ f \in Files
  BY Constants DEF UploadInv
<1> DEFINE r == Len(request) + 1
           g == [NewFile EXCEPT !.request = r, !.index = 1, !.key = <<r, 1>>, !.update = update]
<1>1. /\ call = Idle /\ call' = call /\ stored' = stored /\ file'[f] = g
      /\ request'[r][1] = NewSent(FileSize[f])
  BY <1>0, CreateFileIs, Zenon
<1>2. g.request = r /\ g.index = 1
  BY DEF NewFile
<1> HIDE DEF g
<1>3. Unused(f)'
  BY <1>0, <1>1, <1>2, NewUnused DEF r
<1>4. Sent(file[f])' = NewSent(FileSize[f])
  BY <1>1, <1>2 DEF Sent
<1>5. ~IsCommitted(f)'
  BY <1>4, NewSentFact DEF IsCommitted
<1>6. call'.f # f
  BY <1>0, <1>1, IdleFacts, Constants
<1>7. QED
  BY <1>3, <1>5, <1>6 DEF AloneOne

(* What keeps a file of a Store as it was.                                 *)
LEMMA AloneKeeps ==
  ASSUME NEW f, AloneOne(f), faulty \subseteq faulty',
         file'[f].state = "open" => file[f].state = "open",
         file'[f].state # "none" => file[f].state # "none",
         IsCommitted(f)' <=> IsCommitted(f),
         (file'[f].state = "open" \/ call'.f = f) /\ Unused(f) => Unused(f)',
         call'.f = f => \/ file[f].state = "open" /\ call'.pc \notin {"fetch", "sendFile"}
                        \/ call.f = f /\ (call'.pc \in {"fetch", "sendFile"} <=> call.pc \in {"fetch", "sendFile"})
  PROVE  AloneOne(f)'
BY Zenon DEF AloneOne

(* Calls that begin, and the release of the handles of an entry.           *)
LEMMA QuietCall ==
  ASSUME UploadInv, Begin \/ ReleaseHandles, NEW f \in StoreFiles, call'.f = f
  PROVE  file[f].state = "open" /\ call'.pc \notin {"fetch", "sendFile"}
<1>0. Types /\ CallHasFile /\ f \in Files /\ f # None
  BY Constants DEF UploadInv
<1>1. ASSUME call = Idle /\ call' = call PROVE FALSE
  BY <1>0, <1>1, IdleFacts
<1>2. ASSUME NEW h \in Files, NEW len \in Nat, Write(h, len)
      PROVE  file[f].state = "open" /\ call'.pc \notin {"fetch", "sendFile"}
  <2>1. call = Idle /\ file[h].state = "open" /\ (call' = call \/ call' = Started("write", h, None, "write"))
    BY <1>0, <1>2, WriteCases, Zenon
  <2>2. QED
    BY <1>1, <2>1, StartedFact
<1>3. ASSUME NEW h \in Files, CloseFile(h) PROVE file[f].state = "open" /\ call'.pc \notin {"fetch", "sendFile"}
  <2>1. file[h].state = "open" /\ call' = Started("close", h, None, "finalize")
    BY <1>3 DEF CloseFile
  <2>2. QED
    BY <2>1, StartedFact
<1>4. ASSUME NEW e \in Entries, SendEntry(e) PROVE FALSE
  <2>1. /\ call = Idle /\ entry[e].files # <<>>
        /\ call' = call \/ call' = Started("send", entry[e].files[1], e, "finalize")
    BY <1>0, <1>4, SendEntryCases, Zenon
  <2>2. entry[e].files \in Seq(Files)
    BY <1>0, ListFact
  <2>3. 1 \in DOMAIN entry[e].files
    BY <2>1, <2>2
  <2>4. entry[e].files[1] \notin StoreFiles
    BY <1>0, <2>3, ListFact
  <2>5. QED
    BY <1>1, <2>1, <2>4, StartedFact
<1>5. ASSUME ReleaseHandles PROVE FALSE
  <2>1. call.pc = "release" /\ call' \in {[call EXCEPT !.pc = "send"], Idle}
    BY <1>5 DEF ReleaseHandles
  <2>2. call # Idle /\ call \in CallType
    BY <1>0, <2>1, IdleFacts DEF Types
  <2>3. call.op = "send" /\ call.e \in Entries
    BY <1>0, <2>1, <2>2 DEF CallHasFile, CallShape
  <2>4. call.at \in 1..Len(entry[call.e].files) /\ call.f = entry[call.e].files[call.at]
    BY <1>0, <2>2, <2>3, CallFacts
  <2>5. call.f \notin StoreFiles
    BY <1>0, <2>3, <2>4, ListFact
  <2>6. call'.f = call.f \/ call'.f = None
    <3>1. [call EXCEPT !.pc = "send"].f = call.f
      BY <2>2 DEF CallType
    <3>2. QED
      BY <2>1, <3>1, IdleFacts
  <2>7. QED
    BY <1>0, <2>5, <2>6
<1>6. ASSUME Begin PROVE \/ call = Idle /\ call' = call
                         \/ \E h \in Files, len \in Nat : Write(h, len)
                         \/ \E h \in Files : CloseFile(h)
                         \/ \E e \in Entries : SendEntry(e)
  BY <1>6, BeginCases DEF CreateFile, CreateFileHandle, PrepareEntry, SendText
<1>7. QED
  BY <1>1, <1>2, <1>3, <1>4, <1>5, <1>6

LEMMA QuietPlace ==
  ASSUME UploadInv, Begin \/ ReleaseHandles
  PROVE  (call = Idle \/ call.pc = "release") /\ call.pc # "last" /\ ~\E g : Making(g)
<1>1. ASSUME Begin PROVE call = Idle
  BY <1>1, ZenonT(60) DEF Begin, CreateFile, WriteToFile, Write, CloseFile, CreateFileHandle, PrepareEntry, WriteToEntryFile,
              SendEntry, SendText
<1>2. ASSUME ReleaseHandles PROVE call.pc = "release"
  BY <1>2 DEF ReleaseHandles
<1>3. QED
  BY <1>1, <1>2, IdleFacts, SMTT(30) DEF Making

LEMMA AloneQuiet ==
  ASSUME UploadInv, StoredInv, AloneInv, [Next]_vars, Begin \/ ReleaseHandles, NEW f \in StoreFiles
  PROVE  AloneOne(f)'
<1>0. f \in Files
  BY Constants
<1>1. CASE \E update \in BOOLEAN : CreateFile(f, update)
  BY <1>1, AloneCreated
<1>2. CASE /\ Placed(f)
           /\ file'[f].state = "open" => file[f].state = "open"
           /\ file'[f].state # "none" => file[f].state # "none"
  <2>1. IsCommitted(f)' <=> IsCommitted(f)
    BY <1>0, <1>2, CommitFrame, QuietPlace
  <2>2. Unused(f) => Unused(f)'
    BY <1>0, <1>2, UnusedStep, QuietPlace DEF Placed
  <2>3. call'.f = f => file[f].state = "open" /\ call'.pc \notin {"fetch", "sendFile"}
    BY QuietCall
  <2>4. AloneOne(f) /\ faulty \subseteq faulty'
    BY FaultyGrows DEF AloneInv
  <2>5. QED
    BY <1>2, <2>1, <2>2, <2>3, <2>4, AloneKeeps
<1>3. QED
  BY <1>1, <1>2, StoreFileStep

(* The steps of a call: another file of a Store, and the file at work.     *)
LEMMA WorkIsNext == ASSUME Work PROVE [Next]_vars
BY DEF Next, Step, Work

LEMMA WorkFile ==
  ASSUME UploadInv, Work
  PROVE  /\ Types /\ CallHasFile /\ PlacesInv /\ ListsInv /\ call # Idle /\ call.f \in Files /\ entry' = entry
         /\ \A f \in Files : Placed(f) /\ file'[f].state = file[f].state
<1>1. Types /\ CallHasFile /\ PlacesInv /\ ListsInv
  BY DEF UploadInv
<1>2. FileStep /\ SentStep /\ entry' = entry /\ call.f \in Files
  BY <1>1, WorkEffect DEF Effect, FileStep
<1>3. \A f \in Files : Kept(file[f], file'[f])
  BY <1>1, <1>2, ShapeKept
<1>4. \A f \in Files : Placed(f) /\ file'[f].state = file[f].state
  BY <1>3, Zenon DEF Kept, Placed
<1>5. call # Idle
  BY <1>2, IdleFacts, Constants
<1>6. QED
  BY <1>1, <1>2, <1>4, <1>5

LEMMA WorkNextFile ==
  ASSUME UploadInv, Work, NEW f \in StoreFiles, f # call.f
  PROVE  call'.f # f
<1>0. Types /\ CallHasFile /\ call.f \in Files /\ call # Idle
  BY WorkFile
<1>1. PICK g \in Files : g = call.f
  BY <1>0
<1>2. Out(g)
  BY <1>1, WorkOut
<1>3. CASE call' = Idle
  BY <1>3, IdleFacts, Constants
<1>4. CASE Moved(g)
  BY <1>4 DEF Moved
<1>5. CASE CommitOn(g)
  <2>1. call.pc = "last" /\ call' = Committed
    BY <1>5 DEF CommitOn
  <2>2. CASE call.op = "close"
    BY <1>0, <2>1, <2>2, CommittedFact
  <2>3. CASE call.op = "send"
    <3>1. call.e \in Entries
      BY <1>0, <2>3, CallFacts
    <3>2. CallShape(Committed) /\ Committed.op = "send" /\ Committed.e = call.e
      BY <1>0, <2>1, <2>3, CommittedFact
    <3>3. Committed # Idle
      BY <3>2, IdleFacts
    <3>4. Committed.at \in 1..Len(entry[call.e].files) /\ Committed.f = entry[call.e].files[Committed.at]
      BY <3>2, <3>3 DEF CallShape
    <3>5. Committed.f \notin StoreFiles
      BY <1>0, <3>1, <3>4, ListFact
    <3>6. QED
      BY <2>1, <3>5
  <2>4. QED
    BY <1>0, <2>1, <2>2, <2>3, LastOp
<1>6. QED
  BY <1>2, <1>3, <1>4, <1>5, Zenon DEF Out, Ended

LEMMA AloneOther ==
  ASSUME UploadInv, AloneInv, Work, NEW f \in StoreFiles, f # call.f
  PROVE  AloneOne(f)'
<1>0. f \in Files /\ Types /\ CallHasFile /\ PlacesInv
  BY Constants, WorkFile
<1>1. Placed(f) /\ file'[f].state = file[f].state
  BY <1>0, WorkFile
<1>2. IsCommitted(f)' <=> IsCommitted(f)
  BY <1>0, <1>1, CommitFrame, WorkIsNext
<1>3. Unused(f) => Unused(f)'
  <2> SUFFICES ASSUME NEW g \in Files, Making(g), file[g].request = file[f].request, file[f].request # None
               PROVE  FALSE
    BY <1>0, <1>1, UnusedStep, WorkIsNext DEF Placed
  <2>1. g # f
    <3>1. CASE call.pc = "sendFile"
      BY <3>1 DEF Making
    <3>2. CASE call.pc = "send"
      BY <1>0, <3>2, MakingFact
    <3>3. QED
      BY <3>1, <3>2 DEF Making
  <2>2. QED
    BY <1>0, <2>1 DEF PlacesInv
<1>4. call'.f # f
  BY WorkNextFile
<1>5. AloneOne(f) /\ faulty \subseteq faulty'
  BY FaultyGrows, WorkIsNext DEF AloneInv
<1>6. QED
  BY <1>1, <1>2, <1>3, <1>4, <1>5, AloneKeeps

LEMMA AloneWork ==
  ASSUME UploadInv, KeyInv, AloneInv, Work, NEW f \in StoreFiles, f = call.f
  PROVE  AloneOne(f)'
<1>0. f \in Files /\ Types /\ CallHasFile /\ PlacesInv /\ call # Idle
  BY Constants, WorkFile
<1>1. Placed(f) /\ file'[f].state = file[f].state
  BY <1>0, WorkFile
<1>2. AloneOne(f) /\ faulty \subseteq faulty'
  BY FaultyGrows, WorkIsNext DEF AloneInv
<1>3. call.op \in {"write", "close"}
  <2>1. CASE call.op = "send"
    <3>1. call.e \in Entries /\ call.at \in 1..Len(entry[call.e].files) /\ call.f = entry[call.e].files[call.at]
      BY <1>0, <2>1, CallFacts
    <3>2. QED
      BY <1>0, <3>1, ListFact
  <2>2. QED
    BY <1>0, <2>1, CallFacts
<1>4. /\ IsCommitted(f) => IsCommitted(f)'
      /\ call.pc # "last" => (IsCommitted(f)' <=> IsCommitted(f))
  BY <1>0, <1>1, CommitFrame, WorkIsNext
<1>5. call.pc \notin {"sendFile", "send"} \/ call' # Idle => (Unused(f) => Unused(f)')
  <2>1. CASE call.pc \notin {"sendFile", "send"}
    <3>1. ~\E g : Making(g)
      BY <2>1 DEF Making
    <3>2. QED
      BY <1>0, <1>1, <3>1, UnusedStep, WorkIsNext DEF Placed
  <2>2. CASE call' # Idle
    <3>1. stored' = stored
      BY <2>2, StoredEnds
    <3>2. QED
      BY <1>1, <3>1 DEF Unused, Placed
  <2>3. QED
    BY <2>1, <2>2
<1>6. CASE call' = Idle
  <2>1. call'.f # f
    BY <1>0, <1>6, IdleFacts, Constants
  <2>2. CASE call.op = "close"
    <3>1. file'[f].state = "gone"
      BY <1>1, <2>2 DEF KeyInv
    <3>2. QED
      BY <2>1, <3>1 DEF AloneOne
  <2>3. CASE call.op = "write"
    <3>1. call.pc \in {"write", "parts"}
      BY <1>0, <2>3 DEF CallHasFile, CallShape
    <3>2. (IsCommitted(f)' <=> IsCommitted(f)) /\ (Unused(f) => Unused(f)')
      BY <1>4, <1>5, <3>1
    <3>3. QED
      BY <1>1, <1>2, <2>1, <3>2, AloneKeeps
  <2>4. QED
    BY <1>3, <2>2, <2>3
<1>7. CASE Moved(f)
  <2>1. /\ call'.op = call.op /\ call'.f = f
        /\ call'.pc \in {"fetch", "sendFile"} <=> call.pc \in {"fetch", "sendFile"}
        /\ call.pc = "last" => (Sent(file[f])'.committed => Sent(file[f]).committed)
    BY <1>7, Zenon DEF Moved
  <2>2. call' # Idle
    BY <1>3, <2>1, IdleFacts
  <2>3. IsCommitted(f)' <=> IsCommitted(f)
    BY <1>1, <1>4, <2>1 DEF IsCommitted, Placed
  <2>4. Unused(f) => Unused(f)'
    BY <1>5, <2>2
  <2>5. QED
    BY <1>1, <1>2, <2>1, <2>3, <2>4, AloneKeeps
<1>8. CASE CommitOn(f)
  <2>1. call.pc = "last" /\ call' = Committed /\ Sent(file[f])'.committed
    BY <1>8 DEF CommitOn
  <2>2. call.op = "close"
    BY <1>0, <1>3, <2>1, LastOp
  <2>3. call'.f = f /\ call'.pc \in {"fetch", "sendFile"}
    BY <1>0, <2>1, <2>2, CommittedFact
  <2>4. file[f].state = "gone" /\ file[f].request # None
    BY <1>0, <2>2, CallRequest DEF KeyInv
  <2>5. IsCommitted(f)'
    BY <1>1, <2>1, <2>4 DEF IsCommitted, Placed
  <2>6. Unused(f) => Unused(f)'
    BY <1>5, <2>1
  <2>7. QED
    BY <1>1, <1>2, <2>3, <2>4, <2>5, <2>6 DEF AloneOne
<1>9. Out(f)
  BY WorkOut
<1>10. QED
  BY <1>6, <1>7, <1>8, <1>9, Zenon DEF Out, Ended

LEMMA AloneNext ==
  ASSUME UploadInv, KeyInv, StoredInv, AloneInv, [Next]_vars
  PROVE  AloneInv'
<1> SUFFICES ASSUME NEW f \in StoreFiles PROVE AloneOne(f)'
  BY DEF AloneInv
<1>1. CASE Begin \/ ReleaseHandles
  BY <1>1, AloneQuiet
<1>2. CASE Work
  BY <1>2, AloneWork, AloneOther
<1>3. CASE RotateKey \/ UNCHANGED vars
  <2>1. UNCHANGED <<file, call, request, stored, faulty>>
    BY <1>3 DEF RotateKey, losses, vars
  <2>2. QED
    BY <2>1 DEF AloneInv, AloneOne, IsCommitted, Unused, Sent
<1>4. QED
  BY <1>1, <1>2, <1>3, StepIs DEF Next

LEMMA AloneInit == ASSUME Init PROVE AloneInv
<1>1. \A f \in StoreFiles : file[f].state = "none"
  BY Constants DEF Init
<1>2. QED
  BY <1>1 DEF AloneInv, AloneOne

-----------------------------------------------------------------------------
(* Files that are refused.                                                 *)

RefusedOne(f) == outcome[f] \in Refusals => file[f].state # "none" /\ (f \in faulty \/ Misused(f))

RefusedInv == \A f \in Files : RefusedOne(f)

LEMMA CallerFact ==
  ASSUME Types, CallHasFile, call # Idle
  PROVE  /\ call.op = "send" => Caller = call.e /\ Caller \in Entries
         /\ call.op # "send" => Caller = call.f /\ Caller \in Files
BY CallFacts DEF Caller

(* Calls that begin refuse no file, and release nothing but entries.       *)
LEMMA QuietOutcome ==
  ASSUME UploadInv, Begin \/ ReleaseHandles, NEW f \in Files, outcome'[f] \in Refusals
  PROVE  outcome[f] \in Refusals
<1>0. Types /\ CallHasFile /\ outcome \in [Files \cup Entries -> Outcomes] /\ f \notin Entries
  BY Constants DEF UploadInv, Types
<1>1. ASSUME outcome' = outcome \/ \E e \in Entries, x \in Outcomes : outcome' = [outcome EXCEPT ![e] = x]
      PROVE  outcome[f] \in Refusals
  BY <1>0, <1>1
<1>2. ASSUME NEW h \in Files, NEW len \in Nat, Write(h, len) PROVE outcome[f] \in Refusals
  <2>1. outcome' = outcome \/ outcome' = [outcome EXCEPT ![h] = "bigger"]
    BY <1>0, <1>2, WriteCases, Zenon
  <2>2. QED
    BY <1>0, <2>1 DEF Refusals
<1>3. ASSUME NEW e \in Entries, SendEntry(e) PROVE outcome[f] \in Refusals
  <2>1. \/ outcome' = outcome
        \/ outcome' = [outcome EXCEPT ![e] = "different"] \/ outcome' = [outcome EXCEPT ![e] = "handle"]
    BY <1>0, <1>3, SendEntryCases
  <2>2. QED
    BY <1>1, <2>1 DEF Outcomes
<1>4. ASSUME NEW e \in Entries, NEW lost \in Losses, SendText(e, lost) PROVE outcome[f] \in Refusals
  <2>1. outcome' = [outcome EXCEPT ![e] = "stored"] \/ outcome' = [outcome EXCEPT ![e] = "lost"]
    BY <1>4 DEF SendText
  <2>2. QED
    BY <1>1, <2>1 DEF Outcomes
<1>5. ASSUME ReleaseHandles PROVE outcome[f] \in Refusals
  <2>1. call.pc = "release" /\ (outcome' = outcome \/ outcome' = [outcome EXCEPT ![call.e] = "handle"])
    BY <1>5 DEF ReleaseHandles
  <2>2. call # Idle
    BY <2>1, IdleFacts
  <2>3. call.e \in Entries
    BY <1>0, <2>1, <2>2 DEF CallHasFile, CallShape
  <2>4. QED
    BY <1>1, <2>1, <2>3 DEF Outcomes
<1>6. ASSUME Begin PROVE \/ outcome' = outcome
                         \/ \E h \in Files, len \in Nat : Write(h, len)
                         \/ \E e \in Entries : SendEntry(e) \/ \E lost \in Losses : SendText(e, lost)
  BY <1>6, BeginCases DEF CreateFile, CreateFileHandle, PrepareEntry, CloseFile
<1>7. QED
  BY <1>1, <1>2, <1>3, <1>4, <1>5, <1>6

(* closeFile: the request of a file that is committed and of which nothing *)
(* was made is taken.                                                      *)
LEMMA AloneTaken ==
  ASSUME UploadInv, NEW f \in StoreFiles, IsCommitted(f), Unused(f)
  PROVE  TakesRequest(file[f].request, 1)
<1>0. Types /\ CallHasFile /\ PlacesInv /\ f \in Files
  BY Constants DEF UploadInv
<1>1. file[f].request # None /\ Sent(file[f]).committed
  BY DEF IsCommitted
<1>2. file[f].state # "none" /\ Len(request[file[f].request]) = 1 /\ file[f].index = 1
  BY <1>0, <1>1 DEF PlacesInv
<1>3. request[file[f].request][1].committed
  BY <1>1, <1>2 DEF Sent
<1>4. \A k \in DOMAIN stored : stored[k].request # file[f].request
  BY <1>1 DEF Unused
<1>5. \A i \in 1..1 : i = 1
  OBVIOUS
<1>6. \A i \in 1..1 : request[file[f].request][i].committed
  BY <1>3, <1>5
<1>7. QED
  BY <1>1, <1>2, <1>4, <1>6 DEF TakesRequest

LEMMA RefusedWork ==
  ASSUME UploadInv, KeyInv, WellInv, OpenInv, AloneInv, Work, NEW f \in Files,
         outcome'[f] \in Refusals, outcome[f] \notin Refusals
  PROVE  file[f].state # "none" /\ (f \in faulty' \/ Misused(f)')
<1>0. Types /\ CallHasFile /\ PlacesInv /\ call # Idle /\ call.f \in Files /\ f \notin Entries
  BY Constants, WorkFile
<1>1. PICK g \in Files : g = call.f
  BY <1>0
<1>2. Out(g)
  BY <1>1, WorkOut
<1>3. outcome' # outcome
  OBVIOUS
<1>4. PICK x : Ended(g, x)
  BY <1>2, <1>3, Zenon DEF Out, Moved, CommitOn
<1>5. outcome' = [outcome EXCEPT ![Caller] = x]
  BY <1>4 DEF Ended
<1>6. Caller = f /\ outcome'[f] = x
  BY <1>0, <1>5 DEF Types
<1>7. call.op # "send" /\ f = call.f
  BY <1>0, <1>6, CallerFact
<1>8. file[f].state # "none"
  <2>1. CASE call.op = "write"
    BY <1>7, <2>1 DEF OpenInv, OpenCall
  <2>2. CASE call.op # "write"
    BY <1>0, <1>7, <2>2, CallRequest DEF PlacesInv
  <2>3. QED
    BY <2>1, <2>2
<1>9. ASSUME f \notin faulty', ~Misused(f)' PROVE FALSE
  <2>1. Ended(f, x) /\ x \in Refusals /\ outcome[Caller] \notin Refusals
    BY <1>1, <1>4, <1>6, <1>7
  <2>2. /\ call.pc # "fetch"
        /\ call.pc \in {"sendFile", "send"} \/ (call.op # "write" /\ IsCommitted(f))
    BY <1>7, <1>9, <2>1, RefusedWhen
  <2>3. call.op = "close" /\ f \in StoreFiles
    <3>1. call.op # "write"
      BY <1>0, <2>2 DEF CallHasFile, CallShape
    <3>2. QED
      BY <1>0, <1>7, <3>1 DEF CallHasFile, CallShape
  <2>4. call.pc # "send"
    BY <1>0, <2>3 DEF CallHasFile, CallShape
  <2>5. f \notin faulty
    BY <1>9, FaultyGrows, WorkIsNext
  <2>6. (IsCommitted(f) <=> call.pc \in {"fetch", "sendFile"}) /\ Unused(f)
    BY <1>7, <1>8, <2>3, <2>5 DEF AloneInv, AloneOne
  <2>7. call.pc = "sendFile" /\ IsCommitted(f)
    BY <2>2, <2>4, <2>6
  <2>8. TakesRequest(file[f].request, 1)
    BY <2>3, <2>6, <2>7, AloneTaken
  <2>9. QED
    BY <2>1, <2>7, <2>8 DEF Ended
<1>10. QED
  BY <1>8, <1>9

LEMMA RefusedNext ==
  ASSUME UploadInv, KeyInv, WellInv, OpenInv, AloneInv, RefusedInv, [Next]_vars
  PROVE  RefusedInv'
<1> SUFFICES ASSUME NEW f \in Files, outcome'[f] \in Refusals
             PROVE  file'[f].state # "none" /\ (f \in faulty' \/ Misused(f)')
  BY DEF RefusedInv, RefusedOne
<1>1. CASE outcome[f] \in Refusals
  <2>1. file[f].state # "none" /\ (f \in faulty \/ Misused(f))
    BY <1>1 DEF RefusedInv, RefusedOne
  <2>2. file'[f].state # "none"
    BY <2>1, StateStays
  <2>3. (f \in faulty => f \in faulty') /\ (Misused(f) => Misused(f)')
    BY <2>1, FaultyGrows, MarksStay
  <2>4. QED
    BY <2>1, <2>2, <2>3
<1>2. CASE outcome[f] \notin Refusals
  <2>1. CASE Begin \/ ReleaseHandles
    BY <1>2, <2>1, QuietOutcome
  <2>2. CASE Work
    <3>1. file[f].state # "none" /\ (f \in faulty' \/ Misused(f)')
      BY <1>2, <2>2, RefusedWork
    <3>2. QED
      BY <3>1, StateStays
  <2>3. CASE RotateKey \/ UNCHANGED vars
    <3>1. outcome' = outcome
      BY <2>3 DEF RotateKey, vars
    <3>2. QED
      BY <1>2, <3>1
  <2>4. QED
    BY <2>1, <2>2, <2>3, StepIs DEF Next
<1>3. QED
  BY <1>1, <1>2

LEMMA RefusedInit == ASSUME Init PROVE RefusedInv
<1>1. \A f \in Files : outcome[f] = "none"
  BY DEF Init
<1>2. QED
  BY <1>1 DEF RefusedInv, RefusedOne, Refusals

-----------------------------------------------------------------------------
(* Entries whose files met no loss and are not misused: their files are    *)
(* committed one by one by one sendEntry, and nothing is made of their     *)
(* request before.                                                         *)

Sound(e) == \A f \in Range(entry[e].files) : ~Misused(f) /\ f \notin faulty

Sending(e) == call.op = "send" /\ call.e = e

Passed(i) == i < call.at \/ call.pc \in {"release", "send"}

FileOne(e, i, f) ==
  /\ entry[e].state = "open" \/ Sending(e) => Unused(f)
  /\ entry[e].state = "open" /\ ~Sending(e) => ~IsCommitted(f)
  /\ Sending(e) => (IsCommitted(f) <=> Passed(i))

FilesOne(e) == \A i \in DOMAIN entry[e].files, f \in Files : entry[e].files[i] = f => FileOne(e, i, f)

SoundInv == \A e \in Entries : Sound(e) => outcome[e] \notin Refusals /\ FilesOne(e)

(* The files of such an entry keep their places.                           *)
LEMMA SoundStays ==
  ASSUME UploadInv, KeyInv, [Next]_vars, NEW e \in Entries, Sound(e)',
         ~\E fs \in EntryFiles : PrepareEntry(e, fs)
  PROVE  /\ entry'[e].files = entry[e].files /\ Sound(e)
         /\ \A f \in Range(entry[e].files) :
              /\ f \in Files \ StoreFiles /\ file[f].request # None /\ Placed(f)
              /\ ~Twice(entry, f) /\ f \notin faulty' /\ ~Misused(f)'
<1>0. Types /\ CallHasFile /\ PlacesInv /\ ListsInv
  BY DEF UploadInv
<1>1. entry'[e].files = entry[e].files
  BY <1>0, ListStep
<1>2. ASSUME NEW f \in Range(entry[e].files)
      PROVE  /\ f \in Files \ StoreFiles /\ file[f].request # None /\ Placed(f)
             /\ ~Twice(entry, f) /\ f \notin faulty' /\ ~Misused(f)' /\ ~Misused(f) /\ f \notin faulty
  <2>1. f \in Files \ StoreFiles
    BY <1>0, ListFact
  <2>2. file[f].request # None
    BY <1>0 DEF ListsInv, Range
  <2>3. file[f].state # "none"
    BY <1>0, <2>1, <2>2 DEF PlacesInv
  <2>4. ~Misused(f)' /\ f \notin faulty'
    BY <1>1 DEF Sound
  <2>5. ~Misused(f) /\ f \notin faulty
    BY <2>1, <2>3, <2>4, MarksStay, FaultyGrows
  <2>6. ~Twice(entry, f) /\ ~Twice(entry', f)
    BY <2>4, <2>5, MisusedIs, MisusedNext
  <2>7. Placed(f)
    <3>1. CASE Same
      BY <2>1, <3>1 DEF Same, Placed
    <3>2. ASSUME NEW h \in Files, NEW update \in BOOLEAN, CreateFile(h, update) PROVE file'[f] = file[f]
      BY <1>0, <2>1, <3>2, CreateFileIs
    <3>3. ASSUME NEW h \in Files, CreateFileHandle(h) PROVE file'[f] = file[f]
      BY <1>0, <2>1, <2>3, <3>3 DEF CreateFileHandle, Types
    <3>4. ASSUME NEW d \in Entries, NEW fs \in EntryFiles, PrepareEntry(d, fs) PROVE file'[f] = file[f]
      <4>1. d # e
        BY <3>4
      <4>2. f \notin Range(fs)
        <5>1. PICK i \in DOMAIN entry[e].files : entry[e].files[i] = f
          BY DEF Range
        <5>2. fs \in Seq(Files)
          BY <1>0, <3>4, PrepareEntryIs
        <5>3. \A j \in 1..Len(fs) : fs[j] # f
          BY <1>0, <2>6, <3>4, <4>1, <5>1, TwiceAdded
        <5>4. QED
          BY <5>2, <5>3 DEF Range
      <4>3. \A h \in Files : h \notin Range(fs) => file'[h] = file[h]
        BY <1>0, <3>4, PrepareEntryIs, ZenonT(60)
      <4>4. QED
        BY <2>1, <4>2, <4>3
    <3>5. ASSUME file'[f] = file[f] PROVE Placed(f)
      BY <3>5 DEF Placed
    <3>6. QED
      BY <1>0, <3>1, <3>2, <3>3, <3>4, <3>5, StepSame
  <2>8. QED
    BY <2>1, <2>2, <2>4, <2>5, <2>6, <2>7
<1>3. QED
  BY <1>1, <1>2 DEF Sound

(* prepareEntry: the files of the new entry have a new request.            *)
LEMMA SoundPrepared ==
  ASSUME UploadInv, StoredInv, SoundInv, NEW e \in Entries, NEW fs \in EntryFiles, PrepareEntry(e, fs)
  PROVE  outcome'[e] \notin Refusals /\ FilesOne(e)'
<1>0. Types /\ CallHasFile /\ ListsInv
  BY DEF UploadInv
<1>1. /\ call = Idle /\ entry[e].state = "none" /\ fs \in Seq(Files)
      /\ entry'[e] = [state |-> "open", files |-> fs]
  BY <1>0, PrepareEntryIs, Zenon
<1>2. call' = call /\ stored' = stored /\ outcome' = outcome
  BY DEF PrepareEntry
<1>3. outcome[e] \notin Refusals
  <2>1. entry[e].files = <<>>
    BY <1>0, <1>1 DEF ListsInv
  <2>2. Sound(e)
    BY <2>1 DEF Sound, Range
  <2>3. QED
    BY <2>2 DEF SoundInv
<1>4. ASSUME NEW f \in Range(fs) PROVE f \in Files /\ Unused(f)' /\ ~IsCommitted(f)'
  <2>1. f \in Files /\ file'[f].request = Len(request) + 1 /\ Sent(file[f])' = NewSent(FileSize[f])
    BY <1>0, PreparedFile
  <2>2. Unused(f)'
    BY <1>2, <2>1, NewUnused
  <2>3. QED
    BY <2>1, <2>2, NewSentFact DEF IsCommitted
<1>5. ~Sending(e)'
  BY <1>1, <1>2, IdleFacts DEF Sending
<1>6. ASSUME NEW i \in DOMAIN fs, NEW f \in Files, fs[i] = f PROVE FileOne(e, i, f)'
  <2>1. f \in Range(fs)
    BY <1>6 DEF Range
  <2>2. QED
    BY <1>4, <1>5, <2>1 DEF FileOne
<1>7. entry'[e].files = fs
  BY <1>1
<1>8. FilesOne(e)'
  BY <1>6, <1>7 DEF FilesOne
<1>9. QED
  BY <1>2, <1>3, <1>8

(* What keeps the files of an entry as they were.                          *)
LEMMA FileKeeps ==
  ASSUME NEW e, NEW i, NEW f, FileOne(e, i, f), entry'[e].state = "open" => entry[e].state = "open",
         IsCommitted(f)' <=> IsCommitted(f),
         (entry'[e].state = "open" \/ Sending(e)') /\ Unused(f) => Unused(f)',
         entry'[e].state = "open" /\ ~Sending(e)' => ~Sending(e),
         Sending(e)' => \/ Sending(e) /\ (Passed(i)' <=> Passed(i))
                        \/ ~Sending(e) /\ entry[e].state = "open" /\ ~Passed(i)'
  PROVE  FileOne(e, i, f)'
BY Zenon DEF FileOne

(* The handles of an entry whose files are in no other list are all there. *)
LEMMA MissingNone ==
  ASSUME Types, OpenInv, NEW e \in Entries, entry[e].state = "open",
         \A f \in Range(entry[e].files) : ~Twice(entry, f)
  PROVE  Missing(entry[e].files) = {}
<1> DEFINE fs == entry[e].files
<1>1. fs \in Seq(Files) /\ DOMAIN fs = 1..Len(fs) /\ Len(fs) \in Nat
  BY ListFact
<1> SUFFICES ASSUME NEW i \in DOMAIN fs, file[fs[i]].state # "open" \/ \E j \in 1..(i - 1) : fs[j] = fs[i]
             PROVE  FALSE
  BY DEF Missing
<1>2. fs[i] \in Range(fs)
  BY DEF Range
<1>3. file[fs[i]].state = "open"
  BY <1>2 DEF OpenInv, OpenList
<1>4. PICK j \in 1..(i - 1) : fs[j] = fs[i]
  BY <1>3
<1>5. j \in DOMAIN fs /\ j # i
  BY <1>1
<1>6. <<e, j>> # <<e, i>>
  BY <1>5
<1>7. Twice(entry, fs[i])
  BY <1>4, <1>5, <1>6, Zenon DEF Twice
<1>8. QED
  BY <1>2, <1>7

(* What a call that begins, or the release of the handles, does to e.      *)
QuietOK(e) ==
  /\ entry'[e].state = "open" => entry[e].state = "open"
  /\ outcome'[e] \in Refusals => outcome[e] \in Refusals
  /\ entry'[e].state = "open" /\ ~Sending(e)' => ~Sending(e)
  /\ Sending(e)' => \/ Sending(e) /\ call.pc = "release" /\ call'.pc = "send"
                    \/ ~Sending(e) /\ entry[e].state = "open" /\ call'.at = 1 /\ call'.pc = "finalize"

LEMMA QuietIdle ==
  ASSUME NEW e, call = Idle, call'.op # "send", entry'[e] = entry[e],
         outcome'[e] \in Refusals => outcome[e] \in Refusals
  PROVE  QuietOK(e)
BY IdleFacts DEF QuietOK, Sending

LEMMA QuietSendEntry ==
  ASSUME UploadInv, OpenInv, NEW d \in Entries, SendEntry(d), NEW e \in Entries,
         \A f \in Range(entry[e].files) : ~Twice(entry, f)
  PROVE  QuietOK(e)
<1>0. Types /\ outcome \in [Files \cup Entries -> Outcomes]
  BY DEF UploadInv, Types
<1>1. call = Idle /\ entry[d].state = "open"
  BY <1>0, SendEntryCases, Zenon
<1>2. ~Sending(e)
  BY <1>1, IdleFacts DEF Sending
<1>3. CASE /\ call' = Started("send", entry[d].files[1], d, "finalize")
           /\ UNCHANGED <<file, entry, outcome>>
  <2>1. call'.at = 1 /\ call'.pc = "finalize" /\ call'.e = d
    BY <1>3, StartedFact
  <2>2. QED
    BY <1>1, <1>2, <1>3, <2>1 DEF QuietOK, Sending
<1>4. CASE /\ entry' = [entry EXCEPT ![d].state = "gone"] /\ UNCHANGED call
           /\ outcome' = [outcome EXCEPT ![d] = IF Missing(entry[d].files) = {} THEN "different" ELSE "handle"]
  <2>1. ~Sending(e)'
    BY <1>1, <1>4, IdleFacts DEF Sending
  <2>2. entry'[d].state = "gone" /\ (e # d => entry'[e] = entry[e])
    BY <1>0, <1>4, EntryGone
  <2>3. CASE e = d
    <3>1. Missing(entry[d].files) = {}
      BY <1>0, <1>1, <2>3, MissingNone
    <3>2. outcome'[e] = "different"
      BY <1>0, <1>4, <2>3, <3>1
    <3>3. QED
      BY <1>2, <2>1, <2>2, <2>3, <3>2 DEF QuietOK, Refusals
  <2>4. CASE e # d
    <3>1. outcome'[e] = outcome[e]
      BY <1>0, <1>4, <2>4
    <3>2. QED
      BY <1>2, <2>1, <2>2, <2>4, <3>1 DEF QuietOK
  <2>5. QED
    BY <2>3, <2>4
<1>5. QED
  BY <1>0, <1>3, <1>4, SendEntryCases

LEMMA QuietRelease ==
  ASSUME UploadInv, OpenInv, ReleaseHandles, NEW e \in Entries,
         \A f \in Range(entry[e].files) : ~Twice(entry, f)
  PROVE  QuietOK(e)
<1>0. Types /\ CallHasFile /\ outcome \in [Files \cup Entries -> Outcomes]
  BY DEF UploadInv, Types
<1>1. call.pc = "release" /\ entry' = [entry EXCEPT ![call.e].state = "gone"]
  BY DEF ReleaseHandles
<1>2. \/ Missing(entry[call.e].files) = {} /\ call' = [call EXCEPT !.pc = "send"] /\ outcome' = outcome
      \/ /\ Missing(entry[call.e].files) # {} /\ call' = Idle
         /\ outcome' = [outcome EXCEPT ![call.e] = "handle"]
  BY DEF ReleaseHandles
<1>3. call # Idle /\ call \in CallType
  BY <1>0, <1>1, IdleFacts DEF Types
<1>4. call.op = "send" /\ call.e \in Entries
  BY <1>0, <1>1, <1>3 DEF CallHasFile, CallShape
<1>5. PICK d \in Entries : d = call.e
  BY <1>4
<1>6. entry[d].state = "open"
  BY <1>1, <1>4, <1>5 DEF OpenInv, OpenCall
<1>7. entry'[d].state = "gone" /\ (e # d => entry'[e] = entry[e])
  BY <1>0, <1>1, <1>5, EntryGone
<1>8. CASE e = d
  <2>1. Missing(entry[d].files) = {}
    BY <1>0, <1>6, <1>8, MissingNone
  <2>2. call' = [call EXCEPT !.pc = "send"] /\ outcome' = outcome
    BY <1>2, <1>5, <2>1
  <2>3. call'.pc = "send"
    BY <1>3, <2>2 DEF CallType
  <2>4. Sending(e)
    BY <1>4, <1>5, <1>8 DEF Sending
  <2>5. QED
    BY <1>1, <1>7, <1>8, <2>2, <2>3, <2>4 DEF QuietOK
<1>9. CASE e # d
  <2>1. outcome'[e] = outcome[e]
    BY <1>0, <1>2, <1>5, <1>9
  <2>2. ~Sending(e)
    BY <1>5, <1>9 DEF Sending
  <2>3. [call EXCEPT !.pc = "send"].e = call.e
    BY <1>3 DEF CallType
  <2>4. ~Sending(e)'
    BY <1>2, <1>5, <1>9, <2>3, IdleFacts DEF Sending
  <2>5. QED
    BY <1>7, <1>9, <2>1, <2>2, <2>4 DEF QuietOK
<1>10. QED
  BY <1>8, <1>9

LEMMA QuietEntry ==
  ASSUME UploadInv, OpenInv, Begin \/ ReleaseHandles, NEW e \in Entries,
         ~\E fs \in EntryFiles : PrepareEntry(e, fs),
         \A f \in Range(entry[e].files) : ~Twice(entry, f)
  PROVE  QuietOK(e)
<1>0. Types /\ CallHasFile /\ outcome \in [Files \cup Entries -> Outcomes] /\ e \notin Files
  BY Constants DEF UploadInv, Types
<1>1. ASSUME NEW f \in Files, NEW update \in BOOLEAN, CreateFile(f, update) PROVE QuietOK(e)
  BY <1>1, QuietIdle, IdleFacts DEF CreateFile
<1>2. ASSUME NEW f \in Files, CloseFile(f) PROVE QuietOK(e)
  <2>1. call = Idle /\ entry' = entry /\ outcome' = outcome /\ call' = Started("close", f, None, "finalize")
    BY <1>2 DEF CloseFile
  <2>2. call'.op = "close"
    BY <2>1, StartedFact
  <2>3. QED
    BY <2>1, <2>2, QuietIdle
<1>3. ASSUME NEW f \in Files, CreateFileHandle(f) PROVE QuietOK(e)
  BY <1>3, QuietIdle, IdleFacts DEF CreateFileHandle
<1>4. ASSUME NEW f \in Files, NEW len \in Nat, Write(f, len) PROVE QuietOK(e)
  <2>1. /\ call = Idle /\ entry' = entry
        /\ \/ outcome' = [outcome EXCEPT ![f] = "bigger"] /\ call' = call
           \/ call' = Started("write", f, None, "write") /\ outcome' = outcome
    BY <1>0, <1>4, WriteCases, Zenon
  <2>2. outcome'[e] = outcome[e]
    BY <1>0, <2>1
  <2>3. call'.op # "send"
    BY <2>1, StartedFact, IdleFacts
  <2>4. QED
    BY <2>1, <2>2, <2>3, QuietIdle
<1>5. ASSUME NEW d \in Entries, NEW fs \in EntryFiles, PrepareEntry(d, fs) PROVE QuietOK(e)
  <2>1. d # e
    BY <1>5
  <2>2. \A c \in Entries \ {d} : entry'[c] = entry[c]
    BY <1>0, <1>5, PrepareEntryIs, Zenon
  <2>3. call = Idle /\ call' = call /\ outcome' = outcome
    BY <1>5 DEF PrepareEntry
  <2>4. QED
    BY <2>1, <2>2, <2>3, QuietIdle, IdleFacts
<1>6. ASSUME NEW d \in Entries, NEW lost \in Losses, SendText(d, lost) PROVE QuietOK(e)
  <2>1. /\ call = Idle /\ call' = call /\ entry' = entry
        /\ outcome' = [outcome EXCEPT ![d] = "stored"] \/ outcome' = [outcome EXCEPT ![d] = "lost"]
    BY <1>6 DEF SendText
  <2>2. outcome'[e] \in Refusals => outcome[e] \in Refusals
    BY <1>0, <2>1 DEF Refusals
  <2>3. QED
    BY <2>1, <2>2, QuietIdle, IdleFacts
<1>7. QED
  BY <1>1, <1>2, <1>3, <1>4, <1>5, <1>6, BeginCases, QuietSendEntry, QuietRelease

LEMMA SoundQuiet ==
  ASSUME UploadInv, KeyInv, OpenInv, SoundInv, [Next]_vars, Begin \/ ReleaseHandles, NEW e \in Entries, Sound(e)',
         ~\E fs \in EntryFiles : PrepareEntry(e, fs)
  PROVE  outcome'[e] \notin Refusals /\ FilesOne(e)'
<1>0. Types
  BY DEF UploadInv
<1>1. entry'[e].files = entry[e].files /\ Sound(e)
  BY SoundStays
<1>2. \A f \in Range(entry[e].files) : f \in Files \ StoreFiles /\ Placed(f) /\ ~Twice(entry, f)
  BY SoundStays
<1>3. outcome[e] \notin Refusals /\ FilesOne(e)
  BY <1>1 DEF SoundInv
<1>4. QuietOK(e)
  BY <1>2, QuietEntry
<1>5. ASSUME NEW i \in DOMAIN entry[e].files, NEW f \in Files, entry[e].files[i] = f PROVE FileOne(e, i, f)'
  <2>1. f \in Range(entry[e].files) /\ i \in Nat /\ i > 0
    BY <1>0, <1>5, ListFact DEF Range
  <2>2. FileOne(e, i, f)
    BY <1>3, <1>5 DEF FilesOne
  <2>3. IsCommitted(f)' <=> IsCommitted(f)
    BY <1>2, <2>1, CommitFrame, QuietPlace
  <2>4. Unused(f) => Unused(f)'
    BY <1>2, <2>1, UnusedStep, QuietPlace DEF Placed
  <2>5. Sending(e)' => \/ Sending(e) /\ (Passed(i)' <=> Passed(i))
                       \/ ~Sending(e) /\ entry[e].state = "open" /\ ~Passed(i)'
    BY <1>4, <2>1 DEF QuietOK, Passed
  <2>6. QED
    BY <1>4, <2>2, <2>3, <2>4, <2>5, FileKeeps DEF QuietOK
<1>6. QED
  BY <1>1, <1>3, <1>4, <1>5 DEF QuietOK, FilesOne

(* The steps of a call that is not the sendEntry of e.                     *)
LEMMA OtherCaller ==
  ASSUME UploadInv, Work, NEW e \in Entries, ~Sending(e)
  PROVE  ~Sending(e)' /\ outcome'[e] = outcome[e]
<1>0. Types /\ CallHasFile /\ call # Idle /\ call.f \in Files
  BY WorkFile
<1>1. PICK g \in Files : g = call.f
  BY <1>0
<1>2. Out(g)
  BY <1>1, WorkOut
<1>3. Caller # e
  <2>1. e \notin Files
    BY Constants
  <2>2. QED
    BY <1>0, <2>1, CallerFact DEF Sending
<1>4. outcome \in [Files \cup Entries -> Outcomes]
  BY <1>0 DEF Types
<1>5. ASSUME NEW x, Ended(g, x) PROVE ~Sending(e)' /\ outcome'[e] = outcome[e]
  <2>1. call' = Idle /\ outcome' = [outcome EXCEPT ![Caller] = x]
    BY <1>5 DEF Ended
  <2>2. QED
    BY <1>3, <1>4, <2>1, IdleFacts DEF Sending
<1>6. CASE call' = Idle /\ outcome' = outcome
  BY <1>6, IdleFacts DEF Sending
<1>7. CASE Moved(g)
  BY <1>7 DEF Moved, Sending
<1>8. CASE CommitOn(g)
  <2>1. call.pc = "last" /\ call' = Committed /\ outcome' = outcome
    BY <1>8 DEF CommitOn
  <2>2. call'.op = call.op /\ call'.e = call.e
    BY <1>0, <2>1, CommittedFact
  <2>3. QED
    BY <2>1, <2>2 DEF Sending
<1>9. QED
  BY <1>2, <1>5, <1>6, <1>7, <1>8, Zenon DEF Out

LEMMA SoundOther ==
  ASSUME UploadInv, KeyInv, SoundInv, Work, NEW e \in Entries, Sound(e)', ~Sending(e)
  PROVE  outcome'[e] \notin Refusals /\ FilesOne(e)'
<1>0. Types /\ CallHasFile /\ PlacesInv /\ ListsInv /\ call # Idle /\ entry' = entry
  BY WorkFile
<1>a. [Next]_vars /\ ~\E fs \in EntryFiles : PrepareEntry(e, fs)
  BY <1>0, WorkIsNext DEF PrepareEntry
<1>1. Sound(e) /\ \A f \in Range(entry[e].files) :
         f \in Files \ StoreFiles /\ file[f].request # None /\ Placed(f) /\ ~Twice(entry, f)
  BY <1>a, SoundStays
<1>2. ~Sending(e)' /\ outcome'[e] = outcome[e]
  BY OtherCaller
<1>3. outcome[e] \notin Refusals /\ FilesOne(e)
  BY <1>1 DEF SoundInv
<1>4. ASSUME NEW i \in DOMAIN entry[e].files, NEW f \in Files, entry[e].files[i] = f PROVE FileOne(e, i, f)'
  <2>1. f \in Range(entry[e].files)
    BY <1>4 DEF Range
  <2>2. FileOne(e, i, f)
    BY <1>3, <1>4 DEF FilesOne
  <2>3. IsCommitted(f)' <=> IsCommitted(f)
    <3>1. ~(call.f = f /\ call.pc = "last")
      <4> SUFFICES ASSUME call.f = f, call.pc = "last" PROVE FALSE
        OBVIOUS
      <4>1. call.op \in {"close", "send"}
        BY <1>0, LastOp
      <4>2. CASE call.op = "close"
        <5>1. call.f \in StoreFiles
          BY <1>0, <4>2 DEF CallHasFile, CallShape
        <5>2. QED
          BY <1>1, <2>1, <5>1
      <4>3. CASE call.op = "send"
        <5>1. PICK d \in Entries : d = call.e
          BY <1>0, <4>3, CallFacts
        <5>2. call.at \in 1..Len(entry[d].files) /\ f = entry[d].files[call.at]
          BY <1>0, <4>3, <5>1, CallFacts
        <5>3. f \in Range(entry[d].files)
          BY <1>0, <5>2, ListFact DEF Range
        <5>4. d # e
          BY <4>3, <5>1 DEF Sending
        <5>5. QED
          BY <1>0, <1>1, <2>1, <5>3, <5>4, TwoLists
      <4>4. QED
        BY <4>1, <4>2, <4>3
    <3>2. QED
      BY <1>1, <1>a, <2>1, <3>1, CommitFrame
  <2>4. Unused(f) => Unused(f)'
    <3> SUFFICES ASSUME NEW g \in Files, Making(g), file[g].request = file[f].request, file[f].request # None
                 PROVE  FALSE
      BY <1>1, <1>a, <2>1, UnusedStep DEF Placed
    <3>1. CASE call.pc = "sendFile"
      <4>1. g \in StoreFiles
        BY <1>0, <3>1, MakingFact
      <4>2. g # f
        BY <1>1, <2>1, <4>1
      <4>3. QED
        BY <1>0, <4>1, <4>2 DEF PlacesInv
    <3>2. CASE call.pc = "send"
      <4>1. PICK d \in Entries : d = call.e
        BY <1>0, <3>2, MakingFact
      <4>2. g \in Range(entry[d].files) /\ d # e
        BY <1>0, <3>2, <4>1, MakingFact DEF Sending
      <4>3. InList(e, i)
        BY <1>0, <1>1, <1>4, <2>1 DEF ListsInv
      <4>4. g \in Range(entry[e].files)
        BY <1>4, <4>3 DEF InList
      <4>5. Twice(entry, g)
        BY <1>0, <4>2, <4>4, TwoLists, SMTT(30)
      <4>6. QED
        BY <1>1, <4>4, <4>5
    <3>3. QED
      BY <3>1, <3>2 DEF Making
  <2>5. QED
    BY <1>0, <1>2, <2>2, <2>3, <2>4, FileKeeps
<1>5. QED
  BY <1>0, <1>2, <1>3, <1>4 DEF FilesOne

(* sendEntry: the request of an entry whose files are all committed, and   *)
(* of which nothing was made, is taken.                                    *)
LEMMA TogetherTaken ==
  ASSUME UploadInv, NEW e \in Entries, entry[e].files # <<>>,
         \A f \in Range(entry[e].files) : f \in Files /\ ~Twice(entry, f) /\ IsCommitted(f) /\ Unused(f)
  PROVE  TakesRequest(file[entry[e].files[1]].request, Len(entry[e].files))
<1>0. Types /\ CallHasFile /\ ListsInv
  BY DEF UploadInv
<1> DEFINE fs == entry[e].files
           r == file[fs[1]].request
<1>1. fs \in Seq(Files) /\ DOMAIN fs = 1..Len(fs) /\ Len(fs) \in Nat
  BY <1>0, ListFact
<1>2. 1 \in DOMAIN fs /\ fs[1] \in Range(fs)
  BY <1>1 DEF Range
<1>3. InList(e, 1)
  BY <1>0, <1>2 DEF ListsInv
<1>4. /\ Len(request[r]) = Len(fs)
      /\ \A j \in DOMAIN fs : ~Twice(entry, fs[j]) => file[fs[j]].request = r
  BY <1>3 DEF InList
<1>5. r # None /\ \A k \in DOMAIN stored : stored[k].request # r
  <2>1. IsCommitted(fs[1]) /\ Unused(fs[1])
    BY <1>2
  <2>2. QED
    BY <2>1 DEF IsCommitted, Unused
<1>6. ASSUME NEW j \in 1..Len(fs) PROVE request[r][j].committed
  <2>1. j \in DOMAIN fs /\ fs[j] \in Range(fs)
    BY <1>1 DEF Range
  <2>2. ~Twice(entry, fs[j]) /\ IsCommitted(fs[j])
    BY <2>1
  <2>3. InList(e, j)
    BY <1>0, <2>1, <2>2 DEF ListsInv
  <2>4. file[fs[j]].request = r /\ file[fs[j]].index = j
    BY <1>4, <2>1, <2>2, <2>3 DEF InList
  <2>5. QED
    BY <2>2, <2>4 DEF IsCommitted, Sent
<1>7. QED
  BY <1>4, <1>5, <1>6, ZenonT(60) DEF TakesRequest

(* The steps of the sendEntry of e.                                        *)
LEMMA WorkPlace == ASSUME Types, Work PROVE call.pc # "release"
<1>1. ASSUME WriteChunk \/ WriteEnds \/ PartsSent \/ Finalize \/ CheckSize PROVE call.pc # "release"
  BY <1>1 DEF WriteChunk, WriteEnds, PartsSent, Finalize, CheckSize
<1>2. ASSUME NEW lost \in Losses, SendPart(lost) \/ SendLast(lost) \/ CommitFile(lost) PROVE call.pc # "release"
  <2>1. call.pc = "parts" \/ call.pc = "last"
    BY <1>2, Zenon DEF SendPart, SendLast, CommitFile
  <2>2. QED
    BY <2>1
<1>3. ASSUME NEW lost \in Losses, FetchKey(lost) \/ SendFile(lost) \/ InboxSend(lost) PROVE call.pc # "release"
  <2>1. call.pc = "fetch" \/ call.pc = "sendFile" \/ call.pc = "send"
    BY <1>3, Zenon DEF FetchKey, SendFile, InboxSend
  <2>2. QED
    BY <2>1
<1>4. QED
  BY <1>1, <1>2, <1>3, Zenon DEF Work

LEMMA CommittedRelease ==
  ASSUME Types, CallHasFile, call.pc = "last", call.op = "send"
  PROVE  \/ Committed.pc = "release" /\ call.at = Len(entry[call.e].files)
         \/ Committed.pc = "finalize" /\ Committed.at = call.at + 1
<1>1. call \in CallType
  BY DEF Types
<1> DEFINE go == [call EXCEPT !.length = 0, !.after = "none"]
<1>2. go \in CallType
  BY <1>1 DEF CallType
<1>3. CASE call.at = Len(entry[call.e].files)
  <2>1. Committed = [go EXCEPT !.pc = "release"]
    BY <1>3 DEF Committed
  <2> HIDE DEF go
  <2>2. Committed.pc = "release"
    BY <1>2, <2>1 DEF CallType
  <2>3. QED
    BY <1>3, <2>2
<1>4. CASE call.at # Len(entry[call.e].files)
  <2>1. Committed = [go EXCEPT !.pc = "finalize", !.at = @ + 1, !.f = entry[call.e].files[call.at + 1]]
    BY <1>4 DEF Committed
  <2> HIDE DEF go
  <2>2. Committed.pc = "finalize"
    BY <1>2, <2>1 DEF CallType
  <2>3. QED
    BY <2>2, CommittedFact
<1>5. QED
  BY <1>3, <1>4

(* The call, its file and its entry.                                       *)
LEMMA SendingFacts ==
  ASSUME UploadInv, Work, NEW e \in Entries, Sending(e)
  PROVE  /\ Types /\ CallHasFile /\ call # Idle /\ call.op = "send" /\ call.e = e /\ entry' = entry
         /\ entry[e].files \in Seq(Files) /\ DOMAIN entry[e].files = 1..Len(entry[e].files)
         /\ Len(entry[e].files) \in Nat
         /\ call.at \in DOMAIN entry[e].files /\ call.f = entry[e].files[call.at]
         /\ call.f \in Range(entry[e].files) /\ entry[e].files # <<>>
         /\ Caller = e /\ Concerned = Range(entry[e].files) /\ call.pc \notin {"fetch", "sendFile", "release"}
<1>1. Types /\ CallHasFile /\ call # Idle /\ entry' = entry /\ call.op = "send" /\ call.e = e
  BY WorkFile DEF Sending
<1>2. /\ entry[e].files \in Seq(Files) /\ DOMAIN entry[e].files = 1..Len(entry[e].files)
      /\ Len(entry[e].files) \in Nat
  BY <1>1, ListFact
<1>3. call.at \in DOMAIN entry[e].files /\ call.f = entry[e].files[call.at]
  BY <1>1, <1>2, CallFacts
<1>4. call.f \in Range(entry[e].files) /\ entry[e].files # <<>>
  BY <1>2, <1>3 DEF Range
<1>5. call.pc \notin {"fetch", "sendFile"}
  BY <1>1 DEF CallHasFile, CallShape
<1>6. Caller = e /\ Concerned = Range(entry[e].files)
  BY <1>1 DEF Caller, Concerned
<1>7. call.pc # "release"
  BY <1>1, WorkPlace
<1>8. QED
  BY <1>1, <1>2, <1>3, <1>4, <1>5, <1>6, <1>7

(* It fails only for a loss, or for a file that is misused.                *)
LEMMA SendingEnds ==
  ASSUME UploadInv, KeyInv, WellInv, OpenInv, Work, NEW e \in Entries, Sending(e),
         outcome[e] \notin Refusals, FilesOne(e),
         \A f \in Range(entry[e].files) :
           f \in Files /\ ~Twice(entry, f) /\ f \notin faulty' /\ ~Misused(f)',
         NEW g \in Files, g = call.f, NEW x, Ended(g, x)
  PROVE  outcome'[e] \notin Refusals /\ call.pc = "send" /\ call' = Idle
<1>0. /\ Types /\ CallHasFile /\ call.op = "send" /\ call.e = e
      /\ call.at \in DOMAIN entry[e].files /\ g = entry[e].files[call.at]
      /\ g \in Range(entry[e].files) /\ entry[e].files # <<>>
      /\ Caller = e /\ Concerned = Range(entry[e].files) /\ call.pc \notin {"fetch", "sendFile", "release"}
  BY SendingFacts
<1>1. /\ call' = Idle /\ outcome' = [outcome EXCEPT ![e] = x]
      /\ x \in {"lost", "refused", "size", "smaller", "different", "stored", "InvalidKey"}
  BY <1>0 DEF Ended
<1>2. outcome'[e] = x
  BY <1>0, <1>1 DEF Types
<1>3. x # "lost"
  BY <1>0 DEF Ended
<1>4. x # "different"
  BY <1>0 DEF Ended, UploadInv, SendingInv
<1>5. ASSUME x \in Refusals PROVE FALSE
  <2>1. call.pc \in {"sendFile", "send"} \/ IsCommitted(g)
    BY <1>0, <1>5, RefusedWhen
  <2>2. \A i \in DOMAIN entry[e].files, f \in Files :
          entry[e].files[i] = f => (IsCommitted(f) <=> Passed(i)) /\ Unused(f)
    BY DEF FilesOne, FileOne
  <2>3. CASE call.pc = "send"
    <3>1. \A f \in Range(entry[e].files) : f \in Files /\ ~Twice(entry, f) /\ IsCommitted(f) /\ Unused(f)
      BY <2>2, <2>3 DEF Range, Passed
    <3>2. TakesRequest(file[entry[e].files[1]].request, Len(entry[e].files))
      BY <1>0, <3>1, TogetherTaken
    <3>3. QED
      BY <1>0, <1>5, <2>3, <3>2 DEF Ended
  <2>4. CASE call.pc # "send"
    <3>1. IsCommitted(g)
      BY <1>0, <2>1, <2>4
    <3>2. Passed(call.at)
      BY <1>0, <2>2, <3>1
    <3>3. ~(call.at < call.at)
      BY <1>0 DEF Types, CallType
    <3>4. QED
      BY <1>0, <2>4, <3>2, <3>3 DEF Passed
  <2>5. QED
    BY <2>3, <2>4
<1>6. x \in {"stored", "InvalidKey"}
  BY <1>1, <1>3, <1>4, <1>5 DEF Refusals
<1>7. call.pc = "send"
  BY <1>0, <1>6 DEF Ended
<1>8. QED
  BY <1>1, <1>2, <1>5, <1>7

LEMMA SoundSending ==
  ASSUME UploadInv, KeyInv, WellInv, OpenInv, SoundInv, Work, NEW e \in Entries, Sound(e)', Sending(e)
  PROVE  outcome'[e] \notin Refusals /\ FilesOne(e)'
<1>0. /\ Types /\ CallHasFile /\ call.op = "send" /\ call.e = e /\ entry' = entry /\ call # Idle
      /\ entry[e].files \in Seq(Files) /\ DOMAIN entry[e].files = 1..Len(entry[e].files)
      /\ Len(entry[e].files) \in Nat
      /\ call.at \in DOMAIN entry[e].files /\ call.f = entry[e].files[call.at]
      /\ call.f \in Range(entry[e].files) /\ call.pc \notin {"fetch", "sendFile", "release"}
  BY SendingFacts
<1>a. [Next]_vars /\ ~\E fs \in EntryFiles : PrepareEntry(e, fs)
  BY <1>0, WorkIsNext DEF PrepareEntry
<1>1. Sound(e) /\ \A f \in Range(entry[e].files) :
         /\ f \in Files /\ file[f].request # None /\ Placed(f) /\ ~Twice(entry, f)
         /\ f \notin faulty' /\ ~Misused(f)'
  BY <1>a, SoundStays
<1>2. outcome[e] \notin Refusals /\ FilesOne(e)
  BY <1>1 DEF SoundInv
<1>3. PICK g \in Files : g = call.f
  BY <1>0, <1>1
<1>4. ASSUME NEW i \in DOMAIN entry[e].files, NEW f \in Files, entry[e].files[i] = f
      PROVE  /\ f \in Range(entry[e].files) /\ FileOne(e, i, f)
             /\ IsCommitted(f) <=> Passed(i)
             /\ IsCommitted(f) => IsCommitted(f)'
             /\ IsCommitted(f)' => IsCommitted(f) \/ (f = g /\ call.pc = "last")
             /\ f = g <=> i = call.at
             /\ call' # Idle => Unused(f)'
  <2>1. f \in Range(entry[e].files)
    BY <1>4 DEF Range
  <2>2. FileOne(e, i, f)
    BY <1>2, <1>4 DEF FilesOne
  <2>3. /\ IsCommitted(f) => IsCommitted(f)'
        /\ IsCommitted(f)' => IsCommitted(f) \/ (f = g /\ call.pc = "last")
    BY <1>1, <1>3, <1>a, <2>1, CommitFrame
  <2>4. f = g <=> i = call.at
    <3>1. ASSUME f = g, i # call.at PROVE FALSE
      <4>1. <<e, i>> # <<e, call.at>>
        BY <3>1
      <4>2. Twice(entry, f)
        BY <1>0, <1>3, <1>4, <3>1, <4>1, Zenon DEF Twice
      <4>3. QED
        BY <1>1, <2>1, <4>2
    <3>2. QED
      BY <1>0, <1>3, <1>4, <3>1
  <2>5. ASSUME call' # Idle PROVE Unused(f)'
    <3>1. stored' = stored
      BY <2>5, StoredEnds
    <3>2. Unused(f)
      BY <2>2 DEF FileOne
    <3>3. QED
      BY <1>1, <2>1, <3>1, <3>2 DEF Unused, Placed
  <2>6. QED
    BY <2>1, <2>2, <2>3, <2>4, <2>5 DEF FileOne
<1>5. ASSUME NEW x, Ended(g, x) PROVE outcome'[e] \notin Refusals /\ FilesOne(e)'
  <2>1. outcome'[e] \notin Refusals /\ call.pc = "send" /\ call' = Idle
    BY <1>1, <1>2, <1>3, <1>5, SendingEnds
  <2>2. ~Sending(e)'
    BY <2>1, IdleFacts DEF Sending
  <2>3. entry'[e].state = "gone"
    BY <1>0, <2>1 DEF OpenInv, OpenCall
  <2>4. QED
    BY <2>1, <2>2, <2>3 DEF FilesOne, FileOne
<1>6. CASE Moved(g)
  <2>1. /\ outcome' = outcome /\ call'.op = "send" /\ call'.e = e /\ call'.at = call.at
        /\ call.pc \notin {"release", "send"} /\ call'.pc \notin {"release", "send"}
        /\ call.pc = "last" => (Sent(file[g])'.committed => Sent(file[g]).committed)
    BY <1>0, <1>6, Zenon DEF Moved
  <2>2. call' # Idle /\ Sending(e)'
    BY <2>1, IdleFacts DEF Sending
  <2>3. ASSUME NEW i \in DOMAIN entry[e].files, NEW f \in Files, entry[e].files[i] = f PROVE FileOne(e, i, f)'
    <3>1. Passed(i)' <=> Passed(i)
      BY <2>1 DEF Passed
    <3>2. IsCommitted(f)' => IsCommitted(f)
      <4>1. CASE f = g /\ call.pc = "last"
        <5>1. Sent(file[f])'.committed => Sent(file[f]).committed
          BY <2>1, <4>1
        <5>2. file[f].request # None
          BY <1>1, <1>4, <2>3
        <5>3. QED
          BY <5>1, <5>2 DEF IsCommitted
      <4>2. QED
        BY <1>4, <2>3, <4>1
    <3>3. (IsCommitted(f)' <=> Passed(i)') /\ Unused(f)'
      BY <1>4, <2>2, <2>3, <3>1, <3>2
    <3>4. QED
      BY <2>2, <3>3 DEF FileOne
  <2>4. QED
    BY <1>0, <1>2, <2>1, <2>3 DEF FilesOne
<1>7. CASE CommitOn(g)
  <2>1. call.pc = "last" /\ call' = Committed /\ outcome' = outcome /\ Sent(file[g])'.committed
    BY <1>7 DEF CommitOn
  <2>2. call'.op = "send" /\ call'.e = e
    BY <1>0, <2>1, CommittedFact
  <2>3. call' # Idle /\ Sending(e)'
    BY <2>2, IdleFacts DEF Sending
  <2>4. \/ call'.pc = "release" /\ call.at = Len(entry[e].files)
        \/ call'.pc = "finalize" /\ call'.at = call.at + 1
    BY <1>0, <2>1, CommittedRelease
  <2>5. IsCommitted(g)'
    <3>1. file'[g].request # None
      BY <1>0, <1>1, <1>3 DEF Placed
    <3>2. QED
      BY <2>1, <3>1 DEF IsCommitted
  <2>6. ASSUME NEW i \in DOMAIN entry[e].files, NEW f \in Files, entry[e].files[i] = f PROVE FileOne(e, i, f)'
    <3>1. IsCommitted(f)' <=> i <= call.at
      <4>1. CASE f = g
        BY <1>0, <1>4, <2>5, <2>6, <4>1
      <4>2. CASE f # g
        <5>1. IsCommitted(f)' <=> Passed(i)
          BY <1>4, <2>6, <4>2
        <5>2. i # call.at
          BY <1>4, <2>6, <4>2
        <5>3. Passed(i) <=> i < call.at
          BY <2>1 DEF Passed
        <5>4. QED
          BY <1>0, <5>1, <5>2, <5>3
      <4>3. QED
        BY <4>1, <4>2
    <3>2. Passed(i)' <=> i <= call.at
      BY <1>0, <2>4 DEF Passed
    <3>3. Unused(f)'
      BY <1>4, <2>3, <2>6
    <3>4. QED
      BY <2>3, <3>1, <3>2, <3>3 DEF FileOne
  <2>7. QED
    BY <1>0, <1>2, <2>1, <2>6 DEF FilesOne
<1>8. Out(g)
  BY <1>3, WorkOut
<1>9. QED
  BY <1>0, <1>5, <1>6, <1>7, <1>8 DEF Out

LEMMA SoundNext ==
  ASSUME UploadInv, KeyInv, WellInv, StoredInv, OpenInv, SoundInv, [Next]_vars
  PROVE  SoundInv'
<1> SUFFICES ASSUME NEW e \in Entries, Sound(e)' PROVE outcome'[e] \notin Refusals /\ FilesOne(e)'
  BY DEF SoundInv
<1>1. CASE \E fs \in EntryFiles : PrepareEntry(e, fs)
  BY <1>1, SoundPrepared
<1>2. CASE (Begin \/ ReleaseHandles) /\ ~\E fs \in EntryFiles : PrepareEntry(e, fs)
  BY <1>2, SoundQuiet
<1>3. CASE Work
  BY <1>3, SoundOther, SoundSending
<1>4. CASE RotateKey \/ UNCHANGED vars
  <2>1. UNCHANGED <<file, entry, call, request, stored, outcome, faulty>>
    BY <1>4 DEF RotateKey, losses, vars
  <2>2. Sound(e)
    BY <2>1 DEF Sound, Misused
  <2>3. outcome[e] \notin Refusals /\ FilesOne(e)
    BY <2>2 DEF SoundInv
  <2>4. QED
    BY <2>1, <2>3 DEF FilesOne, FileOne, Sending, Passed, IsCommitted, Unused, Sent
<1>5. QED
  BY <1>1, <1>2, <1>3, <1>4, StepIs DEF Next

LEMMA SoundInit == ASSUME Init PROVE SoundInv
<1>1. \A e \in Entries : entry[e].files = <<>> /\ outcome[e] = "none"
  BY DEF Init
<1>2. QED
  BY <1>1 DEF SoundInv, FilesOne, Refusals

(* closeFile, writeToFile and sendEntry are never refused by the server, nor *)
(* by the checks of the sizes of finalize and of the handles, when no        *)
(* request of the file or of the files of the entry was lost and none of     *)
(* them is misused: for all sizes of files, writes, chunks and parts, and    *)
(* whatever order the calls of the other files and entries come in.          *)
THEOREM AcceptedUnlessLostAlways == Spec => []AcceptedUnlessLost
<1> DEFINE Inv == /\ UploadInv /\ KeyInv /\ WellInv /\ StoredInv /\ WholeInv
                  /\ OpenInv /\ AloneInv /\ RefusedInv /\ SoundInv
<1>1. Init => Inv
  <2> SUFFICES ASSUME Init PROVE Inv
    OBVIOUS
  <2>1. UploadInv /\ KeyInv /\ WellInv /\ StoredInv /\ WholeInv
    BY UploadInit, KeyInit, WellInit, StoredInit
  <2>2. QED
    BY <2>1, OpenInit, AloneInit, RefusedInit, SoundInit
<1>2. Inv /\ [Next]_vars => Inv'
  <2> SUFFICES ASSUME Inv, [Next]_vars PROVE Inv'
    OBVIOUS
  <2>1. UploadInv' /\ KeyInv'
    BY UploadNext, KeyNext DEF UploadInv
  <2>2. WellInv' /\ StoredInv' /\ WholeInv'
    BY WellNext, StoredNext
  <2>3. OpenInv' /\ AloneInv'
    BY OpenNext, AloneNext
  <2>4. RefusedInv' /\ SoundInv'
    BY RefusedNext, SoundNext
  <2>5. QED
    BY <2>1, <2>2, <2>3, <2>4
<1>3. Inv => AcceptedUnlessLost
  <2> SUFFICES ASSUME Inv, NEW x \in Files \cup Entries, outcome[x] \in Refusals
               PROVE  \E f \in (IF x \in Files THEN {x} ELSE Range(entry[x].files)) : f \in faulty \/ Misused(f)
    BY DEF AcceptedUnlessLost, Refusals
  <2>1. CASE x \in Files
    BY <2>1 DEF RefusedInv, RefusedOne
  <2>2. CASE x \notin Files
    BY <2>2 DEF SoundInv, Sound
  <2>3. QED
    BY <2>1, <2>2
<1>4. QED
  BY <1>1, <1>2, <1>3, PTL DEF Spec

=============================================================================
