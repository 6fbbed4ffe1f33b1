------------------------- MODULE AuthPipelineProofs -------------------------
(***************************************************************************)
(* Proofs about AuthPipeline, for any number of events, any size of the    *)
(* records and of the ring, and any number of crashes.                     *)
(***************************************************************************)
EXTENDS AuthPipeline, SequenceTheorems, TLAPS

\* The first n records of a file decode.
Clean(f, n) == \A l \in 1 .. n : Decodes(Record(f, l))

\* The records a reader gets from the file are, in order, those of the written events
\* `w` after the first `b`, and none after the first `e`.
Carries(w, f, b, e) ==
    \A n \in 1 .. CompleteRecords(f) :
        Clean(f, n) => b + n <= e /\ Record(f, n) = Encode(w[b + n])

\* Every event that took effect, save the first `b`, has its receipt.
Receipted(b) == \A i \in b + 1 .. Len(applied) : applied[i] \in receipts

\* The file that the name `processing` still has on disk after its removal.
Unlinked == directory["processing"].removed

\* An event is written once.
WrittenInv ==
    /\ \A i \in 1 .. Len(written) : written[i] \in drawn
    /\ \A i, j \in 1 .. Len(written) : written[i] = written[j] => i = j

\* The bytes of a file are of records that somebody began to write.
BytesFrom(f, ids) == \A j \in 1 .. Len(f.bytes) : f.bytes[j][1] \in ids

\* Nothing in the file is out of step with the record size.
Stamped(f) ==
    /\ Len(f.bytes) = CompleteRecords(f) * RecordSize
    /\ \A j \in 1 .. Len(f.bytes) : f.bytes[j][2] = 1 + ((j - 1) % RecordSize)

\* Two conditions on the file system that the theorems take as hypotheses: an
\* append writes all of a record or nothing, or else no record straddles the
\* reader's buffer; and a crash of the machine undoes at most one change.
NoTears == FragmentLengths \subseteq {0, RecordSize}
InStep == NoTears \/ BufferSize % RecordSize = 0
UndoesOne == Undone \subseteq {{}, {"rename"}, {"remove"}}

Sound(f, ids) == BytesFrom(f, ids) /\ (NoTears => Stamped(f) /\ Verifies(f))

\* A file that is not there is empty, and a name on disk is of a file that is there
\* or was removed.
DirectoryInv ==
    /\ active.exists \/ active = NoFile
    /\ processing.exists \/ processing = NoFile
    /\ \A name \in {"active", "processing"} :
          directory[name].removed.exists \/ directory[name].removed = NoFile
    /\ \A name \in {"active", "processing"} :
          directory[name].removed.exists => directory[name].now = "none"
    /\ directory["active"].now = "active" => active.exists
    /\ directory["active"].now = "processing" =>
          processing.exists /\ directory["processing"].now = "none"
    /\ directory["processing"].now # "active"
    /\ directory["processing"].now = "processing" => processing.exists

BytesInv == Sound(active, drawn) /\ Sound(processing, drawn) /\ Sound(Unlinked, drawn)

\* The worker has a batch and an event of it where its loop needs them.
ControlInv ==
    /\ pc \in {"open", "remove"} => processing.exists
    /\ pc = "cleanup" => ~processing.exists /\ ~Unlinked.exists
    /\ pc \in {"hydrate", "rotate", "open", "remove", "cleanup", "suspended", "stopped"} => ~batch.open
    /\ pc \in {"read", "claim", "txn", "ack"} => batch.open
    /\ pc \in {"claim", "txn"} => pending # NoEvent
    /\ pc \in {"read", "ack"} => pending = NoEvent
    /\ ~batch.open => pending = NoEvent

\* After a read error inside a record the reader stays where its buffer ended.
Lost(offset) == offset % RecordSize # 0 /\ Buffered(offset) = 0

\* The reader has read the first records of the batch, and is at the next one or
\* at no record at all.
BatchInv ==
    batch.open =>
        /\ processing.exists
        /\ batch.complete = CompleteRecords(processing)
        /\ Len(processing.bytes) = batch.complete * RecordSize
        /\ batch.read <= batch.complete
        /\ Clean(processing, batch.read)
        /\ \/ batch.offset = batch.read * RecordSize
           \/ NoTears /\ (Lost(batch.offset) \/ ~HasBlock(processing, batch.offset))

\* What took effect is the beginning of what was written, and what has a receipt
\* took effect.
AppliedInv ==
    /\ Len(applied) <= Len(written) /\ \A i \in 1 .. Len(applied) : applied[i] = written[i]
    /\ \A id \in receipts : \E i \in 1 .. Len(applied) : applied[i] = id

\* The batch has the written events p + 1 .. a, of which p + 1 .. Len(applied) took
\* effect and have receipts; the active file has the rest.  A batch that a crash
\* brought back may be an older one, of events that all took effect.
PlacesInv(p, a) ==
    /\ p <= a /\ p <= Len(applied) /\ a <= Len(written)
    /\ ~processing.exists => p = a
    /\ processing.exists \/ Unlinked.exists => Len(applied) <= a
    /\ Receipted(p)
ContentsInv(p, a) ==
    /\ Carries(written, processing, p, a)
    /\ Carries(written, active, a, Len(written))
    /\ Verifies(active) => a + CompleteRecords(active) = Len(written)
    /\ Verifies(processing) =>
          \/ p + CompleteRecords(processing) = a
          \/ a <= Len(applied) /\ directory["active"].now # "processing"
UnlinkedInv(a) ==
    Unlinked.exists => \E q \in 0 .. a : Carries(written, Unlinked, q, a) /\ Receipted(q)
FilesInv(p, a) == PlacesInv(p, a) /\ ContentsInv(p, a) /\ UnlinkedInv(a)

\* How far the reader and the transactions are in the batch.
ReaderInv(p, a) ==
    /\ pc = "remove" => Verifies(processing) /\ Len(applied) = a
    /\ pc = "cleanup" => Len(applied) = a
    /\ batch.open /\ pending = NoEvent => p + batch.read <= Len(applied)
    /\ pending # NoEvent =>
          /\ batch.read > 0 /\ p + batch.read <= Len(applied) + 1 /\ p + batch.read <= a
          /\ pending = written[p + batch.read]

PlaceInv == \E p, a \in 0 .. Len(written) : FilesInv(p, a) /\ ReaderInv(p, a)

JournalInv ==
    /\ WrittenInv /\ AppliedInv /\ DirectoryInv /\ BytesInv
    /\ ControlInv /\ BatchInv /\ PlaceInv

----------------------------------------------------------------------------
(* Arithmetic of records. *)

LEMMA Quotient ==
    ASSUME NEW L \in Nat
    PROVE  /\ L \div RecordSize \in Nat
           /\ (L \div RecordSize) * RecordSize <= L
           /\ L < (L \div RecordSize) * RecordSize + RecordSize
BY RecordAssumption

LEMMA QuotientIs ==
    ASSUME NEW L \in Nat, NEW q \in Nat, q * RecordSize <= L, L < q * RecordSize + RecordSize
    PROVE  L \div RecordSize = q
BY RecordAssumption

LEMMA Multiples ==
    ASSUME NEW m \in Int, NEW n \in Int, m <= n
    PROVE  /\ m * RecordSize \in Int /\ n * RecordSize \in Int
           /\ m * RecordSize <= n * RecordSize
           /\ (n - 1) * RecordSize = n * RecordSize - RecordSize
           /\ m >= 0 => m * RecordSize >= 0
           /\ m < n => m * RecordSize + RecordSize <= n * RecordSize
<1> m * RecordSize \in Int /\ n * RecordSize \in Int
  BY RecordAssumption
<1>1. m * RecordSize <= n * RecordSize /\ (m >= 0 => m * RecordSize >= 0)
  BY RecordAssumption
<1>2. (n - 1) * RecordSize = n * RecordSize - RecordSize
  BY RecordAssumption
<1>3. ASSUME m < n PROVE m * RecordSize + RecordSize <= n * RecordSize
  <2>1. m <= n - 1 /\ n - 1 \in Int
    BY <1>3
  <2>2. m * RecordSize <= (n - 1) * RecordSize
    BY <2>1, RecordAssumption
  <2> QED
    BY <2>2, <1>2, RecordAssumption
<1> QED
  BY <1>1, <1>2, <1>3

----------------------------------------------------------------------------
(* Files. *)

LEMMA EncodeType ==
    ASSUME NEW id \in EventId
    PROVE  /\ Encode(id) \in Seq(Byte) /\ Len(Encode(id)) = RecordSize
           /\ \A k \in 1 .. RecordSize : Encode(id)[k] = <<id, k>>
BY RecordAssumption DEF Encode, Byte

LEMMA CompleteRecordsIs ==
    ASSUME NEW f \in File
    PROVE  /\ f.bytes \in Seq(Byte) /\ Len(f.bytes) \in Nat /\ f.exists \in BOOLEAN
           /\ CompleteRecords(f) \in Nat
           /\ CompleteRecords(f) * RecordSize \in Nat
           /\ CompleteRecords(f) * RecordSize <= Len(f.bytes)
           /\ Len(f.bytes) < CompleteRecords(f) * RecordSize + RecordSize
<1>1. f.bytes \in Seq(Byte) /\ f.exists \in BOOLEAN
  BY DEF File
<1>2. Len(f.bytes) \in Nat
  BY <1>1
<1>3. CompleteRecords(f) \in Nat
  BY <1>2, Quotient DEF CompleteRecords
<1>4. CompleteRecords(f) * RecordSize \in Nat
  BY <1>3, RecordAssumption
<1>5. /\ CompleteRecords(f) * RecordSize <= Len(f.bytes)
      /\ Len(f.bytes) < CompleteRecords(f) * RecordSize + RecordSize
  BY <1>2, Quotient DEF CompleteRecords
<1> QED
  BY <1>1, <1>2, <1>3, <1>4, <1>5

LEMMA Slice ==
    ASSUME NEW s \in Seq(Byte), NEW m \in Nat, NEW n \in Nat, m + n <= Len(s)
    PROVE  /\ SubSeq(s, m + 1, m + n) \in Seq(Byte) /\ Len(SubSeq(s, m + 1, m + n)) = n
           /\ \A k \in 1 .. n : SubSeq(s, m + 1, m + n)[k] = s[m + k]
<1>1. \A i \in m + 1 .. m + n : s[i] \in Byte
  OBVIOUS
<1> QED
  BY <1>1, SubSeqProperties

LEMMA RecordIs ==
    ASSUME NEW f \in File, NEW n \in 1 .. CompleteRecords(f)
    PROVE  /\ (n - 1) * RecordSize \in Nat
           /\ (n - 1) * RecordSize + RecordSize <= Len(f.bytes)
           /\ (n - 1) * RecordSize + RecordSize <= CompleteRecords(f) * RecordSize
           /\ Record(f, n) \in Seq(Byte) /\ Len(Record(f, n)) = RecordSize
           /\ \A k \in 1 .. RecordSize : Record(f, n)[k] = f.bytes[(n - 1) * RecordSize + k]
<1> DEFINE o == (n - 1) * RecordSize
<1>1. /\ CompleteRecords(f) \in Nat /\ f.bytes \in Seq(Byte) /\ Len(f.bytes) \in Nat
      /\ CompleteRecords(f) * RecordSize <= Len(f.bytes)
  BY CompleteRecordsIs
<1>2. o \in Nat /\ o + RecordSize <= CompleteRecords(f) * RecordSize
  BY <1>1, Multiples, RecordAssumption
<1>3. o + RecordSize <= Len(f.bytes)
  BY <1>1, <1>2, Multiples, RecordAssumption
<1>4. Record(f, n) = SubSeq(f.bytes, o + 1, o + RecordSize)
  BY DEF Record, Block
<1> HIDE DEF o
<1>5. /\ Record(f, n) \in Seq(Byte) /\ Len(Record(f, n)) = RecordSize
      /\ \A k \in 1 .. RecordSize : Record(f, n)[k] = f.bytes[o + k]
  <2>1. RecordSize \in Nat
    BY RecordAssumption
  <2>2. /\ SubSeq(f.bytes, o + 1, o + RecordSize) \in Seq(Byte)
        /\ Len(SubSeq(f.bytes, o + 1, o + RecordSize)) = RecordSize
        /\ \A k \in 1 .. RecordSize : SubSeq(f.bytes, o + 1, o + RecordSize)[k] = f.bytes[o + k]
    <3>1. f.bytes \in Seq(Byte) /\ o \in Nat
      BY <1>1, <1>2
    <3> QED
      BY <3>1, <2>1, <1>3, Slice
  <2> QED
    BY ONLY <2>2, <1>4
<1> QED
  BY <1>2, <1>3, <1>5 DEF o

\* A file that begins with the complete records of another has the same records.
LEMMA SamePrefix ==
    ASSUME NEW f \in File, NEW g \in File, CompleteRecords(f) <= CompleteRecords(g),
           \A j \in 1 .. CompleteRecords(f) * RecordSize : g.bytes[j] = f.bytes[j],
           NEW n \in 1 .. CompleteRecords(f)
    PROVE  Record(g, n) = Record(f, n)
<1>1. CompleteRecords(f) \in Nat /\ CompleteRecords(g) \in Nat /\ n \in 1 .. CompleteRecords(g)
  BY CompleteRecordsIs
<1> DEFINE o == (n - 1) * RecordSize
           L == CompleteRecords(f) * RecordSize
<1>2. o \in Nat /\ o + RecordSize <= L
  BY RecordIs
<1>3. /\ Record(f, n) \in Seq(Byte) /\ Len(Record(f, n)) = RecordSize
      /\ \A k \in 1 .. RecordSize : Record(f, n)[k] = f.bytes[o + k]
  BY RecordIs
<1>4. /\ Record(g, n) \in Seq(Byte) /\ Len(Record(g, n)) = RecordSize
      /\ \A k \in 1 .. RecordSize : Record(g, n)[k] = g.bytes[o + k]
  BY <1>1, RecordIs
<1>5. L \in Nat /\ \A j \in 1 .. L : g.bytes[j] = f.bytes[j]
  BY CompleteRecordsIs
<1> HIDE DEF o, L
<1>6. \A k \in 1 .. RecordSize : Record(g, n)[k] = Record(f, n)[k]
  <2>1. ASSUME NEW k \in 1 .. RecordSize
        PROVE  o + k \in 1 .. L
    BY <1>2, <1>5, RecordAssumption
  <2> QED
    BY <2>1, <1>3, <1>4, <1>5
<1> QED
  BY <1>3, <1>4, <1>6, RecordAssumption

\* open and verify_pending cut off what is not a complete record, no more.
LEMMA TruncatedIs ==
    ASSUME NEW f \in File
    PROVE  /\ Truncated(f) \in File /\ Truncated(f).exists = f.exists
           /\ CompleteRecords(Truncated(f)) = CompleteRecords(f)
           /\ Len(Truncated(f).bytes) = CompleteRecords(f) * RecordSize
           /\ \A j \in 1 .. Len(Truncated(f).bytes) : Truncated(f).bytes[j] = f.bytes[j]
           /\ \A n \in 1 .. CompleteRecords(f) : Record(Truncated(f), n) = Record(f, n)
<1> DEFINE c == CompleteRecords(f)
           L == c * RecordSize
           g == Truncated(f)
<1>1. f.bytes \in Seq(Byte) /\ c \in Nat /\ L \in Nat /\ L <= Len(f.bytes) /\ f.exists \in BOOLEAN
  BY CompleteRecordsIs
<1>2. g = [f EXCEPT !.bytes = SubSeq(f.bytes, 1, L)]
  BY DEF Truncated
<1> HIDE DEF L, g
<1>a. g.bytes = SubSeq(f.bytes, 1, L) /\ g.exists = f.exists
  BY <1>2 DEF File
<1>3. g.bytes \in Seq(Byte) /\ Len(g.bytes) = L /\ \A j \in 1 .. L : g.bytes[j] = f.bytes[j]
  BY <1>1, <1>a, Slice
<1>4. g \in File
  BY <1>1, <1>2, <1>3 DEF File
<1>5. CompleteRecords(g) = c
  <2>1. L \div RecordSize = c
    BY <1>1, QuotientIs, RecordAssumption DEF L
  <2> QED
    BY <2>1, <1>3 DEF CompleteRecords
<1>6. \A n \in 1 .. c : Record(g, n) = Record(f, n)
  BY <1>1, <1>3, <1>4, <1>5, SamePrefix DEF L
<1> QED
  BY <1>a, <1>3, <1>4, <1>5, <1>6 DEF L, g

LEMMA AppendedIs ==
    ASSUME NEW f \in File, NEW id \in EventId, NEW n \in 0 .. RecordSize
    PROVE  /\ Appended(f, id, n) \in File /\ Appended(f, id, n).exists
           /\ Len(Appended(f, id, n).bytes) = Len(f.bytes) + n
           /\ \A j \in 1 .. Len(f.bytes) : Appended(f, id, n).bytes[j] = f.bytes[j]
           /\ \A k \in 1 .. n : Appended(f, id, n).bytes[Len(f.bytes) + k] = <<id, k>>
<1> DEFINE s == SubSeq(Encode(id), 1, n)
           g == Appended(f, id, n)
<1>1. s \in Seq(Byte) /\ Len(s) = n /\ \A k \in 1 .. n : s[k] = <<id, k>>
  BY EncodeType, Slice, RecordAssumption
<1>2. f.bytes \in Seq(Byte) /\ Len(f.bytes) \in Nat
  BY CompleteRecordsIs
<1>3. g = [exists |-> TRUE, bytes |-> f.bytes \o s]
  BY DEF Appended
<1> HIDE DEF s
<1>4. /\ f.bytes \o s \in Seq(Byte) /\ Len(f.bytes \o s) = Len(f.bytes) + n
      /\ \A j \in 1 .. Len(f.bytes) : (f.bytes \o s)[j] = f.bytes[j]
      /\ \A k \in 1 .. n : (f.bytes \o s)[Len(f.bytes) + k] = <<id, k>>
  <2>1. /\ f.bytes \o s \in Seq(Byte) /\ Len(f.bytes \o s) = Len(f.bytes) + n
        /\ \A i \in 1 .. Len(f.bytes) + n : (f.bytes \o s)[i] =
              IF i <= Len(f.bytes) THEN f.bytes[i] ELSE s[i - Len(f.bytes)]
    BY <1>1, <1>2, ConcatProperties
  <2>2. \A k \in 1 .. n : (f.bytes \o s)[Len(f.bytes) + k] = s[k]
    BY <2>1, <1>2, RecordAssumption
  <2>3. \A j \in 1 .. Len(f.bytes) : (f.bytes \o s)[j] = f.bytes[j]
    BY ONLY <2>1, <1>2, RecordAssumption, n \in 0 .. RecordSize
  <2>4. \A k \in 1 .. n : (f.bytes \o s)[Len(f.bytes) + k] = <<id, k>>
    BY ONLY <2>2, <1>1
  <2> QED
    BY ONLY <2>1, <2>3, <2>4
<1>5. g \in File /\ g.exists /\ g.bytes = f.bytes \o s
  BY <1>3, <1>4 DEF File
<1> QED
  BY <1>4, <1>5

\* An append keeps the complete records and completes at most one more.
LEMMA AppendedRecords ==
    ASSUME NEW f \in File, NEW id \in EventId, NEW n \in 0 .. RecordSize
    PROVE  /\ CompleteRecords(f) <= CompleteRecords(Appended(f, id, n))
           /\ CompleteRecords(Appended(f, id, n)) <= CompleteRecords(f) + 1
           /\ \A m \in 1 .. CompleteRecords(f) : Record(Appended(f, id, n), m) = Record(f, m)
<1> DEFINE g == Appended(f, id, n)
           c == CompleteRecords(f)
           d == CompleteRecords(g)
           K == c * RecordSize
           M == d * RecordSize
<1>1. /\ g \in File /\ Len(g.bytes) = Len(f.bytes) + n
      /\ \A j \in 1 .. Len(f.bytes) : g.bytes[j] = f.bytes[j]
  BY AppendedIs
<1>2. /\ c \in Nat /\ K \in Nat /\ K <= Len(f.bytes)
      /\ Len(f.bytes) < K + RecordSize /\ Len(f.bytes) \in Nat
  BY CompleteRecordsIs
<1>3. /\ d \in Nat /\ M \in Nat /\ M <= Len(g.bytes)
      /\ Len(g.bytes) < M + RecordSize
  BY <1>1, CompleteRecordsIs
<1> HIDE DEF c, d, g, K, M
<1>4. c <= d
  <2> SUFFICES ASSUME d < c PROVE FALSE
    BY <1>2, <1>3
  <2>1. M + RecordSize <= K
    BY <1>2, <1>3, Multiples DEF K, M
  <2> QED
    BY <2>1, <1>1, <1>2, <1>3, RecordAssumption
<1>5. d <= c + 1
  <2> SUFFICES ASSUME c + 1 < d PROVE FALSE
    BY <1>2, <1>3
  <2> DEFINE N == (c + 1) * RecordSize
  <2>1. K + RecordSize <= N
    BY <1>2, Multiples DEF K
  <2>2. N + RecordSize <= M
    BY <1>2, <1>3, Multiples DEF M
  <2>3. N \in Int
    BY <1>2, Multiples
  <2> HIDE DEF N
  <2> QED
    BY <2>1, <2>2, <2>3, <1>1, <1>2, <1>3, RecordAssumption
<1>6. \A j \in 1 .. K : g.bytes[j] = f.bytes[j]
  BY <1>1, <1>2
<1>7. \A m \in 1 .. c : Record(g, m) = Record(f, m)
  BY <1>1, <1>4, <1>6, SamePrefix DEF c, d, K
<1> QED
  BY <1>4, <1>5, <1>7 DEF c, d, g

\* The record that an append completes decodes only when the append wrote the
\* whole of it: a fragment before it belongs to another event.
LEMMA AppendedDecodes ==
    ASSUME NEW f \in File, NEW ids, BytesFrom(f, ids), NEW id \in EventId \ ids,
           NEW n \in 0 .. RecordSize,
           CompleteRecords(Appended(f, id, n)) = CompleteRecords(f) + 1,
           Decodes(Record(Appended(f, id, n), CompleteRecords(f) + 1))
    PROVE  /\ n = RecordSize /\ Len(f.bytes) = CompleteRecords(f) * RecordSize
           /\ Record(Appended(f, id, n), CompleteRecords(f) + 1) = Encode(id)
<1> DEFINE g == Appended(f, id, n)
           c == CompleteRecords(f)
           L == c * RecordSize
           r == Record(g, c + 1)
<1>0. id \in EventId
  OBVIOUS
<1>1. /\ g \in File /\ Len(g.bytes) = Len(f.bytes) + n
      /\ \A j \in 1 .. Len(f.bytes) : g.bytes[j] = f.bytes[j]
      /\ \A k \in 1 .. n : g.bytes[Len(f.bytes) + k] = <<id, k>>
  <2>1. /\ g \in File /\ Len(g.bytes) = Len(f.bytes) + n
        /\ \A j \in 1 .. Len(f.bytes) : g.bytes[j] = f.bytes[j]
    BY <1>0, AppendedIs
  <2>2. \A k \in 1 .. n : g.bytes[Len(f.bytes) + k] = <<id, k>>
    BY <1>0, AppendedIs
  <2> QED
    BY <2>1, <2>2
<1>2. /\ c \in Nat /\ L \in Nat /\ L <= Len(f.bytes)
      /\ Len(f.bytes) < L + RecordSize /\ Len(f.bytes) \in Nat
  BY CompleteRecordsIs
<1>3. c + 1 \in 1 .. CompleteRecords(g) /\ ((c + 1) - 1) * RecordSize = L
  BY <1>2
<1>4. /\ L + RecordSize <= Len(g.bytes)
      /\ r \in Seq(Byte) /\ Len(r) = RecordSize
      /\ \A k \in 1 .. RecordSize : r[k] = g.bytes[L + k]
  <2>1. g \in File
    BY <1>1
  <2> HIDE DEF g, L, c
  <2> QED
    BY <2>1, <1>3, RecordIs
<1>5. PICK x \in EventId : r = Encode(x)
  BY DEF Decodes
<1>6. \A k \in 1 .. RecordSize : r[k] = <<x, k>>
  BY <1>5, EncodeType
<1> HIDE DEF g, L, r, c
<1>7. ASSUME L < Len(f.bytes)
      PROVE  FALSE
  <2>1. r[1] = f.bytes[L + 1]
    <3>1. r[1] = g.bytes[L + 1]
      BY <1>4, RecordAssumption
    <3>2. L + 1 \in 1 .. Len(f.bytes)
      BY <1>2, <1>7
    <3> QED
      BY <3>1, <3>2, <1>1
  <2>2. x \in ids
    BY <2>1, <1>6, <1>7, <1>2, RecordAssumption DEF BytesFrom
  <2>3. r[RecordSize] = <<id, L + RecordSize - Len(f.bytes)>>
    <3> DEFINE k == L + RecordSize - Len(f.bytes)
    <3>1. k \in 1 .. n /\ Len(f.bytes) + k = L + RecordSize
      BY <1>1, <1>2, <1>4, RecordAssumption
    <3>2. r[RecordSize] = g.bytes[L + RecordSize]
      BY <1>4, RecordAssumption
    <3> QED
      BY <3>1, <3>2, <1>1
  <2>4. x = id
    BY <2>3, <1>6, RecordAssumption
  <2> QED
    BY <2>2, <2>4
<1>8. Len(f.bytes) = L /\ n = RecordSize
  BY <1>7, <1>1, <1>2, <1>4, RecordAssumption
<1>9. \A k \in 1 .. RecordSize : r[k] = <<id, k>>
  BY <1>8, <1>1, <1>4
<1>10. r = Encode(id)
  <2>1. \A k \in 1 .. RecordSize : r[k] = Encode(id)[k]
    BY <1>9, <1>0, EncodeType
  <2> QED
    BY <2>1, <1>0, <1>4, EncodeType, SeqEqual
<1> QED
  BY <1>8, <1>10 DEF L, r, g, c

----------------------------------------------------------------------------
(* What a file carries. *)

\* Two files with the same complete records are the same to a reader.
LEMMA SameRecords ==
    ASSUME NEW f \in File, NEW g \in File, CompleteRecords(g) = CompleteRecords(f),
           \A n \in 1 .. CompleteRecords(f) : Record(g, n) = Record(f, n)
    PROVE  /\ \A n \in 0 .. CompleteRecords(f) : Clean(g, n) <=> Clean(f, n)
           /\ Verifies(g) <=> Verifies(f)
           /\ \A w, b, e : Carries(w, g, b, e) <=> Carries(w, f, b, e)
           /\ ReadableEvents(g) = ReadableEvents(f)
<1>1. CompleteRecords(f) \in Nat
  BY CompleteRecordsIs
<1>2. \A n \in 0 .. CompleteRecords(f) : Clean(g, n) <=> Clean(f, n)
  BY <1>1 DEF Clean
<1>3. Verifies(g) <=> Verifies(f)
  BY DEF Verifies
<1>4. \A w, b, e : Carries(w, g, b, e) <=> Carries(w, f, b, e)
  <2> TAKE w, b, e
  <2>1. \A n \in 1 .. CompleteRecords(f) : Clean(g, n) <=> Clean(f, n)
    BY <1>1, <1>2
  <2> QED
    BY <2>1 DEF Carries
<1>5. ReadableEvents(g) = ReadableEvents(f)
  <2>1. \A m \in 1 .. CompleteRecords(f) :
           (\A l \in 1 .. m : Decodes(Record(g, l))) <=> (\A l \in 1 .. m : Decodes(Record(f, l)))
    BY <1>1
  <2> QED
    BY <2>1 DEF ReadableEvents
<1> QED
  BY <1>2, <1>3, <1>4, <1>5

LEMMA VerifiesIsClean ==
    ASSUME NEW f \in File, Verifies(f), NEW n \in 0 .. CompleteRecords(f)
    PROVE  Clean(f, n)
BY CompleteRecordsIs DEF Verifies, Clean

\* The active file carries the end of what is written, and goes on to do so when
\* an append succeeds, fails or is torn.
LEMMA CarriesAppended ==
    ASSUME NEW f \in File, NEW ids, BytesFrom(f, ids), NEW id \in EventId \ ids,
           NEW n \in 0 .. RecordSize, NEW w \in Seq(EventId), NEW b \in Nat,
           Carries(w, f, b, Len(w)), Verifies(f) => b + CompleteRecords(f) = Len(w),
           NEW v, v = IF n = RecordSize THEN w \o <<id>> ELSE w
    PROVE  /\ Carries(v, Appended(f, id, n), b, Len(v))
           /\ Verifies(Appended(f, id, n)) => b + CompleteRecords(Appended(f, id, n)) = Len(v)
<1> DEFINE g == Appended(f, id, n)
           c == CompleteRecords(f)
           d == CompleteRecords(g)
<1>1. /\ v \in Seq(EventId) /\ Len(w) \in Nat /\ Len(w) <= Len(v)
      /\ \A i \in 1 .. Len(w) : v[i] = w[i]
      /\ n = RecordSize => Len(v) = Len(w) + 1 /\ v[Len(w) + 1] = id
      /\ n # RecordSize => v = w
  OBVIOUS
<1>2. /\ c \in Nat /\ d \in Nat /\ c <= d /\ d <= c + 1 /\ g \in File
      /\ \A m \in 1 .. c : Record(g, m) = Record(f, m)
  BY AppendedIs, AppendedRecords, CompleteRecordsIs
<1>3. ASSUME d = c + 1, Clean(g, d)
      PROVE  n = RecordSize /\ Record(g, d) = Encode(id) /\ b + d = Len(w) + 1
  <2>1. Decodes(Record(g, c + 1))
    BY <1>2, <1>3 DEF Clean
  <2>2. n = RecordSize /\ Record(g, c + 1) = Encode(id)
    BY <2>1, <1>3, AppendedDecodes
  <2>3. Verifies(f)
    BY <1>2, <1>3 DEF Clean, Verifies
  <2> QED
    <3>1. b + c = Len(w)
      BY <2>3
    <3> QED
      BY <2>2, <3>1, <1>1, <1>2, <1>3
<1> HIDE DEF g, c, d
<1>4. ASSUME NEW m \in 1 .. d, Clean(g, m)
      PROVE  b + m <= Len(v) /\ Record(g, m) = Encode(v[b + m])
  <2>1. CASE m <= c
    <3>1. m \in 1 .. c /\ Clean(f, m)
      BY <2>1, <1>2, <1>4 DEF Clean
    <3>2. b + m <= Len(w) /\ Record(f, m) = Encode(w[b + m])
      BY <3>1 DEF Carries, c
    <3>3. b + m \in 1 .. Len(w)
      BY <3>1, <3>2, <1>1
    <3> QED
      BY <3>1, <3>2, <3>3, <1>1, <1>2
  <2>2. CASE ~(m <= c)
    <3>1. m = d /\ d = c + 1
      BY <2>2, <1>2
    <3> QED
      BY <3>1, <1>1, <1>3, <1>4
  <2> QED
    BY <2>1, <2>2
<1>5. Carries(v, g, b, Len(v))
  BY <1>4 DEF Carries, d
<1>6. ASSUME Verifies(g)
      PROVE  b + d = Len(v)
  <2>0. Clean(g, d)
    BY <1>2, <1>6, VerifiesIsClean DEF d
  <2>1. CASE d = c
    <3>1. Verifies(f)
      BY <2>0, <2>1, <1>2 DEF Clean, Verifies, c
    <3>2. b + c = Len(w)
      BY <3>1 DEF c
    <3>3. n # RecordSize
      <4>1. Len(g.bytes) = Len(f.bytes) + n
        BY AppendedIs DEF g
      <4>2. /\ c * RecordSize \in Nat /\ c * RecordSize <= Len(f.bytes)
            /\ Len(f.bytes) \in Nat
        BY CompleteRecordsIs DEF c
      <4>3. Len(g.bytes) < c * RecordSize + RecordSize
        BY <1>2, <2>1, CompleteRecordsIs DEF d
      <4> QED
        BY <4>1, <4>2, <4>3, RecordAssumption
    <3> QED
      BY <3>2, <3>3, <2>1, <1>1
  <2>2. CASE d = c + 1
    BY <2>0, <2>2, <1>1, <1>3
  <2> QED
    BY <2>1, <2>2, <1>2
<1> QED
  BY <1>5, <1>6 DEF g, d

----------------------------------------------------------------------------
(* Types, without the ring: nothing below depends on its contents. *)

Reader == [open : BOOLEAN, offset : Nat, read : Nat, complete : Nat]

JournalType ==
    /\ active \in File /\ processing \in File
    /\ directory \in [{"active", "processing"} -> DirectoryLink]
DataType ==
    /\ receipts \subseteq EventId /\ applied \in Seq(EventId) /\ written \in Seq(EventId)
    /\ drawn \subseteq EventId
WorkerType ==
    /\ pc \in PC /\ batch \in Reader /\ pending \in EventId \cup {NoEvent}
    /\ pc \in {"claim", "txn"} => pending # NoEvent
TypeInv == JournalType /\ DataType /\ WorkerType

LEMMA NoFileType == NoFile \in File /\ NoFile.bytes = <<>> /\ ~NoFile.exists
<1>1. <<>> \in Seq(Byte)
  OBVIOUS
<1> QED
  BY <1>1 DEF NoFile, File

LEMMA LinkType ==
    ASSUME NEW name \in {"active", "processing", "none"}
    PROVE  /\ Link(name) \in DirectoryLink
           /\ Link(name).now = name /\ Link(name).removed = NoFile
BY NoFileType DEF Link, DirectoryLink

LEMMA FullLinkType ==
    ASSUME NEW f \in File
    PROVE  /\ [now |-> "none", removed |-> f] \in DirectoryLink
           /\ [now |-> "none", removed |-> f].now = "none"
           /\ [now |-> "none", removed |-> f].removed = f
BY DEF DirectoryLink

LEMMA SyncIs ==
    ASSUME SyncDirectory
    PROVE  /\ directory' \in [{"active", "processing"} -> DirectoryLink]
           /\ directory'["active"].removed = NoFile /\ directory'["processing"].removed = NoFile
           /\ directory'["active"].now = IF active'.exists THEN "active" ELSE "none"
           /\ directory'["processing"].now = IF processing'.exists THEN "processing" ELSE "none"
<1> DEFINE x == Link(IF active'.exists THEN "active" ELSE "none")
           y == Link(IF processing'.exists THEN "processing" ELSE "none")
<1>1. /\ x \in DirectoryLink /\ x.removed = NoFile
      /\ x.now = IF active'.exists THEN "active" ELSE "none"
  BY LinkType
<1>2. /\ y \in DirectoryLink /\ y.removed = NoFile
      /\ y.now = IF processing'.exists THEN "processing" ELSE "none"
  BY LinkType
<1>3. directory' = [active |-> x, processing |-> y]
  BY DEF SyncDirectory
<1> HIDE DEF x, y
<1>4. /\ directory' \in [{"active", "processing"} -> DirectoryLink]
      /\ directory'["active"] = x /\ directory'["processing"] = y
  BY <1>1, <1>2, <1>3
<1> QED
  BY <1>1, <1>2, <1>4

LEMMA BecomesIs ==
    ASSUME JournalType, NEW old \in {"active", "processing"}, NEW link \in DirectoryLink
    PROVE  /\ Becomes(old, link) \in [{"active", "processing"} -> DirectoryLink]
           /\ \A name \in {"active", "processing"} :
                 /\ directory[name].now = old => Becomes(old, link)[name] = link
                 /\ directory[name].now # old => Becomes(old, link)[name] = directory[name]
BY DEF JournalType, Becomes

LEMMA OnDiskIs ==
    ASSUME JournalType, NEW name \in {"active", "processing"}
    PROVE  /\ OnDisk(name) \in File
           /\ directory[name].now = "active" => OnDisk(name) = active
           /\ directory[name].now = "processing" => OnDisk(name) = processing
           /\ directory[name].now = "none" => OnDisk(name) = directory[name].removed
<1>1. directory[name] \in DirectoryLink
  BY DEF JournalType
<1>2. directory[name].removed \in File /\ directory[name].now \in {"active", "processing", "none"}
  BY <1>1 DEF DirectoryLink
<1> QED
  BY <1>2 DEF OnDisk, JournalType

LEMMA AppendBytesType ==
    ASSUME TypeInv, NEW id \in EventId, NEW n \in 0 .. RecordSize, AppendBytes(id, n)
    PROVE  active' \in File /\ written' \in Seq(EventId) /\ drawn' \subseteq EventId
<1>1. written \o <<id>> \in Seq(EventId)
  BY DEF TypeInv, DataType
<1> QED
  BY <1>1, AppendedIs DEF TypeInv, JournalType, DataType, AppendBytes

LEMMA JournalTypeStep ==
    ASSUME TypeInv, [Next]_vars
    PROVE  JournalType' /\ written' \in Seq(EventId) /\ drawn' \subseteq EventId
<1> USE DEF TypeInv, JournalType, DataType
<1>1. CASE Enqueue
  <2>1. PICK id \in EventId \ drawn : AppendBytes(id, RecordSize)
    BY <1>1 DEF Enqueue
  <2>2. active' \in File /\ written' \in Seq(EventId) /\ drawn' \subseteq EventId
    BY <2>1, AppendBytesType, RecordAssumption
  <2>3. processing' = processing /\ (directory' = directory \/ SyncDirectory)
    BY <1>1 DEF Enqueue
  <2> QED
    BY <2>2, <2>3, SyncIs
<1>2. CASE EnqueueFails
  <2>1. PICK id \in EventId \ drawn :
           \/ \E n \in FragmentLengths : AppendBytes(id, n)
           \/ drawn' = drawn \cup {id} /\ UNCHANGED <<active, written>>
    BY <1>2 DEF EnqueueFails
  <2>2. active' \in File /\ written' \in Seq(EventId) /\ drawn' \subseteq EventId
    BY <2>1, AppendBytesType, FaultAssumption
  <2> QED
    BY <1>2, <2>2 DEF EnqueueFails
<1>3. CASE RotateJournal \/ RotateFails
  <2>1. UNCHANGED <<written, drawn>>
    BY <1>3 DEF RotateJournal, RotateFails, history
  <2>2. active' \in File /\ processing' \in File
    BY <1>3, NoFileType DEF RotateJournal, RotateFails, Rename, journal
  <2>3. \/ directory' = directory \/ SyncDirectory
        \/ directory' = Becomes("active", Link("processing"))
    BY <1>3 DEF RotateJournal, RotateFails, journal
  <2> QED
    BY <2>1, <2>2, <2>3, SyncIs, BecomesIs, LinkType
<1>4. CASE OpenBatch \/ OpenFails \/ RecoverQueue \/ RecoverFails
  BY <1>4, TruncatedIs DEF OpenBatch, OpenFails, RecoverQueue, RecoverFails, history
<1>5. CASE RemoveProcessing \/ RemoveFails
  <2>1. UNCHANGED <<written, drawn>>
    BY <1>5 DEF RemoveProcessing, RemoveFails, history
  <2>2. active' \in File /\ processing' \in File
    BY <1>5, NoFileType DEF RemoveProcessing, RemoveFails, journal
  <2>3. \/ directory' = directory \/ SyncDirectory
        \/ directory' = Becomes("processing", [now |-> "none", removed |-> processing])
    BY <1>5 DEF RemoveProcessing, RemoveFails, journal
  <2> QED
    BY <2>1, <2>2, <2>3, SyncIs, BecomesIs, FullLinkType
<1>6. CASE Crash
  <2>1. CASE UNCHANGED <<journal, written, drawn>>
    BY <2>1 DEF journal
  <2>2. CASE /\ \E id \in EventId \ drawn, n \in FragmentLengths : AppendBytes(id, n)
             /\ UNCHANGED <<processing, directory>>
    BY <2>2, AppendBytesType, FaultAssumption
  <2>3. CASE /\ active' = OnDisk("active") /\ processing' = OnDisk("processing")
             /\ SyncDirectory /\ UNCHANGED <<written, drawn>>
    BY <2>3, OnDiskIs, SyncIs
  <2> QED
    BY <1>6, <2>1, <2>2, <2>3 DEF Crash
<1>7. CASE UNCHANGED <<journal, written, drawn>>
  BY <1>7 DEF journal
<1> QED
  BY <1>1, <1>2, <1>3, <1>4, <1>5, <1>6, <1>7
     DEF Next, Producer, WorkerStep, vars, journal, history, HydrateCaches, CheckHealth, Resume,
         NextEvent, ReadFails, EndOfBatch, CleanReceipts, MatchingClaim, CommitEvent,
         AbortEvent, AckCallback, Rehydrate, Shutdown, CleanupRaises

LEMMA NoBatchType == NoBatch \in Reader /\ ~NoBatch.open
BY DEF NoBatch, Reader

LEMMA EventOfEncode ==
    ASSUME NEW id \in EventId
    PROVE  EventOf(Encode(id)) = id
BY EncodeType, RecordAssumption DEF EventOf

LEMMA EventOfType ==
    ASSUME NEW block, Decodes(block)
    PROVE  EventOf(block) \in EventId
BY EventOfEncode DEF Decodes

LEMMA BatchTypeStep ==
    ASSUME TypeInv, [Next]_vars
    PROVE  batch' \in Reader
<1> USE DEF TypeInv, WorkerType
<1>1. CASE NextEvent
  <2>1. \/ batch' = NoBatch
        \/ batch' = [batch EXCEPT !.offset = batch.offset + RecordSize, !.read = batch.read + 1]
    BY <1>1 DEF NextEvent, LeaveLoop
  <2>2. batch.offset + RecordSize \in Nat /\ batch.read + 1 \in Nat
    BY RecordAssumption DEF Reader
  <2> QED
    BY <2>1, <2>2, NoBatchType DEF Reader
<1>2. CASE ReadFails
  <2>1. \E o \in Nat : batch' = [batch EXCEPT !.offset = o]
    <3>1. batch.offset + Buffered(batch.offset) \in Nat
      BY FaultAssumption, RecordAssumption DEF Buffered, Reader
    <3>2. Len(processing.bytes) \in Nat
      BY CompleteRecordsIs DEF JournalType
    <3> QED
      BY <1>2, <3>1, <3>2 DEF ReadFails
  <2> QED
    BY <2>1 DEF Reader
<1>3. CASE OpenBatch
  <2>1. CompleteRecords(processing) \in Nat
    BY CompleteRecordsIs DEF JournalType
  <2> QED
    BY <1>3, <2>1 DEF OpenBatch, Reader
<1>4. CASE batch' \in {batch, NoBatch}
  BY <1>4, NoBatchType
<1> QED
  BY <1>1, <1>2, <1>3, <1>4
     DEF Next, Producer, WorkerStep, vars, worker, LeaveLoop, Enqueue, EnqueueFails,
         HydrateCaches, CheckHealth, Resume, RotateJournal, RotateFails, OpenFails, EndOfBatch,
         RemoveProcessing, RemoveFails, CleanReceipts, MatchingClaim, CommitEvent, AbortEvent,
         AckCallback, Rehydrate, Shutdown, CleanupRaises, RecoverQueue, RecoverFails, Crash

LEMMA PendingTypeStep ==
    ASSUME TypeInv, [Next]_vars
    PROVE  /\ pc' \in PC /\ pending' \in EventId \cup {NoEvent}
           /\ pc' \in {"claim", "txn"} => pending' # NoEvent
<1> USE DEF TypeInv, WorkerType
<1>1. CASE NextEvent
  <2>1. CASE Decodes(Block(processing, batch.offset))
    BY <1>1, <2>1, EventOfType, RingAssumption DEF NextEvent, PC
  <2>2. CASE ~Decodes(Block(processing, batch.offset))
    BY <1>1, <2>2 DEF NextEvent, PC, LeaveLoop
  <2> QED
    BY <2>1, <2>2
<1>2. CASE CheckHealth
  <2>1. \/ pc' = "suspended" /\ pending' = NoEvent
        \/ pc' \in {"rotate", "read"} /\ pending' = pending
        \/ pc' = "claim" /\ pending' = pending /\ pending # NoEvent
    BY <1>2 DEF CheckHealth, LeaveLoop
  <2> QED
    BY <2>1 DEF PC
<1>3. CASE MatchingClaim
  BY <1>3 DEF MatchingClaim, PC
<1>4. CASE Rehydrate \/ Shutdown \/ CleanupRaises \/ Crash
  BY <1>4 DEF Rehydrate, Shutdown, CleanupRaises, Crash, LeaveLoop, PC
<1>5. CASE CommitEvent
  BY <1>5 DEF CommitEvent, PC
<1>6. CASE UNCHANGED worker
  BY <1>6 DEF worker
<1>7. CASE RotateJournal \/ RotateFails \/ OpenBatch \/ OpenFails
  BY <1>7 DEF RotateJournal, RotateFails, OpenBatch, OpenFails, PC
<1>8. CASE \/ HydrateCaches \/ Resume \/ ReadFails \/ EndOfBatch
           \/ RemoveProcessing \/ RemoveFails \/ CleanReceipts \/ AbortEvent \/ AckCallback
  BY <1>8 DEF HydrateCaches, Resume, ReadFails, EndOfBatch, RemoveProcessing, RemoveFails,
              CleanReceipts, AbortEvent, AckCallback, PC
<1> QED
  BY <1>1, <1>2, <1>3, <1>4, <1>5, <1>6, <1>7, <1>8
     DEF Next, Producer, WorkerStep, vars, Enqueue, EnqueueFails, RecoverQueue, RecoverFails,
         worker

LEMMA DatabaseTypeStep ==
    ASSUME TypeInv, [Next]_vars
    PROVE  receipts' \subseteq EventId /\ applied' \in Seq(EventId)
<1> USE DEF TypeInv, DataType
<1>1. CASE CommitEvent
  <2>1. pending \in EventId
    BY <1>1 DEF CommitEvent, WorkerType
  <2>2. applied \o <<pending>> \in Seq(EventId)
    BY <2>1
  <2> QED
    BY <1>1, <2>1, <2>2 DEF CommitEvent
<1>2. CASE CleanReceipts
  BY <1>2 DEF CleanReceipts
<1>3. CASE UNCHANGED database
  BY <1>3 DEF database
<1> QED
  BY <1>1, <1>2, <1>3
     DEF Next, Producer, WorkerStep, vars, Enqueue, EnqueueFails, HydrateCaches, CheckHealth,
         Resume, RotateJournal, RotateFails, OpenBatch, OpenFails, NextEvent, ReadFails,
         EndOfBatch, RemoveProcessing, RemoveFails, MatchingClaim, AbortEvent, AckCallback,
         Rehydrate, Shutdown, CleanupRaises, RecoverQueue, RecoverFails, Crash

LEMMA TypeInvStep ==
    ASSUME TypeInv, [Next]_vars
    PROVE  TypeInv'
BY JournalTypeStep, BatchTypeStep, PendingTypeStep, DatabaseTypeStep
   DEF TypeInv, JournalType, DataType, WorkerType

----------------------------------------------------------------------------
(* What a step does to the journal. *)

\* A producer's append, whole or torn, that a crash may have interrupted.
AppendStep(id, n) ==
    /\ AppendBytes(id, n) /\ (NoTears => n \in {0, RecordSize})
    /\ UNCHANGED <<processing, receipts, applied>>
    /\ \/ UNCHANGED directory
       \/ ~active.exists /\ SyncDirectory
    /\ UNCHANGED worker \/ LeaveLoop("hydrate")

DrawStep == UNCHANGED <<journal, database, worker, written>> /\ drawn \subseteq drawn'

RenameStep ==
    /\ pc = "rotate" /\ CanRename /\ Rename
    /\ SyncDirectory \/ directory' = Becomes("active", Link("processing"))
    /\ pc' \in {"open", "check"}
    /\ UNCHANGED <<database, batch, pending, written, drawn>>

TruncateStep ==
    /\ processing' \in {processing, Truncated(processing)} /\ active' \in {active, Truncated(active)}
    /\ UNCHANGED <<directory, database, written, drawn>>

RemoveStep ==
    /\ pc = "remove" /\ processing' = NoFile /\ active' = active
    /\ \/ SyncDirectory /\ pc' = "cleanup"
       \/ /\ directory' = Becomes("processing", [now |-> "none", removed |-> processing])
          /\ pc' = "check"
    /\ UNCHANGED <<database, batch, pending, written, drawn>>

UndoStep ==
    /\ UnsyncedChanges \in Undone
    /\ active' = OnDisk("active") /\ processing' = OnDisk("processing") /\ SyncDirectory
    /\ LeaveLoop("hydrate")
    /\ UNCHANGED <<database, written, drawn>>

LEMMA ProducerCases ==
    ASSUME Producer
    PROVE  \/ \E id \in EventId \ drawn, n \in 0 .. RecordSize : AppendStep(id, n)
           \/ DrawStep
<1>1. CASE Enqueue
  <2>1. PICK id \in EventId \ drawn :
           /\ AppendBytes(id, RecordSize) /\ UNCHANGED processing
           /\ IF active.exists THEN UNCHANGED directory ELSE SyncDirectory
           /\ UNCHANGED <<database, worker>>
    BY <1>1 DEF Enqueue
  <2>2. AppendStep(id, RecordSize)
    BY <2>1 DEF AppendStep, database
  <2> QED
    BY <2>2, RecordAssumption
<1>2. CASE EnqueueFails
  <2>1. PICK id \in EventId \ drawn :
           /\ \/ \E n \in FragmentLengths : AppendBytes(id, n)
              \/ drawn' = drawn \cup {id} /\ UNCHANGED <<active, written>>
           /\ UNCHANGED <<processing, directory, database, worker>>
    BY <1>2 DEF EnqueueFails
  <2>2. CASE drawn' = drawn \cup {id} /\ UNCHANGED <<active, written>>
    BY <2>1, <2>2 DEF DrawStep, journal
  <2>3. ASSUME NEW n \in FragmentLengths, AppendBytes(id, n)
        PROVE  n \in 0 .. RecordSize /\ AppendStep(id, n)
    BY <2>1, <2>3, FaultAssumption DEF AppendStep, NoTears, database
  <2> QED
    BY <2>1, <2>2, <2>3
<1> QED
  BY <1>1, <1>2 DEF Producer

LEMMA JournalCases ==
    ASSUME [Next]_vars
    PROVE  \/ UNCHANGED <<journal, written, drawn>>
           \/ \E id \in EventId \ drawn, n \in 0 .. RecordSize : AppendStep(id, n)
           \/ DrawStep \/ RenameStep \/ TruncateStep \/ RemoveStep \/ UndoStep
<1>1. CASE Producer
  BY <1>1, ProducerCases
<1>3. CASE RotateJournal \/ RotateFails
  BY <1>3 DEF RotateJournal, RotateFails, RenameStep, journal, history
<1>4. CASE OpenBatch \/ OpenFails \/ RecoverQueue \/ RecoverFails
  BY <1>4 DEF OpenBatch, OpenFails, RecoverQueue, RecoverFails, TruncateStep, history
<1>5. CASE RemoveProcessing \/ RemoveFails
  BY <1>5 DEF RemoveProcessing, RemoveFails, RemoveStep, journal, history
<1>6. CASE Crash
  <2>1. CASE UNCHANGED <<journal, written, drawn>>
    BY <2>1
  <2>2. CASE /\ \E id \in EventId \ drawn, n \in FragmentLengths : AppendBytes(id, n)
             /\ UNCHANGED <<processing, directory>>
    <3>1. PICK id \in EventId \ drawn, n \in FragmentLengths : AppendBytes(id, n)
      BY <2>2
    <3>2. LeaveLoop("hydrate") /\ UNCHANGED database
      BY <1>6 DEF Crash
    <3>3. n \in 0 .. RecordSize /\ AppendStep(id, n)
      BY <2>2, <3>1, <3>2, FaultAssumption DEF AppendStep, NoTears, database
    <3> QED
      BY <3>3
  <2>3. CASE /\ UnsyncedChanges \in Undone
             /\ active' = OnDisk("active") /\ processing' = OnDisk("processing")
             /\ SyncDirectory /\ UNCHANGED <<written, drawn>>
    <3>1. LeaveLoop("hydrate") /\ UNCHANGED database
      BY <1>6 DEF Crash
    <3> QED
      BY <2>3, <3>1 DEF UndoStep
  <2> QED
    BY <1>6, <2>1, <2>2, <2>3 DEF Crash
<1>7. CASE UNCHANGED <<journal, written, drawn>>
  BY <1>7
<1> QED
  BY <1>1, <1>3, <1>4, <1>5, <1>6, <1>7
     DEF Next, WorkerStep, vars, journal, history, HydrateCaches, CheckHealth, Resume,
         NextEvent, ReadFails, EndOfBatch, CleanReceipts, MatchingClaim, CommitEvent,
         AbortEvent, AckCallback, Rehydrate, Shutdown, CleanupRaises

\* A crash that undoes at most one change restores what was there before it.
LEMMA UndoCases ==
    ASSUME UndoesOne, TypeInv, DirectoryInv, UndoStep
    PROVE  \/ active' = active /\ processing' = processing
           \/ /\ ~active.exists /\ processing.exists /\ directory["active"].now = "processing"
              /\ active' = processing /\ processing' = NoFile
           \/ /\ ~processing.exists /\ Unlinked.exists
              /\ active' = active /\ processing' = Unlinked
<1> DEFINE da == directory["active"]
           dp == directory["processing"]
<1>1. /\ da \in DirectoryLink /\ dp \in DirectoryLink
  BY DEF TypeInv, JournalType
<1>2. /\ da.now \in {"active", "processing", "none"} /\ dp.now \in {"processing", "none"}
  BY <1>1 DEF DirectoryLink, DirectoryInv
<1>3. /\ active' = OnDisk("active") /\ processing' = OnDisk("processing")
      /\ da.now = "active" => OnDisk("active") = active
      /\ da.now = "processing" => OnDisk("active") = processing
      /\ da.now = "none" => OnDisk("active") = da.removed
      /\ dp.now = "processing" => OnDisk("processing") = processing
      /\ dp.now = "none" => OnDisk("processing") = dp.removed
  BY OnDiskIs DEF UndoStep, TypeInv
<1>4. UnsyncedChanges = {} \/ UnsyncedChanges = {"rename"} \/ UnsyncedChanges = {"remove"}
  BY DEF UndoStep, UndoesOne
<1>5. /\ active.exists => "create" \in UnsyncedChanges \/ da.now = "active"
      /\ processing.exists =>
            "create" \in UnsyncedChanges \/ da.now = "processing" \/ dp.now = "processing"
      /\ "rename" \in UnsyncedChanges <=> da.now = "processing" \/ da.removed.exists
      /\ "remove" \in UnsyncedChanges <=> da.removed.exists \/ dp.removed.exists
  <2>1. DOMAIN directory = {"active", "processing"}
    BY DEF TypeInv, JournalType
  <2> QED
    BY <2>1, <1>2 DEF UnsyncedChanges
<1>6. "create" \notin UnsyncedChanges
  BY <1>4
<1>7. /\ da.now = "active" => active.exists
      /\ da.now = "processing" => processing.exists /\ dp.now = "none"
      /\ dp.now = "processing" => processing.exists
      /\ da.removed.exists \/ da.removed = NoFile
      /\ dp.removed.exists \/ dp.removed = NoFile
      /\ da.removed.exists => da.now = "none"
      /\ dp.removed.exists => dp.now = "none"
      /\ active.exists \/ active = NoFile
      /\ processing.exists \/ processing = NoFile
  BY DEF DirectoryInv
<1> HIDE DEF da, dp
<1>8. CASE UnsyncedChanges = {}
  <2>1. /\ da.now # "processing" /\ ~da.removed.exists /\ ~dp.removed.exists
    BY <1>5, <1>8
  <2>2. active' = active
    BY <2>1, <1>2, <1>3, <1>5, <1>6, <1>7
  <2>3. processing' = processing
    BY <2>1, <1>2, <1>3, <1>5, <1>6, <1>7
  <2> QED
    BY <2>2, <2>3
<1>9. CASE UnsyncedChanges = {"rename"}
  <2>1. da.now = "processing" /\ ~da.removed.exists /\ ~dp.removed.exists
    BY <1>5, <1>9
  <2> QED
    BY <2>1, <1>3, <1>5, <1>6, <1>7 DEF da
<1>10. CASE UnsyncedChanges = {"remove"}
  <2>1. da.now # "processing" /\ ~da.removed.exists /\ dp.removed.exists
    BY <1>5, <1>10
  <2>2. active' = active
    BY <2>1, <1>2, <1>3, <1>5, <1>6, <1>7
  <2>3. dp.now = "none" /\ ~processing.exists /\ processing' = dp.removed
    BY <2>1, <1>3, <1>5, <1>6, <1>7
  <2> QED
    BY <2>1, <2>2, <2>3 DEF dp, Unlinked
<1> QED
  BY <1>4, <1>8, <1>9, <1>10

----------------------------------------------------------------------------
(* The invariants of the written events, the bytes and the directory. *)

\* What was written stays written.
LEMMA WrittenGrows ==
    ASSUME TypeInv, [Next]_vars
    PROVE  /\ Len(written) <= Len(written')
           /\ \A i \in 1 .. Len(written) : written'[i] = written[i]
<1>1. written \in Seq(EventId)
  BY DEF TypeInv, DataType
<1>2. \/ written' = written
      \/ \E id \in EventId : written' = written \o <<id>>
  BY JournalCases
     DEF AppendStep, AppendBytes, DrawStep, RenameStep, TruncateStep, RemoveStep, UndoStep
<1>3. ASSUME NEW id \in EventId, written' = written \o <<id>>
      PROVE  /\ Len(written) <= Len(written')
             /\ \A i \in 1 .. Len(written) : written'[i] = written[i]
  BY <1>1, <1>3
<1>4. CASE written' = written
  BY <1>1, <1>4
<1> QED
  BY <1>2, <1>3, <1>4

LEMMA WrittenInvStep ==
    ASSUME TypeInv, WrittenInv, [Next]_vars
    PROVE  WrittenInv'
<1>1. written \in Seq(EventId)
  BY DEF TypeInv, DataType
<1>2. CASE written' = written /\ drawn \subseteq drawn'
  BY <1>2 DEF WrittenInv
<1>3. ASSUME NEW id \in EventId \ drawn, NEW n \in 0 .. RecordSize, AppendStep(id, n)
      PROVE  WrittenInv'
  <2>1. drawn' = drawn \cup {id} /\ (written' = written \/ written' = written \o <<id>>)
    BY <1>3 DEF AppendStep, AppendBytes
  <2>2. CASE written' = written \o <<id>>
    <3>1. /\ Len(written') = Len(written) + 1 /\ written'[Len(written) + 1] = id
          /\ \A i \in 1 .. Len(written) : written'[i] = written[i]
      BY <1>1, <2>2
    <3>2. ASSUME NEW i \in 1 .. Len(written'), NEW j \in 1 .. Len(written'),
                 written'[i] = written'[j]
          PROVE  i = j
      <4>1. i \in 1 .. Len(written) \/ i = Len(written) + 1
        BY <3>1, <1>1
      <4>2. j \in 1 .. Len(written) \/ j = Len(written) + 1
        BY <3>1, <1>1
      <4> QED
        BY <3>1, <3>2, <4>1, <4>2 DEF WrittenInv
    <3>3. \A i \in 1 .. Len(written') : written'[i] \in drawn'
      BY <3>1, <2>1, <1>1 DEF WrittenInv
    <3> QED
      BY <3>2, <3>3 DEF WrittenInv
  <2> QED
    BY <2>1, <2>2, <1>2
<1> QED
  BY <1>2, <1>3, JournalCases DEF DrawStep, RenameStep, TruncateStep, RemoveStep, UndoStep

LEMMA NoFileRecords == CompleteRecords(NoFile) = 0
BY NoFileType, QuotientIs, RecordAssumption DEF CompleteRecords

LEMMA SoundNoFile ==
    ASSUME NEW ids
    PROVE  Sound(NoFile, ids)
BY NoFileType, NoFileRecords, RecordAssumption DEF Sound, BytesFrom, Stamped, Verifies

LEMMA SoundGrows ==
    ASSUME NEW f, NEW ids, NEW more, ids \subseteq more, Sound(f, ids)
    PROVE  Sound(f, more)
BY DEF Sound, BytesFrom

LEMMA SoundTruncated ==
    ASSUME NEW f \in File, NEW ids, Sound(f, ids)
    PROVE  Sound(Truncated(f), ids)
<1>1. /\ Len(Truncated(f).bytes) = CompleteRecords(f) * RecordSize
      /\ CompleteRecords(Truncated(f)) = CompleteRecords(f)
      /\ \A j \in 1 .. Len(Truncated(f).bytes) : Truncated(f).bytes[j] = f.bytes[j]
  BY TruncatedIs
<1>2. \A j \in 1 .. Len(Truncated(f).bytes) : j \in 1 .. Len(f.bytes)
  BY <1>1, CompleteRecordsIs
<1>3. Verifies(f) => Verifies(Truncated(f))
  BY TruncatedIs, SameRecords
<1> QED
  BY <1>1, <1>2, <1>3 DEF Sound, BytesFrom, Stamped

LEMMA ModSum ==
    ASSUME NEW c \in Nat, NEW k \in 1 .. RecordSize
    PROVE  (c * RecordSize + k - 1) % RecordSize = k - 1
<1> DEFINE K == c * RecordSize
<1>1. K \in Nat
  BY RecordAssumption
<1>2. (K + k - 1) \div RecordSize = c
  <2>1. K + k - 1 \in Nat /\ K <= K + k - 1 /\ K + k - 1 < K + RecordSize
    BY <1>1, RecordAssumption
  <2> QED
    BY <2>1, QuotientIs
<1>3. (K + k - 1) = ((K + k - 1) \div RecordSize) * RecordSize + ((K + k - 1) % RecordSize)
  BY <1>1, RecordAssumption
<1>4. (K + k - 1) % RecordSize \in Int
  BY <1>1, RecordAssumption
<1> QED
  BY <1>1, <1>2, <1>3, <1>4, RecordAssumption

LEMMA StampedAppended ==
    ASSUME NEW f \in File, NEW id \in EventId, NEW n \in {0, RecordSize}, Stamped(f)
    PROVE  Stamped(Appended(f, id, n))
<1> DEFINE g == Appended(f, id, n)
           c == CompleteRecords(f)
           K == c * RecordSize
<1>0. n \in 0 .. RecordSize
  BY RecordAssumption
<1>1. /\ g \in File /\ Len(g.bytes) = Len(f.bytes) + n
      /\ \A j \in 1 .. Len(f.bytes) : g.bytes[j] = f.bytes[j]
  BY <1>0, AppendedIs
<1>2. \A k \in 1 .. n : g.bytes[Len(f.bytes) + k] = <<id, k>>
  BY <1>0, AppendedIs
<1>3. c \in Nat /\ K \in Nat /\ Len(f.bytes) = K
  BY CompleteRecordsIs DEF Stamped
<1>4. \A k \in 1 .. RecordSize : (K + k - 1) % RecordSize = k - 1
  BY <1>3, ModSum
<1>5. Len(g.bytes) = CompleteRecords(g) * RecordSize
  <2>1. CASE n = 0
    <3>1. (K + 0) \div RecordSize = c
      BY <1>3, QuotientIs, RecordAssumption
    <3> QED
      BY <2>1, <3>1, <1>1, <1>3 DEF CompleteRecords
  <2>2. CASE n = RecordSize
    <3>1. (c + 1) * RecordSize = K + RecordSize
      BY <1>3, RecordAssumption
    <3>2. (K + RecordSize) \div RecordSize = c + 1
      <4>1. c + 1 \in Nat /\ K + RecordSize \in Nat /\ K + RecordSize < K + RecordSize + RecordSize
        BY <1>3, RecordAssumption
      <4> HIDE DEF K, c
      <4> QED
        BY <3>1, <4>1, QuotientIs
    <3> QED
      BY <2>2, <3>1, <3>2, <1>1, <1>3 DEF CompleteRecords
  <2> QED
    BY <2>1, <2>2
<1>6. ASSUME NEW j \in 1 .. Len(g.bytes)
      PROVE  g.bytes[j][2] = 1 + ((j - 1) % RecordSize)
  <2> HIDE DEF g, K, c
  <2>1. CASE j <= K
    <3>1. j \in 1 .. Len(f.bytes)
      BY <2>1, <1>3
    <3> QED
      BY <3>1, <1>1 DEF Stamped
  <2>2. CASE ~(j <= K)
    <3>1. PICK k \in 1 .. RecordSize : k <= n /\ j = K + k
      <4>1. j - K \in 1 .. RecordSize /\ j - K <= n /\ j = K + (j - K)
        BY <2>2, <1>1, <1>3, RecordAssumption
      <4> QED
        BY <4>1
    <3>2. g.bytes[j] = <<id, k>>
      BY <3>1, <1>2, <1>3
    <3>3. (j - 1) % RecordSize = k - 1
      BY <3>1, <1>3, <1>4
    <3> QED
      BY <3>1, <3>2, <3>3
  <2> QED
    BY <2>1, <2>2, <1>3
<1> HIDE DEF g
<1> QED
  BY <1>5, <1>6 DEF Stamped, g

LEMMA VerifiesAppended ==
    ASSUME NEW f \in File, NEW id \in EventId, NEW n \in {0, RecordSize}, Stamped(f), Verifies(f)
    PROVE  Verifies(Appended(f, id, n))
<1> DEFINE g == Appended(f, id, n)
           c == CompleteRecords(f)
           K == c * RecordSize
<1>0. n \in 0 .. RecordSize
  BY RecordAssumption
<1>1. /\ c \in Nat /\ g \in File /\ CompleteRecords(g) \in Nat /\ CompleteRecords(g) <= c + 1
      /\ \A m \in 1 .. c : Record(g, m) = Record(f, m)
  BY <1>0, AppendedIs, AppendedRecords, CompleteRecordsIs
<1>2. ASSUME CompleteRecords(g) = c + 1
      PROVE  Record(g, c + 1) = Encode(id)
  <2>1. /\ c + 1 \in 1 .. CompleteRecords(g) /\ ((c + 1) - 1) * RecordSize = K
        /\ K \in Nat /\ Len(f.bytes) = K
    <3>1. K \in Nat /\ Len(f.bytes) = K
      BY CompleteRecordsIs DEF Stamped
    <3>2. (c + 1) - 1 = c /\ c + 1 \in 1 .. CompleteRecords(g)
      BY <1>1, <1>2
    <3> QED
      BY <3>1, <3>2
  <2>2. \A k \in 1 .. n : g.bytes[K + k] = <<id, k>>
    <3>1. \A k \in 1 .. n : g.bytes[Len(f.bytes) + k] = <<id, k>>
      BY <1>0, AppendedIs
    <3> QED
      BY <3>1, <2>1
  <2>3. Len(g.bytes) = K + n
    BY <2>1, <1>0, AppendedIs
  <2> HIDE DEF g, c, K
  <2>4. /\ K + RecordSize <= Len(g.bytes)
        /\ Record(g, c + 1) \in Seq(Byte) /\ Len(Record(g, c + 1)) = RecordSize
        /\ \A k \in 1 .. RecordSize : Record(g, c + 1)[k] = g.bytes[K + k]
    BY <1>1, <2>1, RecordIs
  <2>5. n = RecordSize
    BY <2>1, <2>3, <2>4, RecordAssumption
  <2>6. \A k \in 1 .. RecordSize : Record(g, c + 1)[k] = Encode(id)[k]
    BY <2>2, <2>4, <2>5, EncodeType
  <2> QED
    BY <2>4, <2>6, EncodeType, SeqEqual
<1> HIDE DEF g, c
<1>3. ASSUME NEW m \in 1 .. CompleteRecords(g)
      PROVE  Decodes(Record(g, m))
  <2>1. CASE m \in 1 .. c
    BY <2>1, <1>1 DEF Verifies, c
  <2>2. CASE m \notin 1 .. c
    <3>1. m = c + 1 /\ CompleteRecords(g) = c + 1
      BY <2>2, <1>1
    <3> QED
      BY <3>1, <1>2 DEF Decodes
  <2> QED
    BY <2>1, <2>2
<1> QED
  BY <1>3 DEF Verifies, g

LEMMA SoundAppended ==
    ASSUME NEW f \in File, NEW ids, Sound(f, ids), NEW id \in EventId, NEW n \in 0 .. RecordSize,
           NoTears => n \in {0, RecordSize}
    PROVE  Sound(Appended(f, id, n), ids \cup {id})
<1> DEFINE g == Appended(f, id, n)
<1>1. /\ g \in File /\ Len(g.bytes) = Len(f.bytes) + n /\ Len(f.bytes) \in Nat
      /\ \A j \in 1 .. Len(f.bytes) : g.bytes[j] = f.bytes[j]
  BY AppendedIs, CompleteRecordsIs
<1>2. \A k \in 1 .. n : g.bytes[Len(f.bytes) + k] = <<id, k>>
  BY AppendedIs
<1>3. ASSUME NEW j \in 1 .. Len(g.bytes)
      PROVE  g.bytes[j][1] \in ids \cup {id}
  <2> HIDE DEF g
  <2>1. CASE j <= Len(f.bytes)
    BY <2>1, <1>1 DEF Sound, BytesFrom
  <2>2. CASE ~(j <= Len(f.bytes))
    <3>1. j - Len(f.bytes) \in 1 .. n /\ j = Len(f.bytes) + (j - Len(f.bytes))
      BY <2>2, <1>1, RecordAssumption
    <3>2. g.bytes[j] = <<id, j - Len(f.bytes)>>
      BY <3>1, <1>2
    <3> QED
      BY <3>2
  <2> QED
    BY <2>1, <2>2, <1>1
<1>4. NoTears => Stamped(g) /\ Verifies(g)
  BY StampedAppended, VerifiesAppended DEF Sound
<1> QED
  BY <1>3, <1>4 DEF Sound, BytesFrom

LEMMA BytesInvStep ==
    ASSUME UndoesOne, TypeInv, DirectoryInv, BytesInv, [Next]_vars
    PROVE  BytesInv'
<1> USE DEF TypeInv, JournalType
<1>0. Unlinked \in File /\ directory["processing"] \in DirectoryLink
  BY DEF Unlinked, DirectoryLink
<1>1. CASE UNCHANGED <<journal, written, drawn>>
  BY <1>1 DEF BytesInv, journal, Unlinked
<1>2. ASSUME NEW id \in EventId \ drawn, NEW n \in 0 .. RecordSize, AppendStep(id, n)
      PROVE  BytesInv'
  <2>1. drawn' = drawn \cup {id} /\ active' = Appended(active, id, n) /\ processing' = processing
    BY <1>2 DEF AppendStep, AppendBytes
  <2>2. Sound(active', drawn')
    BY <2>1, <1>2, SoundAppended DEF BytesInv, AppendStep
  <2>3. Unlinked' = Unlinked \/ Unlinked' = NoFile
    BY <1>2, SyncIs DEF AppendStep, Unlinked
  <2> QED
    BY <2>1, <2>2, <2>3, SoundNoFile, SoundGrows DEF BytesInv
<1>3. CASE DrawStep
  BY <1>3, SoundGrows DEF DrawStep, BytesInv, journal, Unlinked
<1>4. CASE RenameStep
  <2>1. drawn' = drawn /\ active' = NoFile /\ processing' = active
    BY <1>4 DEF RenameStep, Rename
  <2>2. Unlinked' = Unlinked \/ Unlinked' = NoFile
    BY <1>4, SyncIs, BecomesIs, LinkType DEF RenameStep, Unlinked
  <2> QED
    BY <2>1, <2>2, SoundNoFile DEF BytesInv
<1>5. CASE TruncateStep
  BY <1>5, SoundTruncated DEF TruncateStep, BytesInv, Unlinked
<1>6. CASE RemoveStep
  <2>1. drawn' = drawn /\ active' = active /\ processing' = NoFile
    BY <1>6 DEF RemoveStep
  <2>2. Unlinked' = Unlinked \/ Unlinked' = NoFile \/ Unlinked' = processing
    BY <1>6, SyncIs, BecomesIs, FullLinkType DEF RemoveStep, Unlinked
  <2> QED
    BY <2>1, <2>2, SoundNoFile DEF BytesInv
<1>7. CASE UndoStep
  <2>1. Unlinked' = NoFile /\ drawn' = drawn
    BY <1>7, SyncIs DEF UndoStep, Unlinked
  <2> QED
    BY <2>1, <1>7, UndoCases, SoundNoFile DEF BytesInv
<1> QED
  BY <1>1, <1>2, <1>3, <1>4, <1>5, <1>6, <1>7, JournalCases

LEMMA DirectoryInvStep ==
    ASSUME UndoesOne, TypeInv, DirectoryInv, ControlInv, [Next]_vars
    PROVE  DirectoryInv'
<1> USE DEF TypeInv, JournalType
<1>0. /\ active.exists \/ active = NoFile
      /\ processing.exists \/ processing = NoFile
      /\ active \in File /\ processing \in File /\ ~NoFile.exists
  BY NoFileType DEF DirectoryInv
<1>1. CASE UNCHANGED <<journal, written, drawn>>
  BY <1>1 DEF DirectoryInv, journal
<1>2. ASSUME SyncDirectory, active'.exists \/ active' = NoFile,
             processing'.exists \/ processing' = NoFile
      PROVE  DirectoryInv'
  BY <1>2, SyncIs, NoFileType DEF DirectoryInv
<1>3. ASSUME NEW id \in EventId \ drawn, NEW n \in 0 .. RecordSize, AppendStep(id, n)
      PROVE  DirectoryInv'
  <2>1. active'.exists /\ processing' = processing
    BY <1>3, AppendedIs DEF AppendStep, AppendBytes
  <2>2. CASE SyncDirectory
    BY <1>0, <1>2, <2>1, <2>2
  <2>3. CASE directory' = directory
    BY <2>1, <2>3 DEF DirectoryInv
  <2> QED
    BY <1>3, <2>2, <2>3 DEF AppendStep
<1>4. CASE DrawStep
  BY <1>4 DEF DrawStep, DirectoryInv, journal
<1>5. CASE RenameStep
  <2>1. active' = NoFile /\ processing' = active /\ active.bytes # <<>> /\ ~processing.exists
    BY <1>5 DEF RenameStep, Rename, CanRename
  <2>2. active.exists
    BY <2>1, <1>0, NoFileType
  <2>3. CASE SyncDirectory
    BY <1>0, <1>2, <2>1, <2>2, <2>3
  <2>4. CASE directory' = Becomes("active", Link("processing"))
    <3>1. /\ directory["active"].now # "processing" /\ directory["processing"].now # "processing"
          /\ directory["processing"].now # "active"
      BY <2>1 DEF DirectoryInv
    <3>2. /\ directory'["processing"] = directory["processing"]
          /\ directory["active"].now = "active" => directory'["active"] = Link("processing")
          /\ directory["active"].now # "active" => directory'["active"] = directory["active"]
      BY <2>4, <3>1, BecomesIs, LinkType
    <3>3. directory["processing"].now = "none"
      BY <3>1 DEF DirectoryLink
    <3> QED
      BY <2>1, <2>2, <3>1, <3>2, <3>3, LinkType, NoFileType DEF DirectoryInv
  <2> QED
    BY <1>5, <2>3, <2>4 DEF RenameStep
<1>6. CASE TruncateStep
  <2>1. Truncated(NoFile) = NoFile
    <3>1. CompleteRecords(NoFile) * RecordSize = 0
      BY NoFileRecords, RecordAssumption
    <3>2. SubSeq(<<>>, 1, 0) = <<>>
      OBVIOUS
    <3> QED
      BY <3>1, <3>2, NoFileType DEF Truncated, NoFile
  <2>2. /\ active'.exists = active.exists /\ (active = NoFile => active' = NoFile)
        /\ processing'.exists = processing.exists /\ (processing = NoFile => processing' = NoFile)
    BY <1>6, <2>1, TruncatedIs DEF TruncateStep
  <2>3. directory' = directory
    BY <1>6 DEF TruncateStep
  <2> QED
    BY <2>2, <2>3, Zenon DEF DirectoryInv
<1>7. CASE RemoveStep
  <2>1. processing' = NoFile /\ active' = active /\ processing.exists
    BY <1>7 DEF RemoveStep, ControlInv
  <2>2. CASE SyncDirectory
    BY <1>0, <1>2, <2>1, <2>2
  <2>3. CASE directory' = Becomes("processing", [now |-> "none", removed |-> processing])
    <3>1. \A name \in {"active", "processing"} :
             \/ directory'[name].now = "none" /\ directory'[name].removed = processing
             \/ directory'[name] = directory[name] /\ directory[name].now # "processing"
      BY <2>3, BecomesIs, FullLinkType
    <3> QED
      BY <2>1, <3>1, NoFileType DEF DirectoryInv
  <2> QED
    BY <1>7, <2>2, <2>3 DEF RemoveStep
<1>8. CASE UndoStep
  <2>1. Unlinked.exists \/ Unlinked = NoFile
    BY DEF DirectoryInv, Unlinked
  <2>2. (active'.exists \/ active' = NoFile) /\ (processing'.exists \/ processing' = NoFile)
    BY <1>0, <1>8, <2>1, UndoCases
  <2> QED
    BY <1>2, <1>8, <2>2 DEF UndoStep
<1> QED
  BY <1>1, <1>3, <1>4, <1>5, <1>6, <1>7, <1>8, JournalCases

----------------------------------------------------------------------------
(* The worker's control. *)

\* Every way out of the loop drops the batch.
LEMMA Left ==
    ASSUME NEW to \in {"hydrate", "suspended", "stopped"}, LeaveLoop(to)
    PROVE  ControlInv' /\ BatchInv' /\ ~batch'.open /\ pending' = NoEvent /\ pc' = to
BY NoBatchType DEF LeaveLoop, ControlInv, BatchInv

LEMMA ControlInvStep ==
    ASSUME TypeInv, DirectoryInv, ControlInv, BatchInv, [Next]_vars
    PROVE  ControlInv'
<1> USE DEF TypeInv, JournalType, WorkerType
<1>0. batch \in Reader /\ batch.open \in BOOLEAN
  BY DEF Reader
<1>1. CASE Enqueue \/ EnqueueFails
  <2>1. /\ processing' = processing /\ UNCHANGED worker
    BY <1>1 DEF Enqueue, EnqueueFails
  <2>2. Unlinked' = Unlinked \/ Unlinked' = NoFile
    BY <1>1, SyncIs DEF Enqueue, EnqueueFails, Unlinked
  <2> QED
    BY <2>1, <2>2, NoFileType, Zenon DEF worker, ControlInv
<1>2. CASE RecoverQueue \/ RecoverFails
  <2>1. processing'.exists = processing.exists /\ Unlinked' = Unlinked /\ UNCHANGED worker
    BY <1>2, TruncatedIs DEF RecoverQueue, RecoverFails, Unlinked
  <2> QED
    BY <2>1, Zenon DEF ControlInv, worker
<1>3. CASE UNCHANGED vars
  <2>1. UNCHANGED worker /\ processing' = processing /\ Unlinked' = Unlinked
    BY <1>3 DEF vars, journal, Unlinked
  <2> QED
    BY <2>1, Zenon DEF ControlInv, worker
<1>4. CASE Rehydrate \/ Shutdown \/ CleanupRaises \/ Crash
  BY <1>4, Left DEF Rehydrate, Shutdown, CleanupRaises, Crash
<1>5. CASE HydrateCaches \/ Resume
  BY <1>5, Zenon DEF HydrateCaches, Resume, ControlInv
<1>6. CASE CheckHealth
  <2>1. \/ LeaveLoop("suspended")
        \/ /\ UNCHANGED <<batch, pending>>
           /\ \/ pc' = "rotate" /\ ~batch.open
              \/ pc' = "read" /\ batch.open /\ pending = NoEvent
              \/ pc' = "claim" /\ batch.open /\ pending # NoEvent
    BY <1>0, <1>6 DEF CheckHealth
  <2> QED
    BY <2>1, Left, Zenon DEF ControlInv
<1>7. CASE RotateJournal \/ RotateFails
  <2>1. UNCHANGED <<batch, pending>> /\ ~batch.open /\ pending = NoEvent
    BY <1>7 DEF RotateJournal, RotateFails, ControlInv
  <2>2. pc' = "check" \/ (pc' = "open" /\ processing'.exists)
    BY <1>7 DEF RotateJournal, RotateFails
  <2> QED
    BY <2>1, <2>2, Zenon DEF ControlInv
<1>8. CASE OpenBatch
  <2>1. batch'.open /\ pc' = "read" /\ pending' = pending /\ pending = NoEvent
    BY <1>8 DEF OpenBatch, ControlInv
  <2> QED
    BY <2>1, Zenon DEF ControlInv
<1>9. CASE OpenFails
  <2>1. pc = "open" /\ pc' = "check" /\ UNCHANGED <<batch, pending>>
    BY <1>9 DEF OpenFails
  <2> QED
    BY <2>1, Zenon DEF ControlInv
<1>10. CASE NextEvent
  <2>1. CASE ~Decodes(Block(processing, batch.offset))
    BY <1>10, <2>1, Left DEF NextEvent
  <2>2. CASE Decodes(Block(processing, batch.offset))
    <3>1. /\ pc = "read" /\ pc' = "claim" /\ pending' \in EventId
          /\ batch' = [batch EXCEPT !.offset = batch.offset + RecordSize, !.read = batch.read + 1]
      BY <1>10, <2>2, EventOfType DEF NextEvent
    <3>2. batch'.open = batch.open
      BY <3>1 DEF Reader
    <3> QED
      BY <3>1, <3>2, RingAssumption, Zenon DEF ControlInv
  <2> QED
    BY <2>1, <2>2
<1>11. CASE ReadFails
  <2>1. pc = "read" /\ pc' = "check" /\ pending' = pending
    BY <1>11 DEF ReadFails
  <2>2. \E o : batch' = [batch EXCEPT !.offset = o]
    BY <1>11 DEF ReadFails
  <2>3. batch'.open = batch.open
    BY <2>2 DEF Reader
  <2> QED
    BY <2>1, <2>3, Zenon DEF ControlInv
<1>12. CASE EndOfBatch
  <2>1. /\ pc = "read" /\ pc' = "remove" /\ pending' = pending /\ ~batch'.open
        /\ processing' = processing /\ batch.open
    BY <1>12, NoBatchType DEF EndOfBatch, journal, ControlInv
  <2>2. processing'.exists
    BY <2>1 DEF BatchInv
  <2> QED
    BY <2>1, <2>2, Zenon DEF ControlInv
<1>13. CASE RemoveProcessing \/ RemoveFails
  <2>1. pc = "remove" /\ UNCHANGED <<batch, pending>>
    BY <1>13 DEF RemoveProcessing, RemoveFails
  <2>2. pc' = "check" \/ (pc' = "cleanup" /\ processing' = NoFile /\ SyncDirectory)
    BY <1>13 DEF RemoveProcessing, RemoveFails
  <2>3. CASE pc' = "cleanup" /\ processing' = NoFile /\ SyncDirectory
    <3>1. Unlinked' = NoFile
      BY <2>3, SyncIs DEF Unlinked
    <3> QED
      BY <2>1, <2>3, <3>1, NoFileType, Zenon DEF ControlInv
  <2> QED
    BY <2>1, <2>2, <2>3, Zenon DEF ControlInv
<1>14. CASE CleanReceipts
  BY <1>14, Zenon DEF CleanReceipts, ControlInv
<1>15. CASE MatchingClaim
  BY <1>15, Zenon DEF MatchingClaim, ControlInv
<1>16. CASE CommitEvent
  <2>1. /\ pc = "txn" /\ pc' \in {"check", "ack"} /\ pending' = NoEvent /\ batch' = batch
    BY <1>16 DEF CommitEvent
  <2> QED
    BY <2>1, Zenon DEF ControlInv
<1>17. CASE AbortEvent \/ AckCallback
  BY <1>17, Zenon DEF AbortEvent, AckCallback, ControlInv
<1> QED
  BY <1>1, <1>2, <1>3, <1>4, <1>5, <1>6, <1>7, <1>8, <1>9, <1>10, <1>11, <1>12, <1>13,
     <1>14, <1>15, <1>16, <1>17 DEF Next, Producer, WorkerStep

\* A reader that lost part of a record is between two records.
LEMMA BufferedTwice ==
    ASSUME NEW o \in Nat
    PROVE  Buffered(o) \in Nat /\ Buffered(o + Buffered(o)) = 0
<1> DEFINE B == BufferSize
           r == o % B
           q == o \div B
<1>1. B \in Nat /\ B > 0
  BY FaultAssumption, RecordAssumption
<1>2. q \in Int /\ r \in 0 .. B - 1 /\ o = q * B + r
  BY <1>1
<1>3. CASE r = 0
  <2>1. Buffered(o) = 0
    BY <1>1, <1>3 DEF Buffered
  <2> QED
    BY <2>1
<1>4. CASE r # 0
  <2>1. Buffered(o) = B - r
    BY <1>1, <1>2, <1>4 DEF Buffered
  <2>2. o + Buffered(o) = (q + 1) * B
    BY <2>1, <1>1, <1>2
  <2>3. ((q + 1) * B) % B = 0
    BY <1>1, <1>2
  <2>4. (B - 0) % B = 0
    BY <1>1
  <2>5. Buffered((q + 1) * B) = 0
    BY <2>3, <2>4 DEF Buffered
  <2>6. Buffered(o) \in Nat
    BY <2>1, <1>1, <1>2
  <2> QED
    BY <2>2, <2>5, <2>6
<1> QED
  BY <1>3, <1>4

\* A buffer of whole records never ends inside one.
LEMMA BufferedWhole ==
    ASSUME BufferSize % RecordSize = 0, NEW n \in Nat, Buffered(n * RecordSize) < RecordSize
    PROVE  Buffered(n * RecordSize) = 0
<1> DEFINE B == BufferSize
           o == n * RecordSize
           r == o % B
           q == o \div B
           m == B \div RecordSize
<1>1. B \in Nat /\ B > 0 /\ o \in Nat
  BY FaultAssumption, RecordAssumption
<1> HIDE DEF o
<1>2. q \in Int /\ r \in 0 .. B - 1 /\ o = q * B + r
  BY <1>1
<1>3. m \in Int /\ B = m * RecordSize
  BY <1>1, RecordAssumption
<1>4. CASE r = 0
  <2>1. Buffered(o) = 0
    BY <1>1, <1>4 DEF Buffered
  <2> QED
    BY <2>1 DEF o
<1>5. CASE r # 0
  <2>1. Buffered(o) = B - r
    BY <1>1, <1>2, <1>5 DEF Buffered
  <2> DEFINE x == m - n + q * m
  <2>2. x \in Int /\ B - r = x * RecordSize
    <3> HIDE DEF m, q, r
    <3>1. q * m \in Int /\ q * B = (q * m) * RecordSize /\ RecordSize \in Int
      BY <1>2, <1>3, RecordAssumption
    <3> DEFINE y == q * m
    <3>2. x = m - n + y /\ y \in Int
      BY <3>1
    <3>3. B - r = m * RecordSize - n * RecordSize + y * RecordSize
      BY <1>1, <1>2, <1>3, <3>1 DEF o
    <3> HIDE DEF x, y
    <3>4. (m - n + y) * RecordSize = m * RecordSize - n * RecordSize + y * RecordSize
      BY <3>1, <3>2, <1>3
    <3> QED
      BY <3>2, <3>3, <3>4, <1>3
  <2>3. B - r > 0 /\ B - r < RecordSize
    <3>1. Buffered(o) < RecordSize
      BY DEF o
    <3> QED
      BY <2>1, <3>1, <1>1, <1>2
  <2> HIDE DEF x
  <2>4. x <= 0 => x * RecordSize <= 0
    BY <2>2, RecordAssumption
  <2>5. x >= 1 => x * RecordSize >= RecordSize
    BY <2>2, RecordAssumption
  <2> QED
    BY <2>2, <2>3, <2>4, <2>5, RecordAssumption
<1> QED
  BY <1>4, <1>5 DEF o

LEMMA LostBlock ==
    ASSUME NEW f \in File, Stamped(f), NEW o \in Nat, HasBlock(f, o), o % RecordSize # 0
    PROVE  ~Decodes(Block(f, o))
<1> SUFFICES ASSUME NEW id \in EventId, Block(f, o) = Encode(id)
             PROVE  FALSE
  BY DEF Decodes
<1>1. f.bytes \in Seq(Byte) /\ Len(f.bytes) \in Nat /\ o + RecordSize <= Len(f.bytes)
  BY CompleteRecordsIs DEF HasBlock
<1>2. Block(f, o)[1] = f.bytes[o + 1]
  BY <1>1, Slice, RecordAssumption DEF Block
<1>3. Block(f, o)[1] = <<id, 1>>
  BY EncodeType, RecordAssumption
<1>4. f.bytes[o + 1][2] = 1 + (o % RecordSize)
  <2>1. o + 1 \in 1 .. Len(f.bytes) /\ (o + 1) - 1 = o
    BY <1>1, RecordAssumption
  <2> QED
    BY <2>1 DEF Stamped
<1>5. o % RecordSize \in Int
  BY RecordAssumption
<1> QED
  BY <1>2, <1>3, <1>4, <1>5

LEMMA TruncatedWhole ==
    ASSUME NEW f \in File, Len(f.bytes) = CompleteRecords(f) * RecordSize
    PROVE  Truncated(f) = f
<1>1. f.bytes \in Seq(Byte)
  BY CompleteRecordsIs
<1>2. SubSeq(f.bytes, 1, Len(f.bytes)) = f.bytes
  BY <1>1
<1> QED
  BY <1>2 DEF Truncated, File

LEMMA CleanNext ==
    ASSUME NEW f, NEW n \in Nat, Clean(f, n), Decodes(Record(f, n + 1))
    PROVE  Clean(f, n + 1)
BY DEF Clean

LEMMA NextBlock ==
    ASSUME TypeInv, BytesInv, BatchInv, ControlInv, NextEvent,
           Decodes(Block(processing, batch.offset))
    PROVE  /\ batch.open /\ batch.read + 1 \in 1 .. CompleteRecords(processing)
           /\ batch.offset = batch.read * RecordSize
           /\ Record(processing, batch.read + 1) = Block(processing, batch.offset)
           /\ Clean(processing, batch.read + 1)
<1> USE DEF TypeInv, JournalType, WorkerType
<1>1. pc = "read" /\ batch.read < batch.complete /\ HasBlock(processing, batch.offset)
  BY DEF NextEvent
<1>2. batch.open
  BY <1>1 DEF ControlInv
<1>3. batch.read \in Nat /\ batch.offset \in Nat
  BY DEF Reader
<1>4. batch.read + 1 \in 1 .. CompleteRecords(processing) /\ Clean(processing, batch.read)
  BY <1>1, <1>2, <1>3, CompleteRecordsIs DEF BatchInv
<1>5. batch.offset = batch.read * RecordSize
  BY <1>1, <1>2, <1>3, LostBlock DEF BatchInv, Lost, BytesInv, Sound
<1>6. Record(processing, batch.read + 1) = Block(processing, batch.offset)
  <2>1. (batch.read + 1) - 1 = batch.read
    BY <1>3
  <2> QED
    BY <2>1, <1>5 DEF Record
<1> QED
  BY <1>2, <1>3, <1>4, <1>5, <1>6, CleanNext

LEMMA BatchInvStep ==
    ASSUME InStep, TypeInv, BytesInv, ControlInv, BatchInv, [Next]_vars
    PROVE  BatchInv'
<1> USE DEF TypeInv, JournalType, WorkerType
<1>0. /\ batch.open \in BOOLEAN /\ batch.offset \in Nat /\ batch.read \in Nat
      /\ batch.complete \in Nat
  BY DEF Reader
<1>1. ASSUME UNCHANGED batch, processing' \in {processing, Truncated(processing)}
      PROVE  BatchInv'
  <2>1. CASE batch.open
    <3>1. processing' = processing
      BY <1>1, <2>1, TruncatedWhole DEF BatchInv
    <3> QED
      BY <1>1, <3>1 DEF BatchInv
  <2>2. CASE ~batch.open
    BY <1>1, <2>2 DEF BatchInv
  <2> QED
    BY <2>1, <2>2
<1>2. CASE Enqueue \/ EnqueueFails \/ RecoverQueue \/ RecoverFails \/ UNCHANGED vars
  BY <1>1, <1>2 DEF Enqueue, EnqueueFails, RecoverQueue, RecoverFails, worker, vars, journal
<1>3. CASE Rehydrate \/ Shutdown \/ CleanupRaises \/ Crash
  BY <1>3, Left DEF Rehydrate, Shutdown, CleanupRaises, Crash
<1>4. CASE \/ HydrateCaches \/ Resume \/ CleanReceipts \/ MatchingClaim \/ CommitEvent
           \/ AbortEvent \/ AckCallback \/ OpenFails
  BY <1>1, <1>4 DEF HydrateCaches, Resume, CleanReceipts, MatchingClaim, CommitEvent, AbortEvent,
                    AckCallback, OpenFails, journal
<1>5. CASE CheckHealth
  <2>1. LeaveLoop("suspended") \/ UNCHANGED batch
    BY <1>5 DEF CheckHealth
  <2> QED
    BY <1>1, <1>5, <2>1, Left DEF CheckHealth, journal
<1>6. CASE RotateJournal \/ RotateFails \/ RemoveProcessing \/ RemoveFails
  <2>1. batch' = batch /\ ~batch.open
    BY <1>6 DEF RotateJournal, RotateFails, RemoveProcessing, RemoveFails, ControlInv
  <2> QED
    BY <2>1 DEF BatchInv
<1>7. CASE EndOfBatch
  BY <1>7, NoBatchType DEF EndOfBatch, BatchInv
<1>8. CASE OpenBatch
  <2>1. /\ processing' = Truncated(processing) /\ processing.exists
        /\ batch'.offset = 0 /\ batch'.read = 0 /\ batch'.complete = CompleteRecords(processing)
    BY <1>8 DEF OpenBatch, ControlInv
  <2>2. /\ processing'.exists /\ CompleteRecords(processing') = CompleteRecords(processing)
        /\ Len(processing'.bytes) = CompleteRecords(processing) * RecordSize
        /\ CompleteRecords(processing) \in Nat
    BY <2>1, TruncatedIs, CompleteRecordsIs
  <2>3. Clean(processing', 0)
    BY DEF Clean
  <2> QED
    BY <2>1, <2>2, <2>3, RecordAssumption DEF BatchInv
<1>9. CASE NextEvent
  <2>1. CASE ~Decodes(Block(processing, batch.offset))
    BY <1>9, <2>1, Left DEF NextEvent
  <2>2. CASE Decodes(Block(processing, batch.offset))
    <3>1. /\ processing' = processing
          /\ batch' = [batch EXCEPT !.offset = batch.offset + RecordSize, !.read = batch.read + 1]
      BY <1>9, <2>2 DEF NextEvent, journal
    <3>2. /\ batch'.offset = batch.offset + RecordSize /\ batch'.read = batch.read + 1
          /\ batch'.complete = batch.complete
      BY <3>1 DEF Reader
    <3>3. /\ batch.open /\ batch.read + 1 \in 1 .. CompleteRecords(processing)
          /\ batch.offset = batch.read * RecordSize /\ Clean(processing, batch.read + 1)
      BY <1>9, <2>2, NextBlock
    <3>4. batch.offset + RecordSize = (batch.read + 1) * RecordSize
      BY <3>3, <1>0, RecordAssumption
    <3>5. /\ processing.exists /\ batch.complete = CompleteRecords(processing)
          /\ Len(processing.bytes) = batch.complete * RecordSize
      BY <3>3 DEF BatchInv
    <3> QED
      BY <3>1, <3>2, <3>3, <3>4, <3>5 DEF BatchInv
  <2> QED
    BY <2>1, <2>2
<1>10. CASE ReadFails
  <2>1. /\ processing' = processing /\ pc = "read" /\ batch.read < batch.complete
        /\ \/ /\ HasBlock(processing, batch.offset) /\ Buffered(batch.offset) < RecordSize
              /\ batch' = [batch EXCEPT !.offset = batch.offset + Buffered(batch.offset)]
           \/ /\ ~HasBlock(processing, batch.offset)
              /\ batch' = [batch EXCEPT !.offset = Len(processing.bytes)]
    BY <1>10 DEF ReadFails, journal
  <2>2. /\ batch'.open = batch.open /\ batch'.read = batch.read /\ batch'.complete = batch.complete
        /\ batch.open
    BY <2>1 DEF Reader, ControlInv
  <2>3. /\ processing.exists /\ batch.complete = CompleteRecords(processing)
        /\ Len(processing.bytes) = batch.complete * RecordSize
        /\ batch.read <= batch.complete /\ Clean(processing, batch.read)
    BY <2>2 DEF BatchInv
  <2>4. ASSUME batch.offset = batch.read * RecordSize
        PROVE  HasBlock(processing, batch.offset)
    BY <2>1, <2>3, <2>4, <1>0, Multiples DEF HasBlock
  <2>5. \/ batch'.offset = batch.read * RecordSize
        \/ NoTears /\ (Lost(batch'.offset) \/ ~HasBlock(processing, batch'.offset))
    <3>1. CASE ~HasBlock(processing, batch.offset)
      <4>1. NoTears
        BY <2>2, <2>4, <3>1 DEF BatchInv
      <4>2. batch'.offset = Len(processing.bytes)
        BY <2>1, <3>1 DEF Reader
      <4>3. ~HasBlock(processing, Len(processing.bytes))
        BY CompleteRecordsIs, RecordAssumption DEF HasBlock
      <4> QED
        BY <4>1, <4>2, <4>3
    <3>2. CASE HasBlock(processing, batch.offset)
      <4>1. /\ Buffered(batch.offset) < RecordSize
            /\ batch'.offset = batch.offset + Buffered(batch.offset)
        BY <2>1, <3>2 DEF Reader
      <4>2. /\ Buffered(batch.offset) \in Nat
            /\ Buffered(batch.offset + Buffered(batch.offset)) = 0
        BY <1>0, BufferedTwice
      <4>3. CASE Buffered(batch.offset) = 0
        <5>1. batch'.offset = batch.offset
          BY <4>1, <4>3, <1>0
        <5> QED
          BY <5>1, <2>2, <3>2 DEF BatchInv
      <4>4. CASE Buffered(batch.offset) # 0
        <5>1. batch.offset = batch.read * RecordSize
          BY <2>2, <3>2, <4>4 DEF BatchInv, Lost
        <5>2. NoTears
          BY <5>1, <4>1, <4>4, <1>0, BufferedWhole DEF InStep
        <5>3. batch'.offset % RecordSize = Buffered(batch.offset)
          <6> DEFINE k == Buffered(batch.offset) + 1
          <6>1. k \in 1 .. RecordSize
            BY <4>1, <4>2, RecordAssumption
          <6>2. (batch.read * RecordSize + k - 1) % RecordSize = k - 1
            BY <6>1, <1>0, ModSum
          <6>3. batch.read * RecordSize + k - 1 = batch'.offset /\ k - 1 = Buffered(batch.offset)
            BY <5>1, <4>1, <4>2, <1>0
          <6> HIDE DEF k
          <6> QED
            BY <6>2, <6>3
        <5> QED
          BY <5>2, <5>3, <4>1, <4>2, <4>4 DEF Lost
      <4> QED
        BY <4>3, <4>4
    <3> QED
      BY <3>1, <3>2
  <2> QED
    BY <2>1, <2>2, <2>3, <2>5 DEF BatchInv
<1> QED
  BY <1>2, <1>3, <1>4, <1>5, <1>6, <1>7, <1>8, <1>9, <1>10 DEF Next, Producer, WorkerStep

----------------------------------------------------------------------------
(* Which events each file has. *)

LEMMA CarriesGrows ==
    ASSUME NEW f \in File, NEW w \in Seq(EventId), NEW v \in Seq(EventId), NEW b \in Nat,
           NEW e \in Nat, NEW d \in Nat, e <= d, e <= Len(w),
           \A i \in 1 .. Len(w) : v[i] = w[i], Carries(w, f, b, e)
    PROVE  Carries(v, f, b, d)
<1>1. CompleteRecords(f) \in Nat
  BY CompleteRecordsIs
<1>2. ASSUME NEW n \in 1 .. CompleteRecords(f), Clean(f, n)
      PROVE  b + n <= d /\ Record(f, n) = Encode(v[b + n])
  <2>1. b + n <= e /\ Record(f, n) = Encode(w[b + n])
    BY <1>2 DEF Carries
  <2>2. b + n \in 1 .. Len(w)
    BY <2>1, <1>1
  <2> QED
    BY <2>1, <2>2, <1>1
<1> QED
  BY <1>2 DEF Carries

LEMMA CarriesNoFile ==
    ASSUME NEW w, NEW b, NEW e
    PROVE  Carries(w, NoFile, b, e)
BY NoFileRecords DEF Carries

Lengths == Len(applied) \in Nat /\ Len(written) \in Nat

LEMMA LengthsAre ==
    ASSUME TypeInv
    PROVE  Lengths
BY DEF TypeInv, DataType, Lengths

\* Where the transaction and the batch stay, so does the reader.
LEMMA ReaderKept ==
    ASSUME NEW p \in Nat, NEW a \in Nat, ReaderInv(p, a), UNCHANGED <<applied, batch, pending>>,
           pending # NoEvent => written'[p + batch.read] = written[p + batch.read],
           pc' \notin {"remove", "cleanup"}
    PROVE  ReaderInv(p, a)'
BY DEF ReaderInv

LEMMA ReaderLeft ==
    ASSUME NEW p \in Nat, NEW a \in Nat, ~batch'.open, pending' = NoEvent,
           pc' \notin {"remove", "cleanup"}
    PROVE  ReaderInv(p, a)'
BY DEF ReaderInv

LEMMA AppendKeepsPlaces ==
    ASSUME TypeInv, TypeInv', BytesInv, AppliedInv, NEW id \in EventId \ drawn,
           NEW n \in 0 .. RecordSize, AppendStep(id, n), [Next]_vars,
           NEW p \in Nat, NEW a \in Nat, FilesInv(p, a), ReaderInv(p, a)
    PROVE  AppliedInv' /\ FilesInv(p, a)' /\ ReaderInv(p, a)'
<1> USE DEF TypeInv, JournalType, DataType, WorkerType
<1>1. /\ active' = Appended(active, id, n) /\ UNCHANGED <<processing, receipts, applied>>
      /\ written' = IF n = RecordSize THEN written \o <<id>> ELSE written
      /\ UNCHANGED worker \/ LeaveLoop("hydrate")
  BY DEF AppendStep, AppendBytes
<1>2. Len(written) <= Len(written') /\ \A i \in 1 .. Len(written) : written'[i] = written[i]
  BY WrittenGrows
<1>3. Len(written) \in Nat /\ Len(applied) \in Nat /\ Len(written') \in Nat
  OBVIOUS
<1>4. /\ Unlinked' = Unlinked \/ Unlinked' = NoFile
      /\ directory'["active"].now = "processing" => directory["active"].now = "processing"
  BY SyncIs DEF AppendStep, Unlinked
<1>5. AppliedInv'
  <2>1. \A i \in 1 .. Len(applied) : written'[i] = written[i]
    BY <1>2, <1>3 DEF AppliedInv
  <2> QED
    BY <1>1, <1>2, <1>3, <2>1 DEF AppliedInv
<1>6. PlacesInv(p, a)'
  <2>1. Unlinked'.exists => Unlinked.exists
    BY <1>4, NoFileType
  <2> QED
    BY <1>1, <1>2, <1>3, <2>1 DEF FilesInv, PlacesInv, Receipted
<1>7. ContentsInv(p, a)'
  <2>1. Carries(written', processing', p, a)
    <3>1. /\ processing \in File /\ written \in Seq(EventId) /\ written' \in Seq(EventId)
          /\ Carries(written, processing, p, a) /\ a <= Len(written)
      BY DEF FilesInv, ContentsInv, PlacesInv
    <3>2. processing' = processing /\ a <= a
      BY <1>1
    <3> HIDE DEF TypeInv
    <3>3. Carries(written', processing, p, a)
      BY <3>1, <3>2, <1>2, CarriesGrows
    <3> QED
      BY <3>2, <3>3
  <2>2. /\ Carries(written', active', a, Len(written'))
        /\ Verifies(active') => a + CompleteRecords(active') = Len(written')
    <3>1. /\ BytesFrom(active, drawn) /\ Carries(written, active, a, Len(written))
          /\ Verifies(active) => a + CompleteRecords(active) = Len(written)
      BY DEF BytesInv, Sound, FilesInv, ContentsInv
    <3> HIDE DEF TypeInv
    <3>2. active \in File /\ written \in Seq(EventId)
      BY DEF TypeInv
    <3> QED
      BY <1>1, <3>1, <3>2, CarriesAppended, ZenonT(60)
  <2>3. Verifies(processing') =>
           \/ p + CompleteRecords(processing') = a
           \/ a <= Len(applied') /\ directory'["active"].now # "processing"
    BY <1>1, <1>4 DEF FilesInv, ContentsInv
  <2> QED
    BY <2>1, <2>2, <2>3 DEF ContentsInv
<1>8. UnlinkedInv(a)'
  <2>1. CASE Unlinked' = NoFile
    BY <2>1, NoFileType DEF UnlinkedInv
  <2>2. CASE Unlinked' = Unlinked /\ Unlinked.exists
    <3>1. PICK q \in 0 .. a : Carries(written, Unlinked, q, a) /\ Receipted(q)
      BY <2>2 DEF FilesInv, UnlinkedInv
    <3>2. Unlinked \in File
      BY DEF Unlinked, DirectoryLink
    <3>3. Carries(written', Unlinked, q, a)
      BY <3>1, <3>2, <1>2, <1>3, CarriesGrows DEF FilesInv, PlacesInv
    <3> QED
      BY <2>2, <3>1, <3>3, <1>1 DEF UnlinkedInv, Receipted
  <2> QED
    BY <2>1, <2>2, <1>4 DEF UnlinkedInv
<1>9. ReaderInv(p, a)'
  <2>1. CASE LeaveLoop("hydrate")
    BY <2>1, Left, ReaderLeft
  <2>2. CASE UNCHANGED worker
    <3>1. pending # NoEvent => written'[p + batch.read] = written[p + batch.read]
      <4>1. pending # NoEvent => p + batch.read \in 1 .. Len(written)
        <5>1. batch.read \in Nat /\ a <= Len(written)
          BY DEF Reader, FilesInv, PlacesInv
        <5>2. pending # NoEvent => batch.read > 0 /\ p + batch.read <= a
          BY DEF ReaderInv
        <5> QED
          BY ONLY <5>1, <5>2, <1>3, p \in Nat, a \in Nat
      <4> QED
        BY <4>1, <1>2
    <3> QED
      BY <2>2, <3>1, <1>1 DEF ReaderInv, worker
  <2> QED
    BY <2>1, <2>2, <1>1
<1> QED
  BY <1>5, <1>6, <1>7, <1>8, <1>9 DEF FilesInv


\* Rotation: the active file becomes the batch.
LEMMA RenameKeepsPlaces ==
    ASSUME TypeInv, AppliedInv, DirectoryInv, ControlInv, RenameStep,
           NEW p \in Nat, NEW a \in Nat, FilesInv(p, a), NEW m \in Nat, m = Len(written)
    PROVE  FilesInv(a, m)' /\ ReaderInv(a, m)'
<1> USE DEF TypeInv, JournalType, DataType, WorkerType
<1>1. /\ ~processing.exists /\ active.bytes # <<>> /\ active' = NoFile /\ processing' = active
      /\ UNCHANGED <<receipts, applied, batch, pending, written>> /\ pc' \in {"open", "check"}
      /\ pc = "rotate"
  BY DEF RenameStep, Rename, CanRename, database
<1>2. active.exists
  BY <1>1, NoFileType DEF DirectoryInv
<1>3. Unlinked' = Unlinked \/ Unlinked' = NoFile
  BY SyncIs, BecomesIs, LinkType DEF RenameStep, Unlinked, DirectoryInv
<1>4. /\ Lengths /\ p = a /\ a <= Len(applied) /\ a <= Len(written) /\ Receipted(p)
      /\ Len(applied) <= Len(written)
  BY <1>1, LengthsAre DEF FilesInv, PlacesInv, AppliedInv
<1>5. PlacesInv(a, m)'
  BY <1>1, <1>2, <1>4 DEF PlacesInv, Receipted, Lengths
<1>6. ContentsInv(a, m)'
  <2>1. /\ Carries(written, active, a, Len(written))
        /\ Verifies(active) => a + CompleteRecords(active) = Len(written)
    BY DEF FilesInv, ContentsInv
  <2>2. m + CompleteRecords(NoFile) = Len(written)
    BY <1>4, NoFileRecords
  <2> QED
    BY <1>1, <2>1, <2>2, CarriesNoFile DEF ContentsInv
<1>7. UnlinkedInv(m)'
  <2>1. CASE Unlinked' = NoFile
    BY <2>1, NoFileType DEF UnlinkedInv
  <2>2. CASE Unlinked' = Unlinked /\ Unlinked.exists
    <3>1. PICK q \in 0 .. a : Carries(written, Unlinked, q, a) /\ Receipted(q)
      BY <2>2 DEF FilesInv, UnlinkedInv
    <3>2. Unlinked \in File
      BY DEF Unlinked, DirectoryLink
    <3>3. Carries(written, Unlinked, q, m)
      BY <3>1, <3>2, <1>4, CarriesGrows DEF Lengths
    <3>4. q \in 0 .. m
      BY <1>4
    <3> QED
      BY <2>2, <3>1, <3>3, <3>4, <1>1 DEF UnlinkedInv, Receipted
  <2> QED
    BY <2>1, <2>2, <1>3 DEF UnlinkedInv
<1>8. ReaderInv(a, m)'
  <2>1. ~batch'.open /\ pending' = NoEvent
    BY <1>1 DEF ControlInv
  <2> QED
    BY <1>1, <2>1, ReaderLeft
<1> QED
  BY <1>5, <1>6, <1>7, <1>8 DEF FilesInv

\* Opening and verifying a file change nothing that a reader sees.
LEMMA TruncateKeepsPlaces ==
    ASSUME TypeInv, TruncateStep, NEW p \in Nat, NEW a \in Nat, FilesInv(p, a)
    PROVE  FilesInv(p, a)' /\ (Verifies(processing) <=> Verifies(processing'))
<1> USE DEF TypeInv, JournalType
<1>1. /\ processing'.exists = processing.exists
      /\ CompleteRecords(processing') = CompleteRecords(processing)
      /\ Verifies(processing') <=> Verifies(processing)
      /\ \A w, b, e : Carries(w, processing', b, e) <=> Carries(w, processing, b, e)
  BY TruncatedIs, SameRecords DEF TruncateStep
<1>2. /\ CompleteRecords(active') = CompleteRecords(active)
      /\ Verifies(active') <=> Verifies(active)
      /\ \A w, b, e : Carries(w, active', b, e) <=> Carries(w, active, b, e)
  BY TruncatedIs, SameRecords DEF TruncateStep
<1>3. UNCHANGED <<directory, receipts, applied, written>> /\ Unlinked' = Unlinked
  BY DEF TruncateStep, database, Unlinked
<1>4. PlacesInv(p, a)'
  BY <1>1, <1>3, Zenon DEF FilesInv, PlacesInv, Receipted
<1>5. ContentsInv(p, a)'
  BY <1>1, <1>2, <1>3 DEF FilesInv, ContentsInv
<1>6. UnlinkedInv(a)'
  BY <1>3 DEF FilesInv, UnlinkedInv, Receipted
<1> QED
  BY <1>1, <1>4, <1>5, <1>6 DEF FilesInv

\* The batch goes when all of it took effect.
LEMMA RemoveKeepsPlaces ==
    ASSUME TypeInv, ControlInv, RemoveStep,
           NEW p \in Nat, NEW a \in Nat, FilesInv(p, a), ReaderInv(p, a)
    PROVE  FilesInv(a, a)' /\ ReaderInv(a, a)'
<1> USE DEF TypeInv, JournalType, DataType, WorkerType
<1>1. /\ pc = "remove" /\ processing' = NoFile /\ active' = active /\ pc' \in {"check", "cleanup"}
      /\ UNCHANGED <<receipts, applied, batch, pending, written>>
      /\ ~batch.open /\ pending = NoEvent
  BY DEF RemoveStep, database, ControlInv
<1>2. Unlinked' = Unlinked \/ Unlinked' = NoFile \/ Unlinked' = processing
  BY SyncIs, BecomesIs, FullLinkType DEF RemoveStep, Unlinked
<1>3. /\ Lengths /\ Len(applied) = a /\ a <= Len(written) /\ p <= a /\ Receipted(p)
  BY <1>1, LengthsAre DEF FilesInv, PlacesInv, ReaderInv
<1>4. PlacesInv(a, a)'
  BY <1>1, <1>3, NoFileType DEF PlacesInv, Receipted, Lengths
<1>5. ContentsInv(a, a)'
  <2>1. /\ Carries(written, active, a, Len(written))
        /\ Verifies(active) => a + CompleteRecords(active) = Len(written)
    BY DEF FilesInv, ContentsInv
  <2>2. a + CompleteRecords(NoFile) = a
    BY NoFileRecords
  <2> QED
    BY <1>1, <2>1, <2>2, CarriesNoFile DEF ContentsInv
<1>6. UnlinkedInv(a)'
  <2>1. CASE Unlinked' = NoFile
    BY <2>1, NoFileType DEF UnlinkedInv
  <2>2. CASE Unlinked' = Unlinked
    BY <2>2, <1>1 DEF UnlinkedInv, FilesInv, Receipted
  <2>3. CASE Unlinked' = processing
    <3>1. Carries(written, processing, p, a) /\ p \in 0 .. a
      BY <1>3 DEF FilesInv, ContentsInv
    <3> QED
      BY <2>3, <3>1, <1>1, <1>3 DEF UnlinkedInv, Receipted
  <2> QED
    BY <2>1, <2>2, <2>3, <1>2
<1>7. ReaderInv(a, a)'
  BY <1>1, <1>3 DEF ReaderInv
<1> QED
  BY <1>4, <1>5, <1>6, <1>7 DEF FilesInv

\* A crash of the machine gives back the batch that was removed, or the active file
\* that was renamed.
LEMMA UndoKeepsPlaces ==
    ASSUME UndoesOne, TypeInv, AppliedInv, DirectoryInv, UndoStep,
           NEW p \in Nat, NEW a \in Nat, FilesInv(p, a)
    PROVE  \E x, y \in 0 .. Len(written) : FilesInv(x, y)' /\ ReaderInv(x, y)'
<1> USE DEF TypeInv, JournalType, DataType, WorkerType
<1>1. /\ UNCHANGED <<receipts, applied, written>> /\ Unlinked' = NoFile /\ ~Unlinked'.exists
      /\ directory'["active"].now # "processing"
  BY SyncIs, NoFileType DEF UndoStep, database, Unlinked
<1>2. \A x, y \in Nat : UnlinkedInv(y)' /\ ReaderInv(x, y)'
  <2>1. ~batch'.open /\ pending' = NoEvent /\ pc' = "hydrate"
    BY Left DEF UndoStep
  <2> QED
    BY <1>1, <2>1 DEF UnlinkedInv, ReaderInv
<1>3. /\ Lengths /\ p <= a /\ p <= Len(applied) /\ a <= Len(written) /\ Receipted(p)
      /\ ~processing.exists => p = a
      /\ processing.exists \/ Unlinked.exists => Len(applied) <= a
      /\ Len(applied) <= Len(written)
  BY LengthsAre DEF FilesInv, PlacesInv, AppliedInv
<1>4. /\ Carries(written, processing, p, a)
      /\ Carries(written, active, a, Len(written))
      /\ Verifies(active) => a + CompleteRecords(active) = Len(written)
      /\ Verifies(processing) =>
            \/ p + CompleteRecords(processing) = a
            \/ a <= Len(applied) /\ directory["active"].now # "processing"
  BY DEF FilesInv, ContentsInv
<1>5. CASE active' = active /\ processing' = processing
  <2>1. PlacesInv(p, a)'
    BY <1>1, <1>3, <1>5 DEF PlacesInv, Receipted, Lengths
  <2>2. ContentsInv(p, a)'
    BY <1>1, <1>4, <1>5 DEF ContentsInv
  <2>3. p \in 0 .. Len(written) /\ a \in 0 .. Len(written)
    BY <1>3 DEF Lengths
  <2> QED
    BY <1>2, <2>1, <2>2, <2>3 DEF FilesInv
<1>6. CASE /\ ~active.exists /\ processing.exists /\ directory["active"].now = "processing"
           /\ active' = processing /\ processing' = NoFile
  <2>1. a = Len(written)
    <3>1. active = NoFile
      BY <1>6 DEF DirectoryInv
    <3>2. Verifies(NoFile)
      BY NoFileRecords DEF Verifies
    <3> QED
      BY <3>1, <3>2, <1>3, <1>4, NoFileRecords DEF Lengths
  <2>2. PlacesInv(p, p)'
    BY <1>1, <1>3, <1>6, NoFileType DEF PlacesInv, Receipted, Lengths
  <2>3. ContentsInv(p, p)'
    <3>1. p + CompleteRecords(NoFile) = p
      BY NoFileRecords
    <3>2. Verifies(processing) => p + CompleteRecords(processing) = Len(written)
      BY <1>4, <1>6, <2>1
    <3> QED
      BY <1>1, <1>4, <1>6, <2>1, <3>1, <3>2, CarriesNoFile DEF ContentsInv
  <2>4. p \in 0 .. Len(written)
    BY <1>3 DEF Lengths
  <2> QED
    BY <1>2, <2>2, <2>3, <2>4 DEF FilesInv
<1>7. CASE /\ ~processing.exists /\ Unlinked.exists
           /\ active' = active /\ processing' = Unlinked
  <2>1. PICK q \in 0 .. a : Carries(written, Unlinked, q, a) /\ Receipted(q)
    BY <1>7 DEF FilesInv, UnlinkedInv
  <2>2. Len(applied) = a
    BY <1>3, <1>7 DEF Lengths
  <2>3. PlacesInv(q, a)'
    BY <1>1, <1>3, <1>7, <2>1, <2>2 DEF PlacesInv, Receipted, Lengths
  <2>4. ContentsInv(q, a)'
    BY <1>1, <1>4, <1>7, <2>1, <2>2 DEF ContentsInv
  <2>5. q \in 0 .. Len(written) /\ a \in 0 .. Len(written) /\ q \in Nat
    BY <1>3, <2>1 DEF Lengths
  <2> QED
    BY <1>2, <2>3, <2>4, <2>5 DEF FilesInv
<1> QED
  BY <1>5, <1>6, <1>7, UndoCases

\* A commit applies the next written event, or finds the receipt of an earlier one.
LEMMA CommitKeepsPlaces ==
    ASSUME TypeInv, TypeInv', WrittenInv, AppliedInv, ControlInv, BatchInv, CommitEvent,
           NEW p \in Nat, NEW a \in Nat, FilesInv(p, a), ReaderInv(p, a)
    PROVE  AppliedInv' /\ FilesInv(p, a)' /\ ReaderInv(p, a)'
<1> USE DEF TypeInv, JournalType, DataType, WorkerType
<1>1. /\ pc = "txn" /\ receipts' = receipts \cup {pending} /\ pending' = NoEvent
      /\ applied' = IF pending \in receipts THEN applied ELSE applied \o <<pending>>
      /\ pc' \in {"check", "ack"}
      /\ UNCHANGED <<active, processing, directory, batch, written>> /\ Unlinked' = Unlinked
  BY DEF CommitEvent, journal, history, Unlinked
<1>2. batch.open /\ pending # NoEvent /\ batch.read \in Nat /\ processing.exists /\ pending \in EventId
  BY <1>1 DEF ControlInv, BatchInv, Reader
<1> DEFINE j == p + batch.read
           k == Len(applied)
<1>3. /\ j \in p + 1 .. k + 1 /\ j <= a /\ pending = written[j] /\ k \in Nat
      /\ Len(written) \in Nat /\ p <= k /\ a <= Len(written) /\ k <= a /\ p <= a
  BY <1>2 DEF ReaderInv, FilesInv, PlacesInv
<1>4. ASSUME pending \in receipts
      PROVE  j <= k
  <2>1. PICK i \in 1 .. k : applied[i] = pending
    BY <1>4 DEF AppliedInv
  <2>2. written[i] = written[j] /\ i \in 1 .. Len(written) /\ j \in 1 .. Len(written)
    BY <2>1, <1>3 DEF AppliedInv
  <2>3. i = j
    BY <2>2 DEF WrittenInv
  <2> QED
    BY <2>3, <1>3
<1>5. ASSUME pending \notin receipts
      PROVE  j = k + 1
  <2> SUFFICES ASSUME j <= k PROVE FALSE
    BY <1>3
  <2>1. j \in p + 1 .. k /\ j \in 1 .. k
    BY <1>3
  <2>2. applied[j] \in receipts /\ applied[j] = written[j]
    BY <2>1 DEF AppliedInv, FilesInv, PlacesInv, Receipted
  <2> QED
    BY <2>2, <1>3, <1>5
<1>6. /\ k <= Len(applied') /\ Len(applied') \in Nat /\ j <= Len(applied') /\ Len(applied') <= a
      /\ \A i \in 1 .. k : applied'[i] = applied[i]
      /\ \A i \in 1 .. Len(applied') : i \in 1 .. k \/ (i = j /\ applied'[i] = pending)
      /\ \E i \in 1 .. Len(applied') : applied'[i] = pending
  <2>1. CASE pending \in receipts
    <3>1. applied' = applied
      BY <1>1, <2>1
    <3>2. \E i \in 1 .. k : applied[i] = pending
      BY <2>1 DEF AppliedInv
    <3> HIDE DEF TypeInv
    <3> QED
      BY <2>1, <3>1, <3>2, <1>3, <1>4
  <2>2. CASE pending \notin receipts
    <3>1. applied' = applied \o <<pending>> /\ applied \in Seq(EventId)
      BY <1>1, <2>2
    <3>2. Len(applied') = k + 1 /\ applied'[k + 1] = pending /\ \A i \in 1 .. k : applied'[i] = applied[i]
      BY <3>1, <1>2
    <3> HIDE DEF TypeInv, k, j
    <3>3. j = k + 1 /\ k + 1 \in 1 .. k + 1
      BY <2>2, <1>3, <1>5
    <3>4. \A i \in 1 .. k + 1 : i \in 1 .. k \/ i = k + 1
      BY <1>3
    <3> QED
      BY <3>2, <3>3, <3>4, <1>3
  <2> QED
    BY <2>1, <2>2
<1> HIDE DEF j, k
<1>7. AppliedInv'
  <2>1. \A i \in 1 .. Len(applied') : applied'[i] = written'[i]
    BY <1>1, <1>3, <1>6 DEF AppliedInv, k
  <2>2. \A id \in receipts' : \E i \in 1 .. Len(applied') : applied'[i] = id
    <3> SUFFICES ASSUME NEW id \in receipts, id # pending
                 PROVE  \E i \in 1 .. Len(applied') : applied'[i] = id
      BY <1>1, <1>6
    <3>1. PICK i \in 1 .. k : applied[i] = id
      BY DEF AppliedInv, k
    <3>2. i \in 1 .. Len(applied') /\ applied'[i] = id
      BY <3>1, <1>3, <1>6
    <3> QED
      BY <3>2
  <2>3. Len(applied') <= Len(written')
    BY <1>1, <1>3, <1>6
  <2> QED
    BY <2>1, <2>2, <2>3 DEF AppliedInv
<1>8. ASSUME NEW q \in Nat, Receipted(q)
      PROVE  Receipted(q)'
  <2>1. ASSUME NEW i \in q + 1 .. Len(applied')
        PROVE  applied'[i] \in receipts'
    <3>1. i \in 1 .. Len(applied')
      BY <1>6
    <3>2. CASE i \in 1 .. k
      <4>1. i \in q + 1 .. k
        BY <3>2, <1>3
      <4>2. applied[i] \in receipts
        BY <1>8, <4>1 DEF Receipted, k
      <4> QED
        BY <4>2, <3>2, <1>1, <1>6
    <3> QED
      BY <3>1, <3>2, <1>1, <1>6
  <2> QED
    BY <2>1 DEF Receipted
<1>9. PlacesInv(p, a)'
  <2>1. Receipted(p)'
    BY <1>8 DEF FilesInv, PlacesInv
  <2> QED
    BY <2>1, <1>1, <1>2, <1>3, <1>6 DEF PlacesInv
<1>10. ContentsInv(p, a)'
  <2>1. a <= k => a <= Len(applied')
    BY <1>3, <1>6
  <2> QED
    BY <2>1, <1>1 DEF FilesInv, ContentsInv, k
<1>11. UnlinkedInv(a)'
  BY <1>1, <1>8 DEF FilesInv, UnlinkedInv
<1>12. ReaderInv(p, a)'
  BY <1>1, <1>6 DEF ReaderInv, j
<1> QED
  BY <1>7, <1>9, <1>10, <1>11, <1>12 DEF FilesInv

\* The next record of the batch is the next written event.
LEMMA NextKeepsPlaces ==
    ASSUME TypeInv, BytesInv, ControlInv, BatchInv, NextEvent,
           NEW p \in Nat, NEW a \in Nat, FilesInv(p, a), ReaderInv(p, a)
    PROVE  ReaderInv(p, a)'
<1> USE DEF TypeInv, JournalType, DataType, WorkerType
<1>1. CASE ~Decodes(Block(processing, batch.offset))
  BY <1>1, Left, ReaderLeft DEF NextEvent
<1>2. CASE Decodes(Block(processing, batch.offset))
  <2>1. /\ pending' = EventOf(Block(processing, batch.offset)) /\ pc' = "claim" /\ pc = "read"
        /\ batch' = [batch EXCEPT !.offset = batch.offset + RecordSize, !.read = batch.read + 1]
        /\ UNCHANGED <<applied, written, processing>>
    BY <1>2 DEF NextEvent, database, history, journal
  <2>2. /\ batch.open /\ batch.read + 1 \in 1 .. CompleteRecords(processing)
        /\ Record(processing, batch.read + 1) = Block(processing, batch.offset)
        /\ Clean(processing, batch.read + 1)
    BY <1>2, NextBlock
  <2>3. batch'.read = batch.read + 1 /\ batch.read \in Nat
    BY <2>1 DEF Reader
  <2>4. p + batch.read <= Len(applied)
    BY <2>1, <2>2 DEF ReaderInv, ControlInv
  <2>5. /\ p + (batch.read + 1) <= a
        /\ Record(processing, batch.read + 1) = Encode(written[p + (batch.read + 1)])
    BY <2>2 DEF FilesInv, ContentsInv, Carries
  <2>6. p + (batch.read + 1) \in 1 .. Len(written)
    BY <2>3, <2>5 DEF FilesInv, PlacesInv
  <2>7. pending' = written[p + (batch.read + 1)]
    BY <2>1, <2>2, <2>5, <2>6, EventOfEncode
  <2>8. Len(applied) \in Nat
    OBVIOUS
  <2>9. written[p + (batch.read + 1)] \in EventId
    BY <2>6
  <2> QED
    <3>1. /\ batch'.read > 0 /\ p + batch'.read <= Len(applied') + 1 /\ p + batch'.read <= a
          /\ pending' = written'[p + batch'.read]
      BY ONLY <2>1, <2>3, <2>4, <2>5, <2>7, <2>8, p \in Nat, a \in Nat
    <3>2. pending' # NoEvent /\ pc' \notin {"remove", "cleanup"}
      BY ONLY <2>1, <2>7, <2>9, RingAssumption
    <3> QED
      BY ONLY <3>1, <3>2 DEF ReaderInv
<1> QED
  BY <1>1, <1>2

\* At the end of the batch all of it took effect.
LEMMA EndKeepsPlaces ==
    ASSUME TypeInv, ControlInv, BatchInv, EndOfBatch,
           NEW p \in Nat, NEW a \in Nat, FilesInv(p, a), ReaderInv(p, a)
    PROVE  ReaderInv(p, a)'
<1> USE DEF TypeInv, JournalType, DataType, WorkerType
<1>1. /\ pc = "read" /\ batch.read = batch.complete /\ batch' = NoBatch /\ pc' = "remove"
      /\ UNCHANGED <<pending, applied, processing>>
  BY DEF EndOfBatch, database, journal
<1>2. batch.open /\ pending = NoEvent
  BY <1>1 DEF ControlInv
<1>3. /\ processing.exists /\ batch.read = CompleteRecords(processing)
      /\ Clean(processing, CompleteRecords(processing))
  BY <1>1, <1>2 DEF BatchInv
<1>4. Verifies(processing)
  BY <1>3 DEF Clean, Verifies
<1>5. /\ p + CompleteRecords(processing) <= Len(applied) /\ Len(applied) <= a
      /\ p + CompleteRecords(processing) = a \/ a <= Len(applied)
  BY <1>2, <1>3, <1>4 DEF ReaderInv, FilesInv, PlacesInv, ContentsInv
<1>6. Len(applied) = a
  <2>1. Len(applied) \in Nat /\ CompleteRecords(processing) \in Nat
    BY CompleteRecordsIs
  <2> HIDE DEF TypeInv
  <2> QED
    BY <1>5, <2>1
<1> QED
  BY <1>1, <1>2, <1>4, <1>6, NoBatchType DEF ReaderInv

\* Once the batch is gone for good its receipts may go.
LEMMA CleanKeepsPlaces ==
    ASSUME TypeInv, AppliedInv, ControlInv, CleanReceipts,
           NEW p \in Nat, NEW a \in Nat, FilesInv(p, a), ReaderInv(p, a)
    PROVE  AppliedInv' /\ FilesInv(p, a)' /\ ReaderInv(p, a)'
<1> USE DEF TypeInv, DataType
<1>1. /\ pc = "cleanup" /\ pc' = "check" /\ receipts' \subseteq receipts
      /\ UNCHANGED <<active, processing, directory, applied, written, batch, pending>>
      /\ Unlinked' = Unlinked
  BY DEF CleanReceipts, journal, history, Unlinked
<1>2. ~processing.exists /\ ~Unlinked.exists /\ Len(applied) = a
  BY <1>1 DEF ControlInv, ReaderInv
<1>3. p = a /\ Len(applied) \in Nat
  BY <1>2 DEF FilesInv, PlacesInv
<1>4. AppliedInv'
  BY <1>1 DEF AppliedInv
<1>5. PlacesInv(p, a)'
  <2>1. Receipted(p)'
    BY <1>1, <1>2, <1>3 DEF Receipted
  <2> QED
    BY <1>1, <2>1 DEF FilesInv, PlacesInv
<1>6. ContentsInv(p, a)' /\ UnlinkedInv(a)'
  BY <1>1, <1>2 DEF FilesInv, ContentsInv, UnlinkedInv
<1>7. ReaderInv(p, a)'
  BY <1>1, ReaderKept
<1> QED
  BY <1>4, <1>5, <1>6, <1>7 DEF FilesInv

LEMMA FilesKept ==
    ASSUME UNCHANGED <<journal, database, written>>, AppliedInv,
           NEW p \in Nat, NEW a \in Nat, FilesInv(p, a)
    PROVE  AppliedInv' /\ FilesInv(p, a)'
<1>1. UNCHANGED <<active, processing, directory, receipts, applied, written>> /\ Unlinked' = Unlinked
  BY DEF journal, database, Unlinked
<1>2. AppliedInv'
  BY <1>1 DEF AppliedInv
<1>3. PlacesInv(p, a)'
  BY <1>1 DEF FilesInv, PlacesInv, Receipted
<1>4. ContentsInv(p, a)' /\ UnlinkedInv(a)'
  BY <1>1 DEF FilesInv, ContentsInv, UnlinkedInv, Receipted
<1> QED
  BY <1>2, <1>3, <1>4 DEF FilesInv

LEMMA PlaceInvStep ==
    ASSUME InStep, UndoesOne, TypeInv, JournalInv, [Next]_vars
    PROVE  AppliedInv' /\ PlaceInv'
<1> USE DEF JournalInv
<1>0. TypeInv' /\ Lengths /\ Len(written) <= Len(written') /\ Len(written') \in Nat
  <2>1. TypeInv'
    BY TypeInvStep
  <2> QED
    BY <2>1, LengthsAre, WrittenGrows DEF TypeInv, DataType
<1>1. PICK p \in 0 .. Len(written), a \in 0 .. Len(written) : FilesInv(p, a) /\ ReaderInv(p, a)
  BY DEF PlaceInv
<1>2. p \in Nat /\ a \in Nat /\ p \in 0 .. Len(written') /\ a \in 0 .. Len(written')
  BY <1>0, <1>1 DEF Lengths
<1>3. SUFFICES AppliedInv' /\ \E x, y \in 0 .. Len(written') : FilesInv(x, y)' /\ ReaderInv(x, y)'
  BY DEF PlaceInv
<1>4. ASSUME UNCHANGED <<database, written>> PROVE AppliedInv'
  BY <1>4 DEF AppliedInv, database
<1>5. CASE \E id \in EventId \ drawn, n \in 0 .. RecordSize : AppendStep(id, n)
  BY <1>0, <1>1, <1>2, <1>5, AppendKeepsPlaces
<1>6. CASE RenameStep
  <2>1. PICK m \in 0 .. Len(written) : m = Len(written)
    BY <1>0 DEF Lengths
  <2>2. m \in Nat /\ m \in 0 .. Len(written')
    BY <2>1, <1>0 DEF Lengths
  <2>3. FilesInv(a, m)' /\ ReaderInv(a, m)'
    BY <1>1, <1>2, <1>6, <2>1, <2>2, RenameKeepsPlaces
  <2> QED
    BY <1>2, <1>4, <1>6, <2>2, <2>3 DEF RenameStep
<1>7. CASE RemoveStep
  <2>1. FilesInv(a, a)' /\ ReaderInv(a, a)'
    BY <1>1, <1>2, <1>7, RemoveKeepsPlaces
  <2> QED
    BY <1>2, <1>4, <1>7, <2>1 DEF RemoveStep
<1>8. CASE UndoStep
  <2>1. written' = written /\ UNCHANGED database
    BY <1>8 DEF UndoStep
  <2> QED
    BY <1>1, <1>2, <1>4, <1>8, <2>1, UndoKeepsPlaces
<1>9. CASE CommitEvent
  BY <1>0, <1>1, <1>2, <1>9, CommitKeepsPlaces
<1>10. CASE CleanReceipts
  BY <1>1, <1>2, <1>10, CleanKeepsPlaces
<1>11. ASSUME UNCHANGED <<journal, database, written>>, ReaderInv(p, a)'
       PROVE  AppliedInv' /\ \E x, y \in 0 .. Len(written') : FilesInv(x, y)' /\ ReaderInv(x, y)'
  BY <1>1, <1>2, <1>11, FilesKept
<1>12. CASE DrawStep \/ UNCHANGED vars
  <2>1. UNCHANGED <<journal, database, written, worker>>
    BY <1>12 DEF DrawStep, vars, history
  <2>2. ReaderInv(p, a)'
    BY <2>1, <1>1 DEF ReaderInv, worker, journal, database
  <2> QED
    BY <1>11, <2>1, <2>2
<1>13. CASE NextEvent
  <2>1. ReaderInv(p, a)'
    BY <1>1, <1>2, <1>13, NextKeepsPlaces
  <2> QED
    BY <1>11, <1>13, <2>1 DEF NextEvent, history
<1>14. CASE EndOfBatch
  <2>1. ReaderInv(p, a)'
    BY <1>1, <1>2, <1>14, EndKeepsPlaces
  <2> QED
    BY <1>11, <1>14, <2>1 DEF EndOfBatch, history
<1>15. CASE OpenBatch
  <2>1. TruncateStep
    BY <1>15 DEF OpenBatch, TruncateStep, history
  <2>2. FilesInv(p, a)'
    BY <1>1, <1>2, <2>1, TruncateKeepsPlaces
  <2>3. batch'.read = 0 /\ pc' = "read" /\ pending' = NoEvent /\ applied' = applied
    BY <1>15 DEF OpenBatch, ControlInv, database
  <2>4. ReaderInv(p, a)'
    BY <1>1, <1>2, <2>3 DEF ReaderInv, FilesInv, PlacesInv
  <2> QED
    BY <1>2, <1>4, <2>1, <2>2, <2>4 DEF TruncateStep
<1>16. CASE OpenFails \/ RecoverQueue \/ RecoverFails
  <2>1. TruncateStep
    BY <1>16 DEF OpenFails, RecoverQueue, RecoverFails, TruncateStep, history
  <2>2. FilesInv(p, a)' /\ (Verifies(processing) <=> Verifies(processing'))
    BY <1>1, <1>2, <2>1, TruncateKeepsPlaces
  <2>3. UNCHANGED <<batch, pending, applied, written>> /\ (pc' = "check" \/ pc' = pc)
    BY <1>16 DEF OpenFails, RecoverQueue, RecoverFails, worker, database, history
  <2>4. ReaderInv(p, a)'
    BY <1>1, <2>2, <2>3 DEF ReaderInv
  <2> QED
    BY <1>2, <1>4, <2>1, <2>2, <2>4 DEF TruncateStep
<1>17. CASE /\ UNCHANGED <<journal, database, written>>
            /\ \E to \in {"hydrate", "suspended", "stopped"} : LeaveLoop(to)
  <2>1. ReaderInv(p, a)'
    BY <1>2, <1>17, Left, ReaderLeft
  <2> QED
    BY <1>11, <1>17, <2>1
<1>18. CASE /\ UNCHANGED <<journal, database, written, batch, pending>>
            /\ pc' \notin {"remove", "cleanup"}
  <2>1. UNCHANGED <<applied, written>>
    BY <1>18 DEF database
  <2>2. ReaderInv(p, a)'
    BY <1>1, <1>2, <1>18, <2>1, ReaderKept
  <2> QED
    BY <1>11, <1>18, <2>2
<1>19. CASE ReadFails
  <2>1. UNCHANGED <<journal, database, written, pending>> /\ pc' = "check"
    BY <1>19 DEF ReadFails, history
  <2>2. \E o : batch' = [batch EXCEPT !.offset = o]
    BY <1>19 DEF ReadFails
  <2>3. batch'.open = batch.open /\ batch'.read = batch.read
    BY <2>2 DEF TypeInv, WorkerType, Reader
  <2>4. ReaderInv(p, a)'
    BY <1>1, <2>1, <2>3, Zenon DEF ReaderInv, database
  <2> QED
    BY <1>11, <2>1, <2>4
<1>20. CASE \/ HydrateCaches \/ Resume \/ MatchingClaim \/ AbortEvent \/ AckCallback
            \/ CheckHealth \/ Rehydrate \/ Shutdown \/ CleanupRaises
  <2>1. UNCHANGED <<journal, database, written>>
    BY <1>20 DEF HydrateCaches, Resume, MatchingClaim, AbortEvent, AckCallback, CheckHealth,
                 Rehydrate, Shutdown, CleanupRaises, history
  <2>2. \/ \E to \in {"hydrate", "suspended", "stopped"} : LeaveLoop(to)
        \/ UNCHANGED <<batch, pending>> /\ pc' \notin {"remove", "cleanup"}
    BY <1>20 DEF HydrateCaches, Resume, MatchingClaim, AbortEvent, AckCallback, CheckHealth,
                 Rehydrate, Shutdown, CleanupRaises
  <2> QED
    BY <1>17, <1>18, <2>1, <2>2
<1>21. CASE RotateJournal \/ RotateFails
  <2>1. \/ RenameStep
        \/ UNCHANGED <<journal, database, written, batch, pending>> /\ pc' \in {"open", "check"}
    BY <1>21 DEF RotateJournal, RotateFails, RenameStep, history
  <2> QED
    BY <1>6, <1>18, <2>1
<1>22. CASE RemoveProcessing \/ RemoveFails
  <2>1. \/ RemoveStep
        \/ UNCHANGED <<journal, database, written, batch, pending>> /\ pc' = "check"
    BY <1>22 DEF RemoveProcessing, RemoveFails, RemoveStep, history
  <2> QED
    BY <1>7, <1>18, <2>1
<1>23. CASE Crash
  <2>1. UNCHANGED database /\ LeaveLoop("hydrate")
    BY <1>23 DEF Crash
  <2>2. CASE UNCHANGED <<journal, written, drawn>>
    BY <1>17, <2>1, <2>2
  <2>3. CASE /\ \E id \in EventId \ drawn, n \in FragmentLengths : AppendBytes(id, n)
             /\ UNCHANGED <<processing, directory>>
    <3>1. PICK id \in EventId \ drawn, n \in FragmentLengths : AppendBytes(id, n)
      BY <2>3
    <3>2. n \in 0 .. RecordSize /\ AppendStep(id, n)
      BY <2>1, <2>3, <3>1, FaultAssumption DEF AppendStep, NoTears, database
    <3> QED
      BY <1>5, <3>2
  <2>4. CASE /\ UnsyncedChanges \in Undone
             /\ active' = OnDisk("active") /\ processing' = OnDisk("processing")
             /\ SyncDirectory /\ UNCHANGED <<written, drawn>>
    BY <1>8, <2>1, <2>4 DEF UndoStep
  <2> QED
    BY <1>23, <2>2, <2>3, <2>4 DEF Crash
<1>24. CASE Producer
  BY <1>24, <1>5, <1>12, ProducerCases
<1> QED
  BY <1>9, <1>10, <1>12, <1>13, <1>14, <1>15, <1>16, <1>19, <1>20, <1>21, <1>22, <1>23, <1>24
     DEF Next, WorkerStep

----------------------------------------------------------------------------
(* The theorems. *)

LEMMA JournalInvInit == Init => TypeInv /\ JournalInv
<1> SUFFICES ASSUME Init PROVE TypeInv /\ JournalInv
  OBVIOUS
<1>1. /\ active = NoFile /\ processing = NoFile /\ applied = <<>> /\ written = <<>>
      /\ receipts = {} /\ drawn = {} /\ pc = "hydrate" /\ batch = NoBatch /\ pending = NoEvent
      /\ directory = [name \in {"active", "processing"} |-> Link("none")]
  BY DEF Init
<1>2. /\ directory \in [{"active", "processing"} -> DirectoryLink]
      /\ \A name \in {"active", "processing"} :
            directory[name].now = "none" /\ directory[name].removed = NoFile
      /\ Unlinked = NoFile
  BY <1>1, LinkType DEF Unlinked
<1>3. TypeInv
  BY <1>1, <1>2, NoFileType, NoBatchType DEF TypeInv, JournalType, DataType, WorkerType, PC
<1>4. Len(applied) = 0 /\ Len(written) = 0
  BY <1>1
<1>5. WrittenInv /\ AppliedInv
  BY <1>1, <1>4 DEF WrittenInv, AppliedInv
<1>6. DirectoryInv /\ BytesInv
  BY <1>1, <1>2, NoFileType, SoundNoFile DEF DirectoryInv, BytesInv
<1>7. ControlInv /\ BatchInv
  BY <1>1, NoBatchType DEF ControlInv, BatchInv
<1>8. FilesInv(0, 0)
  <2>1. PlacesInv(0, 0)
    BY <1>1, <1>4 DEF PlacesInv, Receipted
  <2>2. ContentsInv(0, 0)
    BY <1>1, <1>4, NoFileRecords, CarriesNoFile DEF ContentsInv
  <2>3. UnlinkedInv(0)
    BY <1>2, NoFileType DEF UnlinkedInv
  <2> QED
    BY <2>1, <2>2, <2>3 DEF FilesInv
<1>9. ReaderInv(0, 0)
  BY <1>1, NoBatchType DEF ReaderInv
<1>10. PlaceInv
  BY <1>4, <1>8, <1>9 DEF PlaceInv
<1> QED
  BY <1>3, <1>5, <1>6, <1>7, <1>10 DEF JournalInv

\* The inductive invariant of the journal and of its replay.
THEOREM JournalInductive ==
    ASSUME InStep, UndoesOne
    PROVE  Spec => [](TypeInv /\ JournalInv)
<1>1. TypeInv /\ JournalInv /\ [Next]_vars => TypeInv' /\ JournalInv'
  <2> SUFFICES ASSUME TypeInv, JournalInv, [Next]_vars
               PROVE  TypeInv' /\ JournalInv'
    OBVIOUS
  <2>1. TypeInv'
    BY TypeInvStep
  <2>2. WrittenInv' /\ DirectoryInv' /\ BytesInv'
    BY WrittenInvStep, DirectoryInvStep, BytesInvStep DEF JournalInv
  <2>3. ControlInv' /\ BatchInv'
    BY ControlInvStep, BatchInvStep DEF JournalInv
  <2>4. AppliedInv' /\ PlaceInv'
    BY PlaceInvStep
  <2> QED
    BY <2>1, <2>2, <2>3, <2>4 DEF JournalInv
<1> QED
  BY <1>1, JournalInvInit, PTL DEF Spec

\* Events take effect in the order in which their records were written, each once,
\* whatever crashes, retries, replays and recoveries come between: for torn appends
\* too where no record straddles the reader's buffer, and for any buffer where no
\* append is torn.
THEOREM AppliedInJournalOrderThm ==
    ASSUME InStep, UndoesOne
    PROVE  Spec => []AppliedInJournalOrder
<1>1. TypeInv /\ JournalInv => AppliedInJournalOrder
  <2> SUFFICES ASSUME TypeInv, JournalInv PROVE AppliedInJournalOrder
    OBVIOUS
  <2> DEFINE k == Len(applied)
             s == SubSeq(applied, 1, k)
             t == SubSeq(written, 1, k)
  <2>1. /\ applied \in Seq(EventId) /\ written \in Seq(EventId) /\ k \in Nat
        /\ k <= Len(written) /\ \A i \in 1 .. k : applied[i] = written[i]
    BY DEF TypeInv, DataType, JournalInv, AppliedInv
  <2>2. /\ s \in Seq(EventId) /\ Len(s) = k /\ \A i \in 1 .. k : s[i] = applied[i]
    BY <2>1
  <2>3. /\ t \in Seq(EventId) /\ Len(t) = k /\ \A i \in 1 .. k : t[i] = written[i]
    <3>1. 0 + k = k /\ 0 + 1 = 1
      BY <2>1
    <3> QED
      BY <2>1, <3>1, Slice
  <2>4. s = t
    BY <2>1, <2>2, <2>3, SeqEqual
  <2> QED
    BY <2>1, <2>4 DEF AppliedInJournalOrder, IsPrefix
<1> QED
  BY <1>1, JournalInductive, PTL

\* What a reader can get from a file that carries the events after the first b.
LEMMA ReadableIs ==
    ASSUME NEW f \in File, NEW w \in Seq(EventId), NEW b \in Nat, NEW e \in Nat, e <= Len(w),
           Carries(w, f, b, e)
    PROVE  /\ \A id \in ReadableEvents(f) : \E i \in b + 1 .. e : id = w[i]
           /\ Verifies(f) => \A i \in b + 1 .. b + CompleteRecords(f) : w[i] \in ReadableEvents(f)
<1>1. CompleteRecords(f) \in Nat
  BY CompleteRecordsIs
<1>2. ASSUME NEW n \in 1 .. CompleteRecords(f), Clean(f, n)
      PROVE  b + n \in b + 1 .. e /\ EventOf(Record(f, n)) = w[b + n]
  <2>1. b + n <= e /\ Record(f, n) = Encode(w[b + n])
    BY <1>2 DEF Carries
  <2>2. b + n \in b + 1 .. e /\ b + n \in 1 .. Len(w)
    BY <2>1, <1>1
  <2>3. w[b + n] \in EventId
    BY <2>2
  <2> QED
    BY <2>1, <2>2, <2>3, EventOfEncode
<1>3. ASSUME NEW id \in ReadableEvents(f)
      PROVE  \E i \in b + 1 .. e : id = w[i]
  <2>1. PICK n \in 1 .. CompleteRecords(f) : Clean(f, n) /\ id = EventOf(Record(f, n))
    BY <1>3 DEF ReadableEvents, Clean
  <2> QED
    BY <2>1, <1>2
<1>4. ASSUME Verifies(f), NEW i \in b + 1 .. b + CompleteRecords(f)
      PROVE  w[i] \in ReadableEvents(f)
  <2>1. i - b \in 1 .. CompleteRecords(f) /\ b + (i - b) = i
    BY <1>1, <1>4
  <2>2. Clean(f, i - b)
    BY <1>1, <1>4, <2>1, VerifiesIsClean
  <2>3. EventOf(Record(f, i - b)) = w[i]
    BY <2>1, <2>2, <1>2
  <2> QED
    BY <2>1, <2>2, <2>3 DEF ReadableEvents, Clean
<1> QED
  BY <1>3, <1>4

\* An event that took effect and that a replay can read again has its receipt, so
\* that no replay counts a login twice: also after a crash of the machine that brought
\* back a removed batch or undid a rotation.
THEOREM ReplayHasReceiptThm ==
    ASSUME InStep, UndoesOne
    PROVE  Spec => []ReplayHasReceipt
<1>1. TypeInv /\ JournalInv => ReplayHasReceipt
  <2> SUFFICES ASSUME TypeInv, JournalInv,
                      NEW id \in ReadableEvents(processing) \cup ReadableEvents(active),
                      id \in ToSet(applied)
               PROVE  id \in receipts
    BY DEF ReplayHasReceipt
  <2>0. /\ active \in File /\ processing \in File /\ applied \in Seq(EventId)
        /\ written \in Seq(EventId)
    BY DEF TypeInv, JournalType, DataType
  <2>1. PICK p \in 0 .. Len(written), a \in 0 .. Len(written) : FilesInv(p, a)
    BY DEF JournalInv, PlaceInv
  <2>2. /\ p \in Nat /\ a \in Nat /\ p <= a /\ a <= Len(written) /\ Receipted(p)
        /\ Carries(written, processing, p, a) /\ Carries(written, active, a, Len(written))
    BY <2>0, <2>1 DEF FilesInv, PlacesInv, ContentsInv
  <2>3. PICK i \in 1 .. Len(applied) : applied[i] = id
    BY <2>0 DEF ToSet
  <2>4. \E j \in p + 1 .. Len(written) : id = written[j]
    <3>1. CASE id \in ReadableEvents(processing)
      <4>1. \E j \in p + 1 .. a : id = written[j]
        BY <2>0, <2>2, <3>1, ReadableIs
      <4> QED
        BY <4>1, <2>0, <2>2
    <3>2. CASE id \in ReadableEvents(active)
      <4>1. \E j \in a + 1 .. Len(written) : id = written[j]
        BY <2>0, <2>2, <3>2, ReadableIs
      <4> QED
        BY <4>1, <2>0, <2>2
    <3> QED
      BY <3>1, <3>2
  <2>5. PICK j \in p + 1 .. Len(written) : id = written[j]
    BY <2>4
  <2>6. i \in 1 .. Len(written) /\ written[i] = id /\ j \in 1 .. Len(written)
    BY <2>0, <2>2, <2>3, <2>5 DEF JournalInv, AppliedInv
  <2>7. i = j
    BY <2>5, <2>6 DEF JournalInv, WrittenInv
  <2>8. i \in p + 1 .. Len(applied)
    BY <2>0, <2>2, <2>3, <2>5, <2>7
  <2> QED
    BY <2>2, <2>3, <2>8 DEF Receipted
<1> QED
  BY <1>1, JournalInductive, PTL

\* A batch disappears only when each of its records took effect, or to become the
\* active file again.
THEOREM RemovedWhenAppliedThm ==
    ASSUME InStep, UndoesOne
    PROVE  Spec => RemovedWhenApplied
<1> DEFINE Kept == processing.exists /\ ~processing'.exists =>
                      \/ ReadableEvents(processing) \subseteq ToSet(applied)
                      \/ active' = processing
<1>1. TypeInv /\ JournalInv /\ [Next]_vars => [Kept]_vars
  <2> SUFFICES ASSUME TypeInv, JournalInv, [Next]_vars, processing.exists, ~processing'.exists
               PROVE  \/ ReadableEvents(processing) \subseteq ToSet(applied)
                      \/ active' = processing
    OBVIOUS
  <2> USE DEF TypeInv, JournalType, DataType
  <2>1. RemoveStep \/ UndoStep
    <3>1. ~RenameStep
      BY DEF RenameStep, CanRename
    <3>2. ~TruncateStep
      BY TruncatedIs DEF TruncateStep
    <3> QED
      BY <3>1, <3>2, JournalCases DEF AppendStep, DrawStep, journal
  <2>2. CASE UndoStep
    <3>1. Unlinked.exists => ~(~processing.exists)
      OBVIOUS
    <3> QED
      BY <2>2, <3>1, UndoCases DEF JournalInv
  <2>3. CASE RemoveStep
    <3>1. PICK p \in 0 .. Len(written), a \in 0 .. Len(written) : FilesInv(p, a) /\ ReaderInv(p, a)
      BY DEF JournalInv, PlaceInv
    <3>2. /\ p \in Nat /\ a \in Nat /\ a <= Len(written) /\ Len(applied) = a
          /\ Carries(written, processing, p, a)
      BY <2>3, <3>1 DEF FilesInv, PlacesInv, ContentsInv, ReaderInv, RemoveStep
    <3>3. ASSUME NEW id \in ReadableEvents(processing)
          PROVE  id \in ToSet(applied)
      <4>1. PICK i \in p + 1 .. a : id = written[i]
        BY <3>2, <3>3, ReadableIs
      <4>2. i \in 1 .. Len(applied) /\ applied[i] = id
        BY <3>2, <4>1 DEF JournalInv, AppliedInv
      <4> QED
        BY <4>2 DEF ToSet
    <3> QED
      BY <3>3
  <2> QED
    BY <2>1, <2>2, <2>3
<1> QED
  BY <1>1, JournalInductive, PTL DEF Spec, RemovedWhenApplied

LEMMA DurableStep ==
    ASSUME TypeInv, durable \subseteq ToSet(written), [Next]_vars
    PROVE  durable' \subseteq ToSet(written')
<1> USE DEF TypeInv, DataType
<1>0. written \in Seq(EventId) /\ written' \in Seq(EventId)
  BY JournalTypeStep
<1>1. ToSet(written) \subseteq ToSet(written')
  BY <1>0, WrittenGrows DEF ToSet
<1>2. CASE Enqueue
  <2>1. PICK id \in EventId \ drawn : AppendBytes(id, RecordSize) /\ durable' \subseteq durable \cup {id}
    BY <1>2 DEF Enqueue
  <2>2. written' = written \o <<id>>
    BY <2>1 DEF AppendBytes
  <2>3. id \in ToSet(written')
    <3>1. Len(written) + 1 \in DOMAIN written' /\ written'[Len(written) + 1] = id
      BY <1>0, <2>2
    <3> QED
      BY <3>1 DEF ToSet
  <2> QED
    BY <1>1, <2>1, <2>3
<1>3. CASE durable' = durable
  BY <1>1, <1>3
<1> QED
  BY <1>2, <1>3
     DEF Next, Producer, WorkerStep, vars, history, EnqueueFails, HydrateCaches, CheckHealth,
         Resume, RotateJournal, RotateFails, OpenBatch, OpenFails, NextEvent, ReadFails,
         EndOfBatch, RemoveProcessing, RemoveFails, CleanReceipts, MatchingClaim, CommitEvent,
         AbortEvent, AckCallback, Rehydrate, Shutdown, CleanupRaises, RecoverQueue, RecoverFails, Crash

\* An event reported durable took effect or can be read from a journal file, where
\* no append is torn.
THEOREM DurableIsKeptThm ==
    ASSUME NoTears, UndoesOne
    PROVE  Spec => []DurableIsKept
<1>1. TypeInv /\ JournalInv /\ durable \subseteq ToSet(written) => DurableIsKept
  <2> SUFFICES ASSUME TypeInv, JournalInv, NEW id \in ToSet(written)
               PROVE  id \in ToSet(applied) \cup ReadableEvents(processing) \cup ReadableEvents(active)
    BY DEF DurableIsKept
  <2>0. /\ active \in File /\ processing \in File /\ applied \in Seq(EventId)
        /\ written \in Seq(EventId) /\ Len(applied) \in Nat /\ Len(written) \in Nat
    BY DEF TypeInv, JournalType, DataType
  <2>1. Verifies(processing) /\ Verifies(active)
    BY DEF JournalInv, BytesInv, Sound
  <2>2. PICK p \in 0 .. Len(written), a \in 0 .. Len(written) : FilesInv(p, a)
    BY DEF JournalInv, PlaceInv
  <2>3. /\ p \in Nat /\ a \in Nat /\ p <= a /\ a <= Len(written) /\ p <= Len(applied)
        /\ Carries(written, processing, p, a) /\ Carries(written, active, a, Len(written))
        /\ a + CompleteRecords(active) = Len(written)
        /\ p + CompleteRecords(processing) = a \/ a <= Len(applied)
    BY <2>0, <2>1, <2>2 DEF FilesInv, PlacesInv, ContentsInv
  <2>4. PICK i \in 1 .. Len(written) : written[i] = id
    BY <2>0 DEF ToSet
  <2>5. CASE i <= Len(applied)
    <3>1. i \in 1 .. Len(applied) /\ applied[i] = id
      BY <2>0, <2>4, <2>5 DEF JournalInv, AppliedInv
    <3> QED
      BY <2>0, <3>1 DEF ToSet
  <2>6. CASE i > Len(applied) /\ i <= a
    <3>1. i \in p + 1 .. p + CompleteRecords(processing)
      BY <2>0, <2>3, <2>4, <2>6
    <3> QED
      BY <2>0, <2>1, <2>3, <2>4, <3>1, ReadableIs
  <2>7. CASE i > a
    <3>1. i \in a + 1 .. a + CompleteRecords(active)
      BY <2>0, <2>3, <2>4, <2>7
    <3> QED
      BY <2>0, <2>1, <2>3, <2>4, <3>1, ReadableIs
  <2> QED
    BY <2>0, <2>3, <2>4, <2>5, <2>6, <2>7
<1>2. Init => durable \subseteq ToSet(written)
  BY DEF Init
<1>3. TypeInv /\ durable \subseteq ToSet(written) /\ [Next]_vars => (durable \subseteq ToSet(written))'
  BY DurableStep
<1>4. Spec => [](TypeInv /\ JournalInv)
  BY JournalInductive DEF InStep
<1> QED
  BY <1>1, <1>2, <1>3, <1>4, PTL DEF Spec

----------------------------------------------------------------------------
(* The pipeline uses the ring as AuthEventQueue does.  This needs none of the *)
(* hypotheses above.                                                          *)

\* Where the worker has a batch, an event and a token.
PositionInv ==
    /\ pc \in {"hydrate", "rotate", "open", "remove", "cleanup", "suspended", "stopped"} =>
          ~batch.open
    /\ pc \in {"read", "claim", "txn", "ack"} => batch.open
    /\ pc \in {"read", "ack"} => pending = NoEvent
    /\ ~batch.open => pending = NoEvent
    /\ token # NoToken => pc \in {"txn", "ack"}
    /\ pc = "ack" => token # NoToken

\* The open batch has no incomplete tail, and the pending event is the last one read.
ReadInv ==
    /\ batch.open => Len(processing.bytes) = CompleteRecords(processing) * RecordSize
    /\ pending # NoEvent => pending = EventOf(Block(processing, batch.offset - RecordSize))

LEMMA LeftPosition ==
    ASSUME NEW to \in {"hydrate", "suspended", "stopped"}, LeaveLoop(to), token' = NoToken
    PROVE  PositionInv' /\ ReadInv' /\ ~batch'.open
BY NoBatchType DEF LeaveLoop, PositionInv, ReadInv

LEMMA PositionInvStep ==
    ASSUME TypeInv, PositionInv, [Next]_vars
    PROVE  PositionInv'
<1> USE DEF TypeInv, JournalType, WorkerType
<1>0. batch \in Reader /\ batch.open \in BOOLEAN
  BY DEF Reader
<1>1. CASE UNCHANGED worker
  BY <1>1, Zenon DEF PositionInv, worker
<1>2. CASE Rehydrate \/ Shutdown \/ CleanupRaises
  <2>1. token = NoToken /\ token' = token
    BY <1>2 DEF Rehydrate, Shutdown, CleanupRaises, PositionInv
  <2> QED
    BY <1>2, <2>1, LeftPosition DEF Rehydrate, Shutdown, CleanupRaises
<1>3. CASE Crash
  BY <1>3, LeftPosition DEF Crash
<1>4. CASE HydrateCaches \/ Resume
  BY <1>4, Zenon DEF HydrateCaches, Resume, PositionInv
<1>5. CASE CheckHealth
  <2>1. \/ LeaveLoop("suspended")
        \/ /\ UNCHANGED <<batch, pending>>
           /\ \/ pc' = "rotate" /\ ~batch.open
              \/ pc' = "read" /\ batch.open /\ pending = NoEvent
              \/ pc' = "claim" /\ batch.open /\ pending # NoEvent
    BY <1>0, <1>5 DEF CheckHealth
  <2>2. token = NoToken /\ token' = NoToken
    BY <1>5 DEF CheckHealth, PositionInv
  <2> QED
    BY <2>1, <2>2, LeftPosition, Zenon DEF PositionInv
<1>6. CASE RotateJournal \/ RotateFails
  <2>1. UNCHANGED <<batch, pending, token>> /\ ~batch.open /\ pending = NoEvent /\ token = NoToken
    BY <1>6 DEF RotateJournal, RotateFails, PositionInv
  <2>2. pc' \in {"check", "open"}
    BY <1>6 DEF RotateJournal, RotateFails
  <2> QED
    BY <2>1, <2>2, Zenon DEF PositionInv
<1>7. CASE OpenBatch
  <2>1. /\ batch'.open /\ pc' = "read" /\ pending' = pending /\ pending = NoEvent
        /\ token' = token /\ token = NoToken
    BY <1>7 DEF OpenBatch, PositionInv
  <2> QED
    BY <2>1, Zenon DEF PositionInv
<1>8. CASE OpenFails \/ RemoveProcessing \/ RemoveFails \/ CleanReceipts
  <2>1. /\ pc \in {"open", "remove", "cleanup"} /\ pc' \in {"check", "cleanup"}
        /\ UNCHANGED <<batch, pending, token>>
    BY <1>8 DEF OpenFails, RemoveProcessing, RemoveFails, CleanReceipts
  <2> QED
    BY <2>1, Zenon DEF PositionInv
<1>9. CASE NextEvent
  <2>0. token = NoToken /\ token' = NoToken /\ batch.open
    BY <1>9 DEF NextEvent, PositionInv
  <2>1. CASE ~Decodes(Block(processing, batch.offset))
    BY <1>9, <2>0, <2>1, LeftPosition DEF NextEvent
  <2>2. CASE Decodes(Block(processing, batch.offset))
    <3>1. /\ pc' = "claim" /\ batch'.open = batch.open
      BY <1>9, <2>2, <1>0 DEF NextEvent, Reader
    <3> QED
      BY <2>0, <3>1, Zenon DEF PositionInv
  <2> QED
    BY <2>1, <2>2
<1>10. CASE ReadFails
  <2>1. pc = "read" /\ pc' = "check" /\ pending' = pending /\ token' = token
    BY <1>10 DEF ReadFails
  <2>2. \E o : batch' = [batch EXCEPT !.offset = o]
    BY <1>10 DEF ReadFails
  <2>3. batch'.open = batch.open
    BY <2>2 DEF Reader
  <2> QED
    BY <2>1, <2>3, Zenon DEF PositionInv
<1>11. CASE EndOfBatch
  <2>1. pc = "read" /\ pc' = "remove" /\ pending' = pending /\ ~batch'.open /\ token' = token
    BY <1>11, NoBatchType DEF EndOfBatch
  <2> QED
    BY <2>1, Zenon DEF PositionInv
<1>12. CASE MatchingClaim
  <2>1. pc = "claim" /\ pc' = "txn" /\ UNCHANGED <<batch, pending>>
    BY <1>12 DEF MatchingClaim
  <2> QED
    BY <2>1, Zenon DEF PositionInv
<1>13. CASE CommitEvent
  <2>1. /\ pc = "txn" /\ pending' = NoEvent /\ batch' = batch /\ token' = token
        /\ \/ pc' = "check" /\ token = NoToken
           \/ pc' = "ack" /\ token # NoToken
    BY <1>13 DEF CommitEvent
  <2> QED
    BY <2>1, Zenon DEF PositionInv
<1>14. CASE AbortEvent \/ AckCallback
  <2>1. /\ pc \in {"txn", "ack"} /\ pc' = "check" /\ UNCHANGED <<batch, pending>>
        /\ token' = NoToken
    BY <1>14 DEF AbortEvent, AckCallback
  <2> QED
    BY <2>1, Zenon DEF PositionInv
<1>15. CASE Enqueue \/ EnqueueFails \/ RecoverQueue \/ RecoverFails \/ UNCHANGED vars
  BY <1>15, <1>1 DEF Enqueue, EnqueueFails, RecoverQueue, RecoverFails, vars
<1> QED
  BY <1>2, <1>3, <1>4, <1>5, <1>6, <1>7, <1>8, <1>9, <1>10, <1>11, <1>12, <1>13, <1>14, <1>15
     DEF Next, Producer, WorkerStep

\* While a batch stays open its file stays as it is.
LEMMA BatchFileKept ==
    ASSUME TypeInv, PositionInv, ReadInv, [Next]_vars, batch.open, batch'.open
    PROVE  processing' = processing
<1> USE DEF TypeInv, JournalType, WorkerType
<1>1. Truncated(processing) = processing
  BY TruncatedWhole DEF ReadInv
<1>2. pc \notin {"rotate", "open", "remove"}
  BY DEF PositionInv
<1>3. ~LeaveLoop("hydrate")
  BY NoBatchType DEF LeaveLoop
<1> QED
  BY <1>1, <1>2, <1>3
     DEF Next, Producer, WorkerStep, vars, journal, Enqueue, EnqueueFails, HydrateCaches,
         CheckHealth, Resume, RotateJournal, RotateFails, OpenBatch, OpenFails, NextEvent,
         ReadFails, EndOfBatch, RemoveProcessing, RemoveFails, CleanReceipts, MatchingClaim,
         CommitEvent, AbortEvent, AckCallback, Rehydrate, Shutdown, CleanupRaises,
         RecoverQueue, RecoverFails, Crash

\* A batch is opened by OpenBatch only.
LEMMA BatchOpens ==
    ASSUME TypeInv, PositionInv, [Next]_vars, ~batch.open, batch'.open
    PROVE  OpenBatch
<1> USE DEF TypeInv, WorkerType
<1>1. pc \notin {"read", "claim", "txn", "ack"}
  BY DEF PositionInv
<1>2. ~LeaveLoop("hydrate") /\ ~LeaveLoop("stopped") /\ ~LeaveLoop("suspended")
  BY NoBatchType DEF LeaveLoop
<1> QED
  BY <1>1, <1>2
     DEF Next, Producer, WorkerStep, vars, worker, Enqueue, EnqueueFails, HydrateCaches,
         CheckHealth, Resume, RotateJournal, RotateFails, OpenFails, NextEvent,
         ReadFails, EndOfBatch, RemoveProcessing, RemoveFails, CleanReceipts, MatchingClaim,
         CommitEvent, AbortEvent, AckCallback, Rehydrate, Shutdown, CleanupRaises,
         RecoverQueue, RecoverFails, Crash

\* The pending event is kept with the reader, or was read just now.
LEMMA PendingFrom ==
    ASSUME TypeInv, PositionInv, [Next]_vars, pending' # NoEvent
    PROVE  \/ pending' = pending /\ batch' = batch
           \/ /\ pending' = EventOf(Block(processing, batch.offset))
              /\ batch'.offset = batch.offset + RecordSize /\ NextEvent
<1> USE DEF TypeInv, WorkerType
<1>1. pc \notin {"read", "open", "ack"} \/ pending = NoEvent
  BY DEF PositionInv
<1>2. ~LeaveLoop("hydrate") /\ ~LeaveLoop("stopped") /\ ~LeaveLoop("suspended")
  BY DEF LeaveLoop
<1>3. CASE NextEvent
  BY <1>2, <1>3 DEF NextEvent, Reader
<1>4. CASE ~NextEvent
  BY <1>1, <1>2, <1>4
     DEF Next, Producer, WorkerStep, vars, worker, Enqueue, EnqueueFails, HydrateCaches,
         CheckHealth, Resume, RotateJournal, RotateFails, OpenBatch, OpenFails,
         ReadFails, EndOfBatch, RemoveProcessing, RemoveFails, CleanReceipts, MatchingClaim,
         CommitEvent, AbortEvent, AckCallback, Rehydrate, Shutdown, CleanupRaises,
         RecoverQueue, RecoverFails, Crash
<1> QED
  BY <1>3, <1>4

LEMMA ReadInvStep ==
    ASSUME TypeInv, PositionInv, PositionInv', ReadInv, [Next]_vars
    PROVE  ReadInv'
<1> USE DEF TypeInv, JournalType, WorkerType
<1>1. CASE ~batch'.open
  BY <1>1 DEF PositionInv, ReadInv
<1>2. CASE batch'.open /\ ~batch.open
  <2>1. OpenBatch /\ pending' = pending /\ pending = NoEvent
    BY <1>2, BatchOpens DEF PositionInv, OpenBatch
  <2>2. processing' = Truncated(processing)
    BY <2>1 DEF OpenBatch
  <2> QED
    BY <2>1, <2>2, TruncatedIs DEF ReadInv
<1>3. CASE batch'.open /\ batch.open
  <2>1. processing' = processing
    BY <1>3, BatchFileKept
  <2>2. ASSUME pending' # NoEvent
        PROVE  pending' = EventOf(Block(processing, batch'.offset - RecordSize))
    <3>1. CASE pending' = pending /\ batch' = batch
      BY <2>2, <3>1 DEF ReadInv
    <3>2. CASE /\ pending' = EventOf(Block(processing, batch.offset))
               /\ batch'.offset = batch.offset + RecordSize
      <4>1. batch'.offset - RecordSize = batch.offset
        BY <3>2, RecordAssumption DEF Reader
      <4> QED
        BY <3>2, <4>1
    <3> QED
      BY <2>2, <3>1, <3>2, PendingFrom
  <2> QED
    BY <1>3, <2>1, <2>2 DEF ReadInv
<1> QED
  BY <1>1, <1>2, <1>3

\* The theorems of the ring, for the ring of the pipeline.
QP == INSTANCE AuthEventQueueProofs WITH held <- HeldClaim, phase <- WorkerPhase

\* Its operators are those of the pipeline.
LEMMA SameReading ==
    ASSUME NEW r
    PROVE  /\ QP!Depth(r) = Depth(r) /\ QP!IndicesValid(r) = IndicesValid(r)
           /\ \A i : QP!Entry(r, i) = Entry(r, i)
           /\ QP!Contents(r) = Contents(r) /\ QP!LiveIds(r) = LiveIds(r)
           /\ QP!TailToken(r) = TailToken(r)
           /\ \A id : QP!CanClaim(r, id) = CanClaim(r, id)
           /\ \A t : QP!TokenMatches(r, t) = TokenMatches(r, t)
<1>1. QP!IndicesValid(r) = IndicesValid(r)
  BY DEF QP!IndicesValid, IndicesValid
<1>2. QP!Depth(r) = Depth(r)
  BY <1>1 DEF QP!Depth, Depth
<1>3. \A i : QP!Entry(r, i) = Entry(r, i)
  BY DEF QP!Entry, Entry, QP!SlotOf, SlotOf
<1>4. QP!Contents(r) = Contents(r) /\ QP!LiveIds(r) = LiveIds(r)
  BY <1>2, <1>3 DEF QP!Contents, Contents, QP!LiveIds, LiveIds
<1>5. QP!TailToken(r) = TailToken(r)
  BY DEF QP!TailToken, TailToken
<1>6. \A id : QP!CanClaim(r, id) = CanClaim(r, id)
  BY <1>1 DEF QP!CanClaim, CanClaim, QP!Empty, Empty
<1>7. \A t : QP!TokenMatches(r, t) = TokenMatches(r, t)
  BY DEF QP!TokenMatches, TokenMatches, QP!Empty, Empty
<1> QED
  BY <1>1, <1>2, <1>3, <1>4, <1>5, <1>6, <1>7

LEMMA SameOperations ==
    /\ QP!NewRing = NewRing
    /\ \A r, id, appended : QP!EnqueueEncoded(r, id, appended) = EnqueueEncoded(r, id, appended)
    /\ \A r, t : QP!AckClaim(r, t) = AckClaim(r, t)
    /\ \A r : QP!Claimed(r) = Claimed(r)
    /\ \A r, s : QP!DegradeTo(r, s) = DegradeTo(r, s)
<1> USE DEF QP!DegradeTo, DegradeTo, QP!IndicesValid, IndicesValid, QP!SaturatingInc, SaturatingInc,
            QP!Advance, Advance
<1>1. QP!NewRing = NewRing
  BY DEF QP!NewRing, NewRing, QP!Slot, Slot
<1>2. \A r, id, appended : QP!EnqueueEncoded(r, id, appended) = EnqueueEncoded(r, id, appended)
  BY DEF QP!EnqueueEncoded, EnqueueEncoded, QP!TryEnqueue, TryEnqueue, QP!Full, Full,
         QP!Publish, Publish
<1>3. \A r, t : QP!AckClaim(r, t) = AckClaim(r, t)
  BY DEF QP!AckClaim, AckClaim, QP!Ack, Ack, QP!TokenMatches, TokenMatches, QP!Empty, Empty,
         QP!Removed, Removed
<1>4. \A r : QP!Claimed(r) = Claimed(r)
  BY DEF QP!Claimed, Claimed
<1> QED
  BY <1>1, <1>2, <1>3, <1>4

\* The state of the queue that a state of the worker stands for.
LEMMA MappedState ==
    /\ token = NoToken => HeldClaim = QP!NoClaim
    /\ token # NoToken => WorkerPhase = "claimed"
    /\ token = NoToken /\ pc \in {"rotate", "open", "read", "remove", "cleanup", "claim"} =>
          WorkerPhase = "reading"
    /\ token = NoToken /\ pc \notin {"rotate", "open", "read", "remove", "cleanup", "claim"} =>
          WorkerPhase = "check"
BY DEF HeldClaim, WorkerPhase, QP!NoClaim, NoToken

LEMMA ClaimedKept ==
    ASSUME TypeInv, PositionInv, ReadInv, [Next]_vars, token' = token, batch' = batch
    PROVE  HeldClaim' = HeldClaim
<1>1. CASE token = NoToken
  BY <1>1 DEF HeldClaim
<1>2. CASE token # NoToken
  <2>1. processing' = processing
    BY <1>2, BatchFileKept DEF PositionInv
  <2> QED
    BY <2>1 DEF HeldClaim
<1> QED
  BY <1>1, <1>2

\* Nothing of the queue changes where the ring, the claim and the phase stay.
LEMMA QueueStutters ==
    ASSUME ring' = ring, HeldClaim' = HeldClaim, WorkerPhase' = WorkerPhase
    PROVE  [QP!Next]_(QP!vars)
BY DEF QP!vars

\* The identifiers in the ring and the claimed one were drawn.
QueueInv ==
    /\ QP!IndInv
    /\ LiveIds(ring) \subseteq drawn
    /\ token # NoToken => HeldClaim.event_id \in drawn

LEMMA ProducerMaps ==
    ASSUME TypeInv, PositionInv, ReadInv, QueueInv, Enqueue \/ EnqueueFails
    PROVE  QP!Next
<1>1. PICK id \in EventId \ drawn, appended \in BOOLEAN :
          ring' = EnqueueEncoded(ring, id, appended).ring
  BY DEF Enqueue, EnqueueFails
<1>2. UNCHANGED worker /\ processing' = processing
  BY DEF Enqueue, EnqueueFails
<1>3. HeldClaim' = HeldClaim /\ WorkerPhase' = WorkerPhase
  BY <1>2 DEF HeldClaim, WorkerPhase, worker
<1>4. id \notin QP!LiveIds(ring) \cup {HeldClaim.event_id}
  <2>1. id \notin LiveIds(ring)
    BY <1>1 DEF QueueInv
  <2>2. id # HeldClaim.event_id
    BY <1>1, RingAssumption DEF QueueInv, HeldClaim
  <2> QED
    BY <2>1, <2>2, SameReading
<1>5. ring' = QP!EnqueueEncoded(ring, id, appended).ring
  BY <1>1, SameOperations
<1> QED
  BY <1>1, <1>3, <1>4, <1>5 DEF QP!Next, QP!Enqueue

\* A worker that leaves its batch, or goes on without a claim, has only read.
LEMMA ReadingMaps ==
    ASSUME QP!IndInv, ring' = ring, token = NoToken, token' = NoToken,
           pc \in {"rotate", "open", "read", "remove", "cleanup", "claim"}
    PROVE  [QP!Next]_(QP!vars)
<1>1. HeldClaim = QP!NoClaim /\ HeldClaim' = QP!NoClaim /\ WorkerPhase = "reading"
  BY MappedState DEF HeldClaim, QP!NoClaim, NoToken
<1>2. CASE WorkerPhase' = "reading"
  BY <1>1, <1>2, QueueStutters
<1>3. CASE WorkerPhase' = "check"
  <2>1. QP!IndicesValid(ring)
    BY QP!DepthIsDist, RingAssumption DEF QP!IndInv, QP!RingOK, QP!Ring
  <2>2. ring' = QP!Claimed(ring)
    BY <2>1 DEF QP!Claimed
  <2> QED
    BY <1>1, <1>3, <2>2 DEF QP!Next, QP!DurableOnlyEvent
<1> QED
  BY <1>2, <1>3 DEF WorkerPhase

LEMMA ClaimMaps ==
    ASSUME TypeInv, PositionInv, ReadInv, QueueInv, MatchingClaim
    PROVE  [QP!Next]_(QP!vars)
<1> USE DEF TypeInv, WorkerType
<1>1. /\ pc = "claim" /\ pc' = "txn" /\ ring' = Claimed(ring) /\ token = NoToken
      /\ UNCHANGED <<processing, batch, pending>> /\ pending # NoEvent
      /\ token' = IF CanClaim(ring, pending) THEN TailToken(ring) ELSE NoToken
  BY DEF MatchingClaim, PositionInv, journal
<1>2. QP!IndicesValid(ring) /\ QP!IndInv
  BY QP!DepthIsDist, RingAssumption DEF QueueInv, QP!IndInv, QP!RingOK, QP!Ring
<1>3. ring' = ring /\ ring' = QP!Claimed(ring)
  BY <1>1, <1>2, SameOperations DEF QP!Claimed
<1>4. CASE ~CanClaim(ring, pending)
  BY <1>1, <1>2, <1>3, <1>4, ReadingMaps
<1>5. CASE CanClaim(ring, pending)
  <2>1. token' = TailToken(ring) /\ TailToken(ring) = QP!TailToken(ring)
    BY <1>1, <1>5, SameReading
  <2>2. QP!CanClaim(ring, pending)
    BY <1>5, SameReading
  <2>3. QP!Depth(ring) > 0
    BY <1>2, <2>2, QP!DepthIsDist, RingAssumption DEF QP!CanClaim, QP!IndInv, QP!RingOK, QP!Ring
  <2>4. TailToken(ring) # NoToken
    <3>1. QP!RingOK(ring)
      BY <1>2 DEF QP!IndInv
    <3>2. ring.events[ring.tail].seq = ring.acknowledged + 1 /\ ring.acknowledged \in Nat
      BY <2>3, <3>1, QP!TailEntry, RingAssumption DEF QP!RingOK, QP!Ring, QP!Counter
    <3> QED
      BY <3>2 DEF TailToken, NoToken
  <2>5. HeldClaim' = [token |-> QP!TailToken(ring), event_id |-> pending]
    <3>1. pending = EventOf(Block(processing, batch.offset - RecordSize))
      BY <1>1 DEF ReadInv
    <3> QED
      BY <1>1, <2>1, <2>4, <3>1 DEF HeldClaim
  <2>6. WorkerPhase' = "claimed" /\ WorkerPhase = "reading" /\ pending \in EventId
    BY <1>1, <2>1, <2>4 DEF WorkerPhase
  <2> QED
    BY <1>3, <2>2, <2>5, <2>6 DEF QP!Next, QP!MatchingClaim
<1> QED
  BY <1>4, <1>5

LEMMA StepMaps ==
    ASSUME TypeInv, PositionInv, ReadInv, QueueInv, [Next]_vars
    PROVE  [QP!Next]_(QP!vars)
<1> USE DEF TypeInv, JournalType, WorkerType
<1> DEFINE Reading == {"rotate", "open", "read", "remove", "cleanup", "claim"}
<1>0. QP!IndInv
  BY DEF QueueInv
<1>1. CASE Enqueue \/ EnqueueFails
  BY <1>1, ProducerMaps
<1>2. CASE UNCHANGED vars
  BY <1>2, QueueStutters DEF vars, journal, worker, HeldClaim, WorkerPhase
<1>3. CASE RecoverQueue \/ RecoverFails
  <2>1. UNCHANGED worker /\ ring.state = "Corrupt" /\ (ring' = ring \/ ring' = NewRing)
    BY <1>3 DEF RecoverQueue, RecoverFails
  <2>2. HeldClaim' = HeldClaim /\ WorkerPhase' = WorkerPhase
    BY <1>3, <2>1, ClaimedKept DEF worker, WorkerPhase, Next
  <2>3. CASE ring' = NewRing
    BY <2>1, <2>2, <2>3, SameOperations DEF QP!Next, QP!RecoverCorruptRing
  <2> QED
    BY <2>1, <2>2, <2>3, QueueStutters
<1>4. CASE Crash
  <2>1. ring' = QP!NewRing /\ token' = NoToken /\ pc' = "hydrate"
    BY <1>4, SameOperations DEF Crash, LeaveLoop
  <2>2. HeldClaim' = QP!NoClaim /\ WorkerPhase' = "check"
    BY <2>1 DEF HeldClaim, WorkerPhase, QP!NoClaim, NoToken
  <2> QED
    BY <2>1, <2>2 DEF QP!Next, QP!Restart
<1>5. CASE HydrateCaches \/ Resume \/ Rehydrate \/ Shutdown
  <2>1. /\ pc \notin Reading \cup {"txn", "ack"} /\ pc' \notin Reading
        /\ ring' = ring /\ token' = token
    BY <1>5 DEF HydrateCaches, Resume, Rehydrate, Shutdown, LeaveLoop
  <2>2. token = NoToken
    BY <2>1 DEF PositionInv
  <2> QED
    BY <2>1, <2>2, QueueStutters DEF HeldClaim, WorkerPhase
<1>6. CASE CheckHealth
  <2>1. /\ pc = "check" /\ ring' = ring /\ token' = token /\ token = NoToken
        /\ \/ pc' = "suspended"
           \/ ring.state # "Corrupt" /\ pc' \in {"rotate", "read", "claim"}
    BY <1>6 DEF CheckHealth, PositionInv, LeaveLoop
  <2>2. HeldClaim' = HeldClaim /\ WorkerPhase = "check"
    BY <2>1 DEF HeldClaim, WorkerPhase
  <2>3. CASE pc' = "suspended"
    BY <2>1, <2>2, <2>3, QueueStutters DEF WorkerPhase
  <2>4. CASE ring.state # "Corrupt" /\ pc' \in {"rotate", "read", "claim"}
    <3>1. WorkerPhase' = "reading"
      BY <2>1, <2>4 DEF WorkerPhase
    <3> QED
      BY <2>1, <2>2, <2>4, <3>1 DEF QP!Next, QP!CheckHealth
  <2> QED
    BY <2>1, <2>3, <2>4
<1>7. CASE \/ RotateJournal \/ RotateFails \/ OpenBatch \/ OpenFails \/ ReadFails \/ EndOfBatch
           \/ RemoveProcessing \/ RemoveFails \/ CleanReceipts \/ CleanupRaises
  <2>1. pc \in {"rotate", "open", "read", "remove", "cleanup"} /\ ring' = ring /\ token' = token
    BY <1>7 DEF RotateJournal, RotateFails, OpenBatch, OpenFails, ReadFails, EndOfBatch,
                RemoveProcessing, RemoveFails, CleanReceipts, CleanupRaises
  <2>2. token = NoToken
    BY <2>1 DEF PositionInv
  <2> QED
    BY <1>0, <2>1, <2>2, ReadingMaps
<1>8. CASE NextEvent
  <2>1. pc = "read" /\ token = NoToken /\ token' = NoToken
    BY <1>8 DEF NextEvent, PositionInv
  <2>2. CASE Decodes(Block(processing, batch.offset))
    BY <1>0, <1>8, <2>1, <2>2, ReadingMaps DEF NextEvent
  <2>3. CASE ~Decodes(Block(processing, batch.offset))
    <3>1. ring' = QP!DegradeTo(ring, "Corrupt") /\ pc' = "suspended"
      BY <1>8, <2>3, SameOperations DEF NextEvent, LeaveLoop
    <3>2. HeldClaim' = HeldClaim /\ WorkerPhase = "reading" /\ WorkerPhase' = "check"
      BY <2>1, <3>1 DEF HeldClaim, WorkerPhase
    <3> QED
      BY <3>1, <3>2 DEF QP!Next, QP!MarkCorrupt
  <2> QED
    BY <2>2, <2>3
<1>9. CASE MatchingClaim
  BY <1>9, ClaimMaps
<1>10. CASE CommitEvent
  <2>1. /\ ring' = ring /\ token' = token /\ batch' = batch /\ pc = "txn"
        /\ pc' \in {"check", "ack"}
    BY <1>10 DEF CommitEvent
  <2>2. HeldClaim' = HeldClaim
    BY <2>1, ClaimedKept
  <2> QED
    BY <2>1, <2>2, QueueStutters DEF WorkerPhase
<1>11. CASE AbortEvent
  <2>1. ring' = ring /\ token' = NoToken /\ pc = "txn" /\ pc' = "check"
    BY <1>11 DEF AbortEvent
  <2>2. HeldClaim' = QP!NoClaim /\ WorkerPhase' = "check"
    BY <2>1 DEF HeldClaim, WorkerPhase, QP!NoClaim, NoToken
  <2>3. CASE token = NoToken
    BY <2>1, <2>2, <2>3, MappedState, QueueStutters
  <2>4. CASE token # NoToken
    BY <2>1, <2>2, <2>4, MappedState DEF QP!Next, QP!AbortRelease
  <2> QED
    BY <2>3, <2>4
<1>12. CASE AckCallback
  <2>1. /\ ring' = QP!AckClaim(ring, token) /\ token' = NoToken /\ pc = "ack" /\ pc' = "check"
        /\ token # NoToken
    BY <1>12, SameOperations DEF AckCallback, PositionInv
  <2>2. HeldClaim' = QP!NoClaim /\ WorkerPhase' = "check" /\ HeldClaim.token = token
    BY <2>1 DEF HeldClaim, WorkerPhase, QP!NoClaim, NoToken
  <2> QED
    BY <2>1, <2>2, MappedState DEF QP!Next, QP!CommitAck
<1> QED
  BY <1>1, <1>2, <1>3, <1>4, <1>5, <1>6, <1>7, <1>8, <1>9, <1>10, <1>11, <1>12
     DEF Next, Producer, WorkerStep

\* The identifiers in the ring after a step were in it before, or are drawn by the step.
LEMMA LiveIdsAre ==
    ASSUME NEW r
    PROVE  LiveIds(r) = {Contents(r)[i] : i \in 1 .. Depth(r)}
BY DEF LiveIds, Contents

LEMMA QueueInvStep ==
    ASSUME TypeInv, TypeInv', PositionInv, ReadInv, QueueInv, [Next]_vars
    PROVE  QueueInv'
<1> USE DEF TypeInv, JournalType, WorkerType
<1>0. QP!IndInv /\ QP!RingOK(ring)
  BY DEF QueueInv, QP!IndInv
<1>1. QP!IndInv'
  <2>1. [QP!Next]_(QP!vars)
    BY StepMaps
  <2>2. CASE UNCHANGED QP!vars
    BY <1>0, <2>2 DEF QP!IndInv, QP!ClaimIsTailOrStale, QP!WorkerInPhase, QP!vars
  <2>3. CASE QP!Next
    BY <1>0, <2>3, QP!EnqueueInd, QP!ReadingInd, QP!FinishingInd, QP!ResetInd, RingAssumption
       DEF QP!Next
  <2> QED
    BY <2>1, <2>2, <2>3
<1>2. drawn \subseteq drawn'
  BY DEF Next, Producer, WorkerStep, vars, history, Enqueue, EnqueueFails, AppendBytes,
         HydrateCaches, CheckHealth, Resume, RotateJournal, RotateFails, OpenBatch, OpenFails,
         NextEvent, ReadFails, EndOfBatch, RemoveProcessing, RemoveFails, CleanReceipts,
         MatchingClaim, CommitEvent, AbortEvent, AckCallback, Rehydrate, Shutdown,
         CleanupRaises, RecoverQueue, RecoverFails, Crash
<1>3. LiveIds(ring') \subseteq drawn'
  <2>1. CASE Enqueue \/ EnqueueFails
    <3>1. PICK id \in EventId \ drawn, appended \in BOOLEAN :
             ring' = EnqueueEncoded(ring, id, appended).ring /\ id \in drawn'
      BY <2>1 DEF Enqueue, EnqueueFails, AppendBytes
    <3>2. ring' = QP!EnqueueEncoded(ring, id, appended).ring
      BY <3>1, SameOperations
    <3>3. CASE QP!SameEntries(ring', ring)
      <4>1. QP!Contents(ring') = QP!Contents(ring) /\ QP!Depth(ring') = QP!Depth(ring)
        BY <3>3, QP!SameEntriesFacts, RingAssumption
      <4>2. LiveIds(ring') = LiveIds(ring)
        BY <4>1, LiveIdsAre, SameReading
      <4> QED
        BY <4>2, <1>2 DEF QueueInv
    <3>4. CASE /\ Depth(ring') = Depth(ring) + 1
               /\ \A i \in 1 .. Depth(ring) : Entry(ring', i) = Entry(ring, i)
               /\ Entry(ring', Depth(ring) + 1).event_id = id
      <4>1. Depth(ring) \in Nat
        BY <1>0, QP!DepthIsDist, SameReading, RingAssumption DEF QP!RingOK, QP!Ring
      <4>2. \A i \in 1 .. Depth(ring') : i \in 1 .. Depth(ring) \/ i = Depth(ring) + 1
        BY <3>4, <4>1
      <4> QED
        BY <3>1, <3>4, <4>2, <1>2 DEF QueueInv, LiveIds
    <3> QED
      BY <3>1, <3>2, <3>3, <3>4, <1>0, QP!EnqueueEffect, SameReading, RingAssumption
  <2>2. CASE AckCallback
    <3>1. ring' = QP!AckClaim(ring, token)
      BY <2>2, SameOperations DEF AckCallback
    <3>2. CASE QP!SameEntries(ring', ring)
      <4>1. QP!Contents(ring') = QP!Contents(ring) /\ QP!Depth(ring') = QP!Depth(ring)
        BY <3>2, QP!SameEntriesFacts, RingAssumption
      <4>2. LiveIds(ring') = LiveIds(ring)
        BY <4>1, LiveIdsAre, SameReading
      <4> QED
        BY <4>2, <1>2 DEF QueueInv
    <3>3. CASE /\ Depth(ring') = Depth(ring) - 1
               /\ \A i \in 1 .. Depth(ring') : Entry(ring', i) = Entry(ring, i + 1)
      <4>1. Depth(ring) \in Nat
        BY <1>0, QP!DepthIsDist, SameReading, RingAssumption DEF QP!RingOK, QP!Ring
      <4>2. \A i \in 1 .. Depth(ring') : i + 1 \in 1 .. Depth(ring)
        BY <3>3, <4>1
      <4> QED
        BY <3>3, <4>2, <1>2 DEF QueueInv, LiveIds
    <3> QED
      BY <3>1, <3>2, <3>3, <1>0, QP!AckEffect, SameReading, RingAssumption
  <2>3. CASE ring' = NewRing
    <3>1. Depth(ring') = 0
      BY <2>3, QP!NewRingOK, SameOperations, SameReading, RingAssumption
    <3> QED
      BY <3>1 DEF LiveIds
  <2>4. CASE ring' = ring
    BY <2>4, <1>2 DEF QueueInv
  <2>5. CASE ring' = DegradeTo(ring, "Corrupt")
    <3>1. LiveIds(ring') = LiveIds(ring)
      BY <1>0, <2>5
         DEF LiveIds, Entry, SlotOf, Depth, IndicesValid, DegradeTo, QP!RingOK, QP!Ring
    <3> QED
      BY <3>1, <1>2 DEF QueueInv
  <2>6. CASE MatchingClaim
    <3>1. ring' = Claimed(ring)
      BY <2>6 DEF MatchingClaim
    <3> QED
      BY <3>1, <2>4, <2>5 DEF Claimed
  <2> QED
    BY <2>1, <2>2, <2>3, <2>4, <2>5, <2>6
       DEF Next, Producer, WorkerStep, vars, HydrateCaches, CheckHealth, Resume, RotateJournal,
           RotateFails, OpenBatch, OpenFails, NextEvent, ReadFails, EndOfBatch, RemoveProcessing,
           RemoveFails, CleanReceipts, CommitEvent, AbortEvent, Rehydrate, Shutdown,
           CleanupRaises, RecoverQueue, RecoverFails, Crash
<1>4. token' # NoToken => HeldClaim'.event_id \in drawn'
  <2> SUFFICES ASSUME token' # NoToken PROVE HeldClaim'.event_id \in drawn'
    OBVIOUS
  <2>1. CASE MatchingClaim
    <3>1. /\ CanClaim(ring, pending) /\ UNCHANGED <<batch, processing, drawn>> /\ pc = "claim"
          /\ pending # NoEvent
      BY <2>1 DEF MatchingClaim, journal, history
    <3>2. HeldClaim'.event_id = pending
      BY <3>1 DEF HeldClaim, ReadInv
    <3>3. QP!Depth(ring) > 0 /\ QP!Entry(ring, 1) = ring.events[ring.tail]
      <4>1. QP!CanClaim(ring, pending)
        BY <3>1, SameReading
      <4>2. QP!Depth(ring) > 0
        BY <1>0, <4>1, QP!DepthIsDist, RingAssumption DEF QP!CanClaim, QP!RingOK, QP!Ring
      <4> QED
        BY <1>0, <4>2, QP!TailEntry, RingAssumption
    <3>4. Depth(ring) \in Nat /\ Depth(ring) > 0 /\ Entry(ring, 1).event_id = pending
      BY <1>0, <3>1, <3>3, QP!DepthIsDist, SameReading, RingAssumption
         DEF QP!RingOK, QP!Ring, CanClaim
    <3> QED
      BY <3>1, <3>2, <3>4, <1>2 DEF QueueInv, LiveIds
  <2>2. CASE ~MatchingClaim
    <3>1. token' = token
      BY <2>2
         DEF Next, Producer, WorkerStep, vars, worker, Enqueue, EnqueueFails, HydrateCaches,
             CheckHealth, Resume, RotateJournal, RotateFails, OpenBatch, OpenFails, NextEvent,
             ReadFails, EndOfBatch, RemoveProcessing, RemoveFails, CleanReceipts, CommitEvent,
             AbortEvent, AckCallback, Rehydrate, Shutdown, CleanupRaises, RecoverQueue, RecoverFails, Crash
    <3>2. pc \in {"txn", "ack"}
      BY <3>1 DEF PositionInv
    <3>3. batch' = batch
      BY <3>1, <3>2, <2>2
         DEF Next, Producer, WorkerStep, vars, worker, Enqueue, EnqueueFails, HydrateCaches,
             CheckHealth, Resume, RotateJournal, RotateFails, OpenBatch, OpenFails, NextEvent,
             ReadFails, EndOfBatch, RemoveProcessing, RemoveFails, CleanReceipts, CommitEvent,
             AbortEvent, AckCallback, Rehydrate, Shutdown, CleanupRaises, RecoverQueue, RecoverFails, Crash
    <3> QED
      BY <3>1, <3>3, <1>2, ClaimedKept DEF QueueInv
  <2> QED
    BY <2>1, <2>2
<1> QED
  BY <1>1, <1>3, <1>4 DEF QueueInv

\* The instance whose theorems were used is the queue of the pipeline.
LEMMA SameQueueOperations ==
    /\ Queue!NewRing = QP!NewRing /\ Queue!NoClaim = QP!NoClaim
    /\ \A r, id, appended :
          Queue!EnqueueEncoded(r, id, appended) = QP!EnqueueEncoded(r, id, appended)
    /\ \A r, t : Queue!AckClaim(r, t) = QP!AckClaim(r, t)
    /\ \A r : /\ Queue!Claimed(r) = QP!Claimed(r)
              /\ Queue!LiveIds(r) = QP!LiveIds(r) /\ Queue!TailToken(r) = QP!TailToken(r)
              /\ \A id : Queue!CanClaim(r, id) = QP!CanClaim(r, id)
              /\ \A s : Queue!DegradeTo(r, s) = QP!DegradeTo(r, s)
<1> USE DEF QP!DegradeTo, Queue!DegradeTo, QP!IndicesValid, Queue!IndicesValid,
            QP!SaturatingInc, Queue!SaturatingInc, QP!Advance, Queue!Advance
<1>1. Queue!NewRing = QP!NewRing /\ Queue!NoClaim = QP!NoClaim
  BY DEF QP!NewRing, Queue!NewRing, QP!Slot, Queue!Slot, QP!NoClaim, Queue!NoClaim
<1>2. \A r, id, appended :
         Queue!EnqueueEncoded(r, id, appended) = QP!EnqueueEncoded(r, id, appended)
  BY DEF QP!EnqueueEncoded, Queue!EnqueueEncoded, QP!TryEnqueue, Queue!TryEnqueue,
         QP!Full, Queue!Full, QP!Publish, Queue!Publish
<1>3. \A r, t : Queue!AckClaim(r, t) = QP!AckClaim(r, t)
  BY DEF QP!AckClaim, Queue!AckClaim, QP!Ack, Queue!Ack, QP!TokenMatches, Queue!TokenMatches,
         QP!Empty, Queue!Empty, QP!Removed, Queue!Removed
<1>4. ASSUME NEW r
      PROVE  /\ Queue!Claimed(r) = QP!Claimed(r) /\ Queue!TailToken(r) = QP!TailToken(r)
             /\ \A id : Queue!CanClaim(r, id) = QP!CanClaim(r, id)
             /\ \A s : Queue!DegradeTo(r, s) = QP!DegradeTo(r, s)
  BY DEF QP!Claimed, Queue!Claimed, QP!TailToken, Queue!TailToken, QP!CanClaim,
         Queue!CanClaim, QP!Empty, Queue!Empty
<1>5. ASSUME NEW r
      PROVE  Queue!LiveIds(r) = QP!LiveIds(r)
  <2>1. Queue!Depth(r) = QP!Depth(r)
    BY DEF Queue!Depth, QP!Depth
  <2>2. \A i : Queue!Entry(r, i) = QP!Entry(r, i)
    BY DEF Queue!Entry, QP!Entry, Queue!SlotOf, QP!SlotOf
  <2> QED
    BY <2>1, <2>2 DEF Queue!LiveIds, QP!LiveIds
<1> QED
  BY <1>1, <1>2, <1>3, <1>4, <1>5

LEMMA SameQueueStep ==
    ASSUME [QP!Next]_(QP!vars)
    PROVE  [Queue!Next]_(Queue!vars)
<1> USE SameQueueOperations
<1>1. CASE UNCHANGED QP!vars
  BY <1>1 DEF QP!vars, Queue!vars
<1>2. CASE QP!Enqueue
  BY <1>2 DEF QP!Enqueue, Queue!Enqueue, Queue!Next
<1>3. CASE QP!CheckHealth \/ QP!DurableOnlyEvent \/ QP!MarkCorrupt
  BY <1>3 DEF QP!CheckHealth, Queue!CheckHealth, QP!DurableOnlyEvent, Queue!DurableOnlyEvent,
              QP!MarkCorrupt, Queue!MarkCorrupt, Queue!Next
<1>4. CASE QP!MatchingClaim
  BY <1>4 DEF QP!MatchingClaim, Queue!MatchingClaim, Queue!Next
<1>5. CASE QP!CommitAck \/ QP!AbortRelease
  BY <1>5 DEF QP!CommitAck, Queue!CommitAck, QP!AbortRelease, Queue!AbortRelease, Queue!Next
<1>6. CASE QP!RecoverCorruptRing \/ QP!Restart
  BY <1>6 DEF QP!RecoverCorruptRing, Queue!RecoverCorruptRing, QP!Restart, Queue!Restart,
              Queue!Next
<1> QED
  BY <1>1, <1>2, <1>3, <1>4, <1>5, <1>6 DEF QP!Next

LEMMA QueueInvInit == Init => TypeInv /\ PositionInv /\ ReadInv /\ QueueInv /\ QP!Init
<1> SUFFICES ASSUME Init PROVE TypeInv /\ PositionInv /\ ReadInv /\ QueueInv /\ QP!Init
  OBVIOUS
<1>1. /\ ring = NewRing /\ pc = "hydrate" /\ batch = NoBatch /\ pending = NoEvent
      /\ token = NoToken
  BY DEF Init
<1>2. TypeInv
  BY JournalInvInit
<1>3. PositionInv /\ ReadInv
  BY <1>1, NoBatchType DEF PositionInv, ReadInv
<1>4. QP!Init
  BY <1>1, MappedState, SameOperations DEF QP!Init
<1>5. QP!IndInv
  BY <1>4, QP!InitInd, RingAssumption
<1>6. LiveIds(ring) = {}
  <2>1. Depth(ring) = 0
    BY <1>1, QP!NewRingOK, SameOperations, SameReading, RingAssumption
  <2> QED
    BY <2>1 DEF LiveIds
<1> QED
  BY <1>1, <1>2, <1>3, <1>4, <1>5, <1>6 DEF QueueInv

\* The pipeline's ring, its worker's claim and its position in the batch stay in
\* the inductive invariant of AuthEventQueue, for every ring, buffer and fault the
\* constants allow.
THEOREM QueueInductive == Spec => [](TypeInv /\ PositionInv /\ ReadInv /\ QueueInv)
<1>1. Init => TypeInv /\ PositionInv /\ ReadInv /\ QueueInv
  BY QueueInvInit
<1>2. TypeInv /\ PositionInv /\ ReadInv /\ QueueInv /\ [Next]_vars
         => (TypeInv /\ PositionInv /\ ReadInv /\ QueueInv)'
  <2> SUFFICES ASSUME TypeInv, PositionInv, ReadInv, QueueInv, [Next]_vars
               PROVE  (TypeInv /\ PositionInv /\ ReadInv /\ QueueInv)'
    OBVIOUS
  <2>1. TypeInv'
    BY TypeInvStep
  <2>2. PositionInv'
    BY PositionInvStep
  <2>3. ReadInv'
    BY <2>2, ReadInvStep
  <2>4. QueueInv'
    BY <2>1, QueueInvStep
  <2> QED
    BY <2>1, <2>2, <2>3, <2>4
<1> QED
  BY <1>1, <1>2, PTL DEF Spec

\* The pipeline implements the queue: whatever its worker, its producers, the
\* administrator and a crash do to the ring and to the claim is a step of
\* AuthEventQueue or changes neither, so what is proved of that queue holds here.
THEOREM ImplementsQueue == Spec => QueueSpec
<1>1. Init => Queue!Init
  <2>1. Init => QP!Init
    BY QueueInvInit
  <2>2. QP!Init => Queue!Init
    BY SameQueueOperations DEF QP!Init, Queue!Init
  <2> QED
    BY <2>1, <2>2
<1>2. TypeInv /\ PositionInv /\ ReadInv /\ QueueInv /\ [Next]_vars
         => [Queue!Next]_(Queue!vars)
  BY StepMaps, SameQueueStep
<1> QED
  BY <1>1, <1>2, QueueInductive, PTL DEF Spec, QueueSpec, Queue!Spec

----------------------------------------------------------------------------
(* RAM copies and the journal. *)

\* Every RAM copy is of a written event, in journal order, and none of an event
\* that took effect, except at the tail when the acknowledgement that will remove
\* it is next.  A transaction on the event at the tail has the tail's token.
RamInv ==
    /\ \A i \in 1 .. Depth(ring) :
          /\ Contents(ring)[i] \in ToSet(written)
          /\ Contents(ring)[i] \in ToSet(applied) =>
                i = 1 /\ pc = "ack" /\ token = TailToken(ring)
    /\ \A i, j \in 1 .. Depth(ring), k, l \in 1 .. Len(written) :
          i < j /\ written[k] = Contents(ring)[i] /\ written[l] = Contents(ring)[j] => k < l
    /\ pc = "txn" /\ Depth(ring) > 0 /\ Contents(ring)[1] = pending => token = TailToken(ring)

\* What a step may do to the copies in the ring.
CopiesKept ==
    /\ Depth(ring') = Depth(ring) /\ Contents(ring') = Contents(ring)
    /\ TailToken(ring') = TailToken(ring)
    /\ pc = "ack" /\ pc' # "ack" /\ Depth(ring) > 0 => token # TailToken(ring)
CopyAdded(id) ==
    /\ Depth(ring') = Depth(ring) + 1 /\ Contents(ring')[Depth(ring) + 1] = id
    /\ \A i \in 1 .. Depth(ring) : Contents(ring')[i] = Contents(ring)[i]
    /\ Depth(ring) > 0 => TailToken(ring') = TailToken(ring)
    /\ written' = written \o <<id>> /\ UNCHANGED <<database, worker>>
OldestRemoved ==
    /\ Depth(ring) > 0 /\ Depth(ring') = Depth(ring) - 1
    /\ \A i \in 1 .. Depth(ring') : Contents(ring')[i] = Contents(ring)[i + 1]
    /\ pc' = "check" /\ UNCHANGED <<written, applied>>

LEMMA ContentsAre ==
    ASSUME NEW r, QP!RingOK(r)
    PROVE  /\ Depth(r) \in Nat
           /\ \A i \in 1 .. Depth(r) :
                 Contents(r)[i] = Entry(r, i).event_id /\ Contents(r)[i] \in EventId
BY QP!ContentsFacts, SameReading, RingAssumption

LEMMA SameCopies ==
    ASSUME NEW q, NEW r, QP!SameEntries(q, r)
    PROVE  Depth(q) = Depth(r) /\ Contents(q) = Contents(r) /\ TailToken(q) = TailToken(r)
BY QP!SameEntriesFacts, SameReading, RingAssumption

LEMMA EnqueueCopies ==
    ASSUME QP!RingOK(ring), Enqueue
    PROVE  CopiesKept \/ \E id \in EventId \ drawn : CopyAdded(id)
<1>1. PICK id \in EventId \ drawn, appended \in BOOLEAN :
         /\ ring' = EnqueueEncoded(ring, id, appended).ring /\ written' = written \o <<id>>
         /\ UNCHANGED <<database, worker>>
  BY DEF Enqueue, AppendBytes
<1>2. ring' = QP!EnqueueEncoded(ring, id, appended).ring
  BY <1>1, SameOperations
<1>3. CASE QP!SameEntries(ring', ring)
  BY <1>1, <1>3, SameCopies DEF CopiesKept, worker
<1>4. CASE /\ Depth(ring') = Depth(ring) + 1
           /\ \A i \in 1 .. Depth(ring) : Entry(ring', i) = Entry(ring, i)
           /\ Entry(ring', Depth(ring) + 1).event_id = id
           /\ ring'.tail = ring.tail /\ QP!RingOK(ring')
  <2>1. /\ Depth(ring) \in Nat /\ Depth(ring') \in Nat
        /\ \A i \in 1 .. Depth(ring) : Contents(ring)[i] = Entry(ring, i).event_id
        /\ \A i \in 1 .. Depth(ring') : Contents(ring')[i] = Entry(ring', i).event_id
    BY <1>4, ContentsAre
  <2>2. Contents(ring')[Depth(ring) + 1] = id
    BY <1>4, <2>1
  <2>3. \A i \in 1 .. Depth(ring) : Contents(ring')[i] = Contents(ring)[i]
    BY <1>4, <2>1
  <2>4. ASSUME Depth(ring) > 0 PROVE TailToken(ring') = TailToken(ring)
    <3>1. Entry(ring, 1) = ring.events[ring.tail]
      BY <2>4, QP!TailEntry, SameReading, RingAssumption
    <3>2. Entry(ring', 1) = ring'.events[ring'.tail]
      BY <1>4, <2>1, <2>4, QP!TailEntry, SameReading, RingAssumption
    <3>3. Entry(ring', 1) = Entry(ring, 1)
      BY <1>4, <2>1, <2>4
    <3> QED
      BY <1>4, <3>1, <3>2, <3>3 DEF TailToken
  <2> QED
    BY <1>1, <1>4, <2>2, <2>3, <2>4 DEF CopyAdded
<1>5. /\ QP!RingOK(ring') /\ ring'.tail = ring.tail
      /\ \/ QP!SameEntries(ring', ring)
         \/ /\ QP!Depth(ring') = QP!Depth(ring) + 1
            /\ \A i \in 1 .. QP!Depth(ring) : QP!Entry(ring', i) = QP!Entry(ring, i)
            /\ QP!Entry(ring', QP!Depth(ring) + 1).event_id = id
  BY <1>1, <1>2, QP!EnqueueEffect, RingAssumption
<1> QED
  BY <1>3, <1>4, <1>5, SameReading

LEMMA AckCopies ==
    ASSUME QP!RingOK(ring), AckCallback
    PROVE  CopiesKept \/ OldestRemoved
<1>1. ring' = QP!AckClaim(ring, token) /\ pc' = "check" /\ UNCHANGED <<written, applied>>
  BY SameOperations DEF AckCallback, database, history
<1>2. CASE QP!SameEntries(ring', ring) /\ ~TokenMatches(ring, token)
  <2>1. ASSUME Depth(ring) > 0 PROVE token # TailToken(ring)
    <3>1. ~Empty(ring)
      BY <2>1, QP!DepthIsDist, SameReading, RingAssumption
         DEF QP!RingOK, QP!Ring, QP!Empty, Empty
    <3> QED
      BY <1>2, <3>1 DEF TokenMatches, TailToken
  <2> QED
    BY <1>2, <2>1, SameCopies DEF CopiesKept
<1>3. CASE /\ Depth(ring) > 0 /\ Depth(ring') = Depth(ring) - 1 /\ QP!RingOK(ring')
           /\ \A i \in 1 .. Depth(ring') : Entry(ring', i) = Entry(ring, i + 1)
  <2>1. /\ Depth(ring) \in Nat /\ Depth(ring') \in Nat
        /\ \A i \in 1 .. Depth(ring) : Contents(ring)[i] = Entry(ring, i).event_id
        /\ \A i \in 1 .. Depth(ring') : Contents(ring')[i] = Entry(ring', i).event_id
    BY <1>3, ContentsAre
  <2>2. \A i \in 1 .. Depth(ring') : i + 1 \in 1 .. Depth(ring)
    BY <1>3, <2>1
  <2> QED
    BY <1>1, <1>3, <2>1, <2>2 DEF OldestRemoved
<1> QED
  BY <1>1, <1>2, <1>3, QP!AckEffect, SameReading, RingAssumption

LEMMA RingCopies ==
    ASSUME QP!RingOK(ring), [Next]_vars
    PROVE  \/ CopiesKept \/ OldestRemoved \/ Depth(ring') = 0
           \/ \E id \in EventId \ drawn : CopyAdded(id)
<1>1. CASE Enqueue
  BY <1>1, EnqueueCopies
<1>2. CASE AckCallback
  BY <1>2, AckCopies
<1>3. CASE ring' = NewRing
  BY <1>3, QP!NewRingOK, SameOperations, SameReading, RingAssumption
<1>4. CASE (pc = "ack" => pc' = "ack") /\ QP!SameEntries(ring', ring)
  BY <1>4, SameCopies DEF CopiesKept
<1>5. CASE EnqueueFails
  BY <1>4, <1>5 DEF EnqueueFails, EnqueueEncoded, worker, QP!SameEntries, QP!RingOK, QP!Ring
<1>6. CASE MatchingClaim
  BY <1>4, <1>6 DEF MatchingClaim, Claimed, DegradeTo, QP!SameEntries, QP!RingOK, QP!Ring
<1>7. CASE NextEvent
  BY <1>4, <1>7 DEF NextEvent, DegradeTo, QP!SameEntries, QP!RingOK, QP!Ring
<1>8. CASE (pc = "ack" => pc' = "ack") /\ ring' = ring
  BY <1>4, <1>8 DEF QP!SameEntries
<1> QED
  BY <1>1, <1>2, <1>3, <1>5, <1>6, <1>7, <1>8
     DEF Next, Producer, WorkerStep, vars, worker, HydrateCaches, CheckHealth, Resume,
         RotateJournal, RotateFails, OpenBatch, OpenFails, ReadFails, EndOfBatch,
         RemoveProcessing, RemoveFails, CleanReceipts, CommitEvent, AbortEvent, Rehydrate,
         Shutdown, CleanupRaises, RecoverQueue, RecoverFails, Crash

\* Where the worker's event and token come from.
LEMMA WorkerMoves ==
    ASSUME TypeInv, [Next]_vars
    PROVE  /\ pc = "ack" /\ pc' = "ack" => token' = token
           /\ pc' = "txn" =>
                 (pc = "txn" /\ token' = token /\ pending' = pending) \/ MatchingClaim
           /\ applied' = applied \/ CommitEvent
<1>1. CASE Enqueue \/ EnqueueFails \/ RecoverQueue \/ RecoverFails \/ UNCHANGED vars
  BY <1>1 DEF Enqueue, EnqueueFails, RecoverQueue, RecoverFails, vars, worker, database
<1>2. CASE CommitEvent \/ MatchingClaim
  BY <1>2 DEF CommitEvent, MatchingClaim, database
<1>3. ASSUME ~(Enqueue \/ EnqueueFails \/ RecoverQueue \/ RecoverFails \/ UNCHANGED vars),
             ~(CommitEvent \/ MatchingClaim)
      PROVE  pc' # "txn" /\ pc' # "ack" /\ applied' = applied
  BY <1>3
     DEF Next, Producer, WorkerStep, database, LeaveLoop, HydrateCaches, CheckHealth, Resume,
         RotateJournal, RotateFails, OpenBatch, OpenFails, NextEvent, ReadFails, EndOfBatch,
         RemoveProcessing, RemoveFails, CleanReceipts, AbortEvent, AckCallback, Rehydrate,
         Shutdown, CleanupRaises, Crash
<1> QED
  BY <1>1, <1>2, <1>3

\* The pending event is the next one to take effect, or took effect before.
LEMMA PendingIsNext ==
    ASSUME TypeInv, JournalInv, pending # NoEvent
    PROVE  \E k \in 1 .. Len(written) : written[k] = pending /\ k <= Len(applied) + 1
<1>1. Len(written) \in Nat /\ Len(applied) \in Nat /\ batch.read \in Nat
  BY DEF TypeInv, DataType, JournalType, WorkerType, Reader
<1>2. PICK p, a \in 0 .. Len(written) : FilesInv(p, a) /\ ReaderInv(p, a)
  BY DEF JournalInv, PlaceInv
<1>3. /\ batch.read > 0 /\ p + batch.read <= Len(applied) + 1 /\ p + batch.read <= a
      /\ pending = written[p + batch.read]
  BY <1>2 DEF ReaderInv
<1> QED
  BY <1>1, <1>2, <1>3

LEMMA MembersAre ==
    ASSUME NEW s \in Seq(EventId), NEW x
    PROVE  x \in ToSet(s) <=> \E i \in 1 .. Len(s) : s[i] = x
BY DEF ToSet

\* A commit whose event has a RAM copy finds that copy at the tail.
LEMMA CommittedIsOldest ==
    ASSUME TypeInv, JournalInv, QP!RingOK(ring), RamInv, pc = "txn",
           NEW i \in 1 .. Depth(ring), Contents(ring)[i] = pending
    PROVE  i = 1 /\ token = TailToken(ring)
<1> USE DEF TypeInv, DataType, JournalType
<1>1. /\ Depth(ring) \in Nat /\ Len(written) \in Nat /\ Len(applied) \in Nat
      /\ Contents(ring)[i] \in EventId
  BY ContentsAre
<1>2. pending # NoEvent
  BY DEF JournalInv, ControlInv
<1>3. PICK k \in 1 .. Len(written) : written[k] = pending /\ k <= Len(applied) + 1
  BY <1>2, PendingIsNext
<1>4. \A j \in 1 .. Depth(ring) : ~\E m \in 1 .. Len(applied) : applied[m] = Contents(ring)[j]
  BY MembersAre DEF RamInv
<1>5. i = 1
  <2> SUFFICES ASSUME i # 1 PROVE FALSE
    OBVIOUS
  <2>1. 1 \in 1 .. Depth(ring) /\ 1 < i
    BY <1>1
  <2>2. PICK m \in 1 .. Len(written) : written[m] = Contents(ring)[1]
    BY <2>1, MembersAre DEF RamInv
  <2>3. m < k
    BY <1>3, <2>1, <2>2 DEF RamInv
  <2>4. m \in 1 .. Len(applied)
    BY <1>1, <1>3, <2>3
  <2>5. applied[m] = written[m]
    BY <2>4 DEF JournalInv, AppliedInv
  <2> QED
    BY <1>4, <2>1, <2>2, <2>4, <2>5
<1>6. token = TailToken(ring)
  BY <1>1, <1>5 DEF RamInv
<1> QED
  BY <1>5, <1>6

LEMMA RamInvStep ==
    ASSUME TypeInv, TypeInv', JournalInv, WrittenInv', PositionInv, QueueInv, RamInv,
           [Next]_vars
    PROVE  RamInv'
<1> USE DEF TypeInv, DataType
<1>0. QP!RingOK(ring) /\ Depth(ring) \in Nat
  BY ContentsAre DEF QueueInv, QP!IndInv
<1>1. /\ Len(written) \in Nat /\ Len(written') \in Nat /\ Len(applied) \in Nat
      /\ Len(written) <= Len(written')
      /\ \A k \in 1 .. Len(written) : written'[k] = written[k]
  BY WrittenGrows
<1>2. \A i \in 1 .. Depth(ring) : \E k \in 1 .. Len(written) : written[k] = Contents(ring)[i]
  BY MembersAre DEF RamInv
<1>3. \A i \in 1 .. Depth(ring), k \in 1 .. Len(written') :
         written'[k] = Contents(ring)[i] => k \in 1 .. Len(written)
  BY <1>1, <1>2 DEF WrittenInv
<1>4. \A i, j \in 1 .. Depth(ring), k, l \in 1 .. Len(written') :
         i < j /\ written'[k] = Contents(ring)[i] /\ written'[l] = Contents(ring)[j] => k < l
  BY <1>1, <1>3 DEF RamInv
<1>5. \A i \in 1 .. Depth(ring) : Contents(ring)[i] \in ToSet(written')
  BY <1>1, <1>2, MembersAre
<1>6. CASE Depth(ring') = 0
  BY <1>6 DEF RamInv
<1>7. CASE OldestRemoved
  <2>1. \A i \in 1 .. Depth(ring') : i + 1 \in 1 .. Depth(ring) /\ i + 1 # 1
    BY <1>0, <1>7 DEF OldestRemoved
  <2>2. \A i \in 1 .. Depth(ring') :
           Contents(ring')[i] \in ToSet(written') /\ Contents(ring')[i] \notin ToSet(applied')
    BY <1>5, <1>7, <2>1 DEF OldestRemoved, RamInv
  <2>3. ASSUME NEW i \in 1 .. Depth(ring'), NEW j \in 1 .. Depth(ring'), i < j,
               NEW k \in 1 .. Len(written'), NEW l \in 1 .. Len(written'),
               written'[k] = Contents(ring')[i], written'[l] = Contents(ring')[j]
        PROVE  k < l
    <3>1. i + 1 \in 1 .. Depth(ring) /\ j + 1 \in 1 .. Depth(ring) /\ i + 1 < j + 1
      BY <2>1, <2>3
    <3>2. written'[k] = Contents(ring)[i + 1] /\ written'[l] = Contents(ring)[j + 1]
      BY <1>7, <2>3 DEF OldestRemoved
    <3> QED
      BY <1>4, <3>1, <3>2
  <2>4. pc' # "txn"
    BY <1>7 DEF OldestRemoved
  <2> QED
    BY <2>2, <2>3, <2>4 DEF RamInv
<1>8. CASE CopiesKept
  <2> USE DEF CopiesKept
  <2>1. ASSUME NEW i \in 1 .. Depth(ring), Contents(ring)[i] \in ToSet(applied')
        PROVE  i = 1 /\ pc' = "ack" /\ token' = TailToken(ring)
    <3>1. CASE applied' = applied
      <4>1. i = 1 /\ pc = "ack" /\ token = TailToken(ring) /\ Depth(ring) > 0
        BY <1>0, <2>1, <3>1 DEF RamInv
      <4> QED
        BY <1>8, <4>1, WorkerMoves
    <3>2. CASE CommitEvent
      <4>1. pc = "txn" /\ token' = token /\ pc' = IF token = NoToken THEN "check" ELSE "ack"
        BY <3>2 DEF CommitEvent
      <4>2. \A m \in 1 .. Len(applied') :
               applied'[m] = pending \/ \E n \in 1 .. Len(applied) : applied[n] = applied'[m]
        <5>1. applied' = applied \/ applied' = applied \o <<pending>>
          BY <3>2 DEF CommitEvent
        <5>2. CASE applied' = applied
          BY <5>2
        <5>3. CASE applied' = applied \o <<pending>>
          BY <5>3, <1>1
        <5> QED
          BY <5>1, <5>2, <5>3
      <4>3. Contents(ring)[i] \notin ToSet(applied)
        BY <4>1 DEF RamInv
      <4>4. Contents(ring)[i] = pending
        <5>1. PICK m \in 1 .. Len(applied') : applied'[m] = Contents(ring)[i]
          BY <2>1, MembersAre
        <5>2. ~\E n \in 1 .. Len(applied) : applied[n] = Contents(ring)[i]
          BY <4>3, MembersAre
        <5> QED
          BY <4>2, <5>1, <5>2
      <4>5. i = 1 /\ token = TailToken(ring)
        BY <1>0, <4>1, <4>4, CommittedIsOldest
      <4>6. TailToken(ring) # NoToken
        <5>1. QP!Depth(ring) > 0
          BY <1>0, <4>5, SameReading
        <5>2. ring.events[ring.tail].seq = ring.acknowledged + 1
          BY <1>0, <5>1, QP!TailEntry, RingAssumption
        <5>3. ring.acknowledged \in Nat
          BY <1>0, RingAssumption DEF QP!RingOK, QP!Ring, QP!Counter
        <5> QED
          BY <5>2, <5>3 DEF TailToken, NoToken
      <4> QED
        BY <4>1, <4>5, <4>6
    <3> QED
      BY <3>1, <3>2, WorkerMoves
  <2>2. ASSUME pc' = "txn", Depth(ring) > 0, Contents(ring)[1] = pending'
        PROVE  token' = TailToken(ring)
    <3>1. CASE pc = "txn" /\ token' = token /\ pending' = pending
      BY <2>2, <3>1 DEF RamInv
    <3>2. CASE MatchingClaim
      <4>1. /\ token' = IF CanClaim(ring, pending) THEN TailToken(ring) ELSE NoToken
            /\ pending' = pending
        BY <3>2 DEF MatchingClaim
      <4>2. /\ QP!Entry(ring, 1) = ring.events[ring.tail]
            /\ QP!IndicesValid(ring) /\ ~QP!Empty(ring)
        BY <1>0, <2>2, QP!TailEntry, QP!DepthIsDist, SameReading, RingAssumption
           DEF QP!RingOK, QP!Ring, QP!Empty
      <4>3. 1 \in 1 .. Depth(ring)
        BY <1>0, <2>2
      <4>4. Contents(ring)[1] = Entry(ring, 1).event_id
        BY <1>0, <4>3, ContentsAre
      <4>5. CanClaim(ring, pending)
        BY <2>2, <4>1, <4>2, <4>4, SameReading DEF QP!CanClaim
      <4> QED
        BY <4>1, <4>5
    <3> QED
      BY <2>2, <3>1, <3>2, WorkerMoves
  <2> QED
    BY <1>4, <1>5, <1>8, <2>1, <2>2 DEF RamInv
<1>9. ASSUME NEW id \in EventId \ drawn, CopyAdded(id)
      PROVE  RamInv'
  <2>1. /\ Depth(ring') = Depth(ring) + 1 /\ Contents(ring')[Depth(ring) + 1] = id
        /\ \A i \in 1 .. Depth(ring) : Contents(ring')[i] = Contents(ring)[i]
        /\ Depth(ring) > 0 => TailToken(ring') = TailToken(ring)
        /\ written' = written \o <<id>>
        /\ UNCHANGED <<applied, pc, pending, token>>
    BY <1>9 DEF CopyAdded, database, worker
  <2>2. Len(written') = Len(written) + 1 /\ written'[Len(written) + 1] = id
    BY <2>1, <1>1
  <2>3. \A i \in 1 .. Depth(ring') : i \in 1 .. Depth(ring) \/ i = Depth(ring) + 1
    BY <1>0, <2>1
  <2>4. \A k \in 1 .. Len(written) : written[k] # id
    BY DEF JournalInv, WrittenInv
  <2>5. id \notin ToSet(applied)
    <3>1. \A m \in 1 .. Len(applied) : applied[m] = written[m] /\ m \in 1 .. Len(written)
      BY <1>1 DEF JournalInv, AppliedInv
    <3> QED
      BY <2>4, <3>1, MembersAre
  <2>6. \A i \in 1 .. Depth(ring') :
           /\ Contents(ring')[i] \in ToSet(written')
           /\ Contents(ring')[i] \in ToSet(applied') =>
                 i = 1 /\ pc' = "ack" /\ token' = TailToken(ring')
    <3> TAKE i \in 1 .. Depth(ring')
    <3>1. CASE i = Depth(ring) + 1
      <4>1. Contents(ring')[i] = id /\ Len(written) + 1 \in 1 .. Len(written')
        BY <1>1, <2>1, <2>2, <3>1
      <4>2. id \in ToSet(written')
        BY <2>2, <4>1, MembersAre
      <4> QED
        BY <2>1, <2>5, <4>1, <4>2
    <3>2. CASE i \in 1 .. Depth(ring)
      BY <1>0, <1>5, <2>1, <3>2 DEF RamInv
    <3> QED
      BY <2>3, <3>1, <3>2
  <2>7. ASSUME NEW i \in 1 .. Depth(ring'), NEW j \in 1 .. Depth(ring'), i < j,
               NEW k \in 1 .. Len(written'), NEW l \in 1 .. Len(written'),
               written'[k] = Contents(ring')[i], written'[l] = Contents(ring')[j]
        PROVE  k < l
    <3>1. i \in 1 .. Depth(ring)
      BY <1>0, <2>1, <2>7
    <3>2. written'[k] = Contents(ring)[i] /\ k \in 1 .. Len(written)
      BY <1>3, <2>1, <2>7, <3>1
    <3>3. CASE j \in 1 .. Depth(ring)
      BY <1>4, <2>1, <2>7, <3>1, <3>2, <3>3
    <3>4. CASE j = Depth(ring) + 1
      <4>1. l = Len(written) + 1
        BY <1>1, <2>1, <2>2, <2>7, <3>4 DEF WrittenInv
      <4> QED
        BY <1>1, <3>2, <4>1
    <3> QED
      BY <2>3, <3>3, <3>4
  <2>8. ASSUME pc' = "txn", Depth(ring') > 0, Contents(ring')[1] = pending'
        PROVE  token' = TailToken(ring')
    <3>1. CASE Depth(ring) = 0
      <4>1. pending = id
        BY <2>1, <2>8, <3>1
      <4>2. PICK k \in 1 .. Len(written) : written[k] = pending
        BY <4>1, PendingIsNext, RingAssumption
      <4> QED
        BY <2>4, <4>1, <4>2
    <3>2. CASE Depth(ring) > 0
      BY <1>0, <2>1, <2>8, <3>2 DEF RamInv
    <3> QED
      BY <1>0, <3>1, <3>2
  <2> QED
    BY <2>6, <2>7, <2>8 DEF RamInv
<1> QED
  BY <1>0, <1>6, <1>7, <1>8, <1>9, RingCopies

\* A RAM copy is of an event that is still to take effect, in journal order, save
\* the one between its commit and its acknowledgement: with torn appends where no
\* record straddles the reader's buffer, and for any buffer where no append is torn.
\* So no copy of a processed event is left at the tail, where it would block the ring.
THEOREM RamCopiesPendingThm ==
    ASSUME InStep, UndoesOne
    PROVE  Spec => []RamCopiesPending
<1>1. Init => RamInv
  <2> SUFFICES ASSUME Init PROVE RamInv
    OBVIOUS
  <2>1. Depth(ring) = 0
    BY QP!NewRingOK, SameOperations, SameReading, RingAssumption DEF Init
  <2> QED
    BY <2>1 DEF RamInv
<1>2. (TypeInv /\ TypeInv' /\ JournalInv /\ JournalInv' /\ PositionInv /\ QueueInv
         /\ RamInv /\ [Next]_vars) => RamInv'
  <2> SUFFICES ASSUME TypeInv, TypeInv', JournalInv, JournalInv', PositionInv, QueueInv, RamInv,
                      [Next]_vars
               PROVE  RamInv'
    OBVIOUS
  <2>1. WrittenInv'
    BY DEF JournalInv
  <2> QED
    BY <2>1, RamInvStep
<1>3. TypeInv /\ RamInv => RamCopiesPending
  BY DEF RamInv, RamCopiesPending, TypeInv, DataType
<1> QED
  BY <1>1, <1>2, <1>3, JournalInductive, QueueInductive, PTL DEF Spec

=============================================================================
