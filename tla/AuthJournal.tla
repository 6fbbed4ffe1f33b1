---------------------------- MODULE AuthJournal ----------------------------
(***************************************************************************)
(* The durable journal of src/auth_journal.rs: two files of fixed-size     *)
(* records, as operators on their bytes.  The callers hold                 *)
(* AUTH_EVENT_LWLOCK for append, rotation and verification.                *)
(*                                                                         *)
(* Abstraction: byte number k of the record of event id is the pair        *)
(* <<id, k>>, so a block decodes exactly when it is one whole record: the  *)
(* header and checksum reject any other block, and the username, kind and  *)
(* flags of a record that encode() wrote are valid.                        *)
(***************************************************************************)
EXTENDS AuthEventRing, Sequences

CONSTANT RecordSize   \* RECORD_SIZE, in units of a write that may be torn

ASSUME RecordAssumption == RecordSize \in Nat /\ RecordSize >= 2

Byte == EventId \X (1 .. RecordSize)
File == [exists : BOOLEAN, bytes : Seq(Byte)]
NoFile == [exists |-> FALSE, bytes |-> <<>>]

----------------------------------------------------------------------------
(* encode and decode. *)

Encode(id) == [k \in 1 .. RecordSize |-> <<id, k>>]

Decodes(block) == \E id \in EventId : block = Encode(id)

\* The event of a block that decodes.
EventOf(block) == block[1][1]

----------------------------------------------------------------------------
(* append: open, or create, and write at the end.  A write that fails part  *)
(* of the way leaves the first `written` bytes of the record behind.        *)

Appended(file, id, written) ==
    [exists |-> TRUE,
     bytes  |-> file.bytes \o SubSeq(Encode(id), 1, written)]

----------------------------------------------------------------------------
(* JournalReader. *)

CompleteRecords(file) == Len(file.bytes) \div RecordSize

\* JournalReader::open cuts an incomplete tail off the file.
Truncated(file) ==
    [file EXCEPT !.bytes = SubSeq(@, 1, CompleteRecords(file) * RecordSize)]

\* The next block of a reader at `offset`, and whether the file holds it.
HasBlock(file, offset) == offset + RecordSize <= Len(file.bytes)
Block(file, offset) == SubSeq(file.bytes, offset + 1, offset + RecordSize)

Record(file, n) == Block(file, (n - 1) * RecordSize)

\* One file of verify_pending, after open truncated it: every record decodes.
Verifies(file) == \A n \in 1 .. CompleteRecords(file) : Decodes(Record(file, n))

\* The events a reader of the file gets before an error or the end.
ReadableEvents(file) ==
    {EventOf(Record(file, n)) :
        n \in {m \in 1 .. CompleteRecords(file) :
                  \A l \in 1 .. m : Decodes(Record(file, l))}}
=============================================================================
