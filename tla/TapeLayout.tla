------------------------------ MODULE TapeLayout ------------------------------
(***************************************************************************)
(* Tapes that keep to their format, given by the places where their blocks *)
(* start, and what the reader and the decoder of TapePlayer must agree on  *)
(* while they walk such a tape separately, a byte FIFO and a stack of      *)
(* loops between them.                                                     *)
(***************************************************************************)
EXTENDS TapePlayer

CONSTANT Starts     \* of each file: where its blocks start, and its end

ASSUME StartsAssumption == Starts \in [Files -> SUBSET Nat]

First(f) == IF HasTzxSignature(f) THEN 10 ELSE 0

KnownCode(code) == code \in DOMAIN TzxHeaderSize \cup {90}

(* The block that starts at p: its header and where its data ends.         *)
HeaderLength(f, p) ==
  CHOOSE hs \in HeaderSizes(HasTzxSignature(f), Value(ByteAt(f, p))) : TRUE
HeaderBytes(f, p) == [i \in 1 .. HeaderLength(f, p) |-> ByteAt(f, p + i - 1)]
BlockAt(f, p) == Parse(HasTzxSignature(f), HeaderBytes(f, p))
BlockEnd(f, p) == p + HeaderLength(f, p) + BlockAt(f, p).size

(* The blocks of the file have known codes and follow on from each other,  *)
(* from its beginning to its end, and the last one has data if it has      *)
(* anything to be played.                                                  *)
WellFormed(f) ==
  /\ First(f) \in Starts[f]
  /\ \A p \in Starts[f] : p <= FileSize(f)
  /\ \A p \in Starts[f] : p < FileSize(f) =>
       /\ HasTzxSignature(f) => KnownCode(Value(ByteAt(f, p)))
       /\ p + HeaderLength(f, p) <= FileSize(f)
       /\ BlockEnd(f, p) \in Starts[f]
       /\ \A q \in Starts[f] : q <= p \/ q >= BlockEnd(f, p)
       /\ BlockEnd(f, p) = FileSize(f) /\ Playable(BlockAt(f, p)) => BlockAt(f, p).size > 0

-----------------------------------------------------------------------------
(* The user selects one tape, once.                                        *)
SelectsOnce == path' = path \/ path = NoFile

OneTape == Init /\ [][Next /\ SelectsOnce]_vars

(* The bytes of the present block that the decoder has still to take.      *)
ToTake == current_block.size - (IF tape_bit = 0 THEN 0 ELSE 1)

(* The decoder takes b next: a byte of the header it gathers, or of the    *)
(* data it plays; otherwise the start of a block.                          *)
Due(b) ==
  IF Exhausted(current_block)
  THEN IF tape_header = << >> THEN b.at \in Starts[b.file]
       ELSE b = ByteAt(tape_header[1].file, tape_header[1].at + Len(tape_header))
  ELSE LET from == current_block.origin
       IN  IF ToTake = 0 THEN b.at \in Starts[b.file]
           ELSE b = ByteAt(from.file, BlockEnd(from.file, from.at) - ToTake)

(* The reader puts into the FIFO what the decoder is about to take: both   *)
(* find the same blocks, whatever the reader skips, repeats or has read    *)
(* ahead, wherever the FIFO was full or empty, and when the tape starts    *)
(* over.                                                                   *)
ReaderFeedsDecoder == fifo # << >> => Due(fifo[1])

(* Reading the header size table never goes past its end. *)
HeaderCodesKnown ==
  /\ tape_header # << >> /\ tzx => KnownCode(Value(tape_header[1]))
  /\ pc = "fill" /\ tzx /\ header = << >> /\ data_size = 0 /\ ~AtEnd =>
       KnownCode(Value(ByteAt(tape_file.name, tape_file.fptr)))
=============================================================================
