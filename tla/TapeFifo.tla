------------------------------- MODULE TapeFifo -------------------------------
(***************************************************************************)
(* The byte FIFO between the tape file reader and the pulse generator      *)
(* (zx_spectrum_file_io/zx_fifo.c): a ring buffer with a read index, a     *)
(* write index and a count of the stored bytes.  One action per function   *)
(* of the interface; they run to completion, the FIFO is used from the     *)
(* main loop only.                                                         *)
(***************************************************************************)
EXTENDS Integers, Sequences

CONSTANTS
  Bytes,     (* uint8_t, or a small part of it that contains 0             *)
  Depth,     (* ZX_TAPE_FIFO_DEPTH, the buffer_size given to zx_fifo_init  *)
  NoResult   (* the result of a call that returns nothing                  *)

ASSUME DepthAssumption == Depth \in Nat \ {0}
ASSUME BytesAssumption == 0 \in Bytes
ASSUME NoResultAssumption == NoResult \notin Seq(Bytes)

VARIABLES
  buffer,    (* the memory behind the FIFO                       *)
  size,      (* zx_tape_fifo_Struct.size                         *)
  cntr,      (* zx_tape_fifo_Struct.cntr                         *)
  write_ptr, (* zx_tape_fifo_Struct.write_ptr                    *)
  read_ptr,  (* zx_tape_fifo_Struct.read_ptr                     *)
  result     (* what the last call returned                      *)

vars == <<buffer, size, cntr, write_ptr, read_ptr, result>>

(* Static storage: all zero, and no buffer before the first zx_fifo_init. *)
Init ==
  /\ buffer = [i \in 0 .. Depth - 1 |-> 0]
  /\ size = 0
  /\ cntr = 0
  /\ write_ptr = 0
  /\ read_ptr = 0
  /\ result = NoResult

(* Mutation: the index wraps one place too late. *)
AdvanceLate(ptr, k) == IF ptr + k > size THEN ptr + k - size ELSE ptr + k

(* The index k places after ptr, when ptr and k are both within the ring: *)
(* an index that reaches the size restarts from 0.                        *)
Advance(ptr, k) == IF ptr + k >= size THEN ptr + k - size ELSE ptr + k

(* Mutation: the read index is not reset. *)
CleanKeepsReadPtr ==
  /\ cntr' = 0
  /\ write_ptr' = 0
  /\ result' = NoResult
  /\ UNCHANGED <<buffer, size, read_ptr>>

zx_fifo_clean ==
  /\ cntr' = 0
  /\ write_ptr' = 0
  /\ read_ptr' = 0
  /\ result' = NoResult
  /\ UNCHANGED <<buffer, size>>

zx_fifo_init ==
  /\ size' = Depth
  /\ cntr' = 0
  /\ write_ptr' = 0
  /\ read_ptr' = 0
  /\ result' = NoResult
  /\ UNCHANGED buffer

(* Mutation: a write to a full FIFO replaces the oldest byte. *)
WriteOverOldest(value) ==
  /\ result' = NoResult
  /\ size > 0
  /\ buffer' = [buffer EXCEPT ![write_ptr] = value]
  /\ write_ptr' = Advance(write_ptr, 1)
  /\ IF cntr = size
     THEN read_ptr' = Advance(read_ptr, 1) /\ UNCHANGED cntr
     ELSE cntr' = cntr + 1 /\ UNCHANGED read_ptr
  /\ UNCHANGED size

(* A write to a full FIFO is dropped. *)
zx_fifo_write_byte(value) ==
  /\ result' = NoResult
  /\ IF cntr = size
     THEN UNCHANGED <<buffer, cntr, write_ptr>>
     ELSE /\ buffer' = [buffer EXCEPT ![write_ptr] = value]
          /\ write_ptr' = Advance(write_ptr, 1)
          /\ cntr' = cntr + 1
  /\ UNCHANGED <<size, read_ptr>>

(* A read of an empty FIFO returns 0 and changes nothing. *)
zx_fifo_read_byte ==
  /\ IF cntr = 0
     THEN /\ result' = <<0>>
          /\ UNCHANGED <<cntr, read_ptr>>
     ELSE /\ result' = <<buffer[read_ptr]>>
          /\ read_ptr' = Advance(read_ptr, 1)
          /\ cntr' = cntr - 1
  /\ UNCHANGED <<buffer, size, write_ptr>>

(* A bulk read takes what there is of the cnt bytes asked for. *)
zx_filo_read_file(cnt) ==
  LET n == IF cnt > cntr THEN cntr ELSE cnt
  IN  /\ result' = [i \in 1 .. n |-> buffer[Advance(read_ptr, i - 1)]]
      /\ read_ptr' = Advance(read_ptr, n)
      /\ cntr' = cntr - n
      /\ UNCHANGED <<buffer, size, write_ptr>>

Next ==
  \/ zx_fifo_init
  \/ zx_fifo_clean
  \/ \E value \in Bytes : zx_fifo_write_byte(value)
  \/ zx_fifo_read_byte
  \/ \E cnt \in 0 .. Depth + 1 : zx_filo_read_file(cnt)

Spec == Init /\ [][Next]_vars

-----------------------------------------------------------------------------
(* Every field stays in its range: the two indices never point past the   *)
(* end of the buffer and the count never exceeds its size.                *)
TypeOK ==
  /\ buffer \in [0 .. Depth - 1 -> Bytes]
  /\ size \in {0, Depth}
  /\ cntr \in 0 .. size
  /\ write_ptr \in 0 .. Depth - 1
  /\ read_ptr \in 0 .. Depth - 1
  /\ result \in Seq(Bytes) \cup {NoResult}

(* The three fields are redundant, and stay consistent: the next free     *)
(* place is cntr places after the oldest byte, wrapping at the size, also *)
(* after a bulk read that wraps and after a full ring is emptied.         *)
RingConsistent ==
  IF size = 0
  THEN write_ptr = 0 /\ read_ptr = 0
  ELSE write_ptr = Advance(read_ptr, cntr)

-----------------------------------------------------------------------------
(* The ring implements the bounded queue of ByteQueue: the stored bytes,   *)
(* oldest first, are those from read_ptr on.                               *)
Stored == [i \in 1 .. cntr |-> buffer[Advance(read_ptr, i - 1)]]

Queue == INSTANCE ByteQueue WITH capacity <- size, queue <- Stored

(* Every call returns what a first-in first-out queue of that size would   *)
(* return, in whatever order the calls are made.                           *)
ImplementsQueue == Queue!Spec
=============================================================================
