------------------------------ MODULE ByteQueue ------------------------------
(***************************************************************************)
(* What zx_fifo.h promises of a FIFO: a bounded first-in first-out queue   *)
(* of bytes.  A byte written to a full queue is dropped, a byte read from  *)
(* an empty queue is 0 and a bulk read is clipped to what is stored.       *)
(*                                                                         *)
(* "result" is what the last call handed back to its caller, so that an    *)
(* implementation has to return the same bytes, not only to store them.    *)
(***************************************************************************)
EXTENDS Naturals, Sequences

CONSTANTS
  Bytes,     (* the values an element can take                       *)
  Depth,     (* the size of the buffer handed to zx_fifo_init        *)
  NoResult   (* what a call that returns nothing hands back          *)

VARIABLES
  capacity,  (* 0 until the queue has been given its buffer          *)
  queue,     (* the stored bytes, oldest first                       *)
  result     (* what the last call returned: a sequence of bytes     *)

vars == <<capacity, queue, result>>

Init ==
  /\ capacity = 0
  /\ queue = << >>
  /\ result = NoResult

(* zx_fifo_init: the queue gets its buffer and forgets what it held. *)
Open ==
  /\ capacity' = Depth
  /\ queue' = << >>
  /\ result' = NoResult

(* zx_fifo_clean: the queue forgets what it held. *)
Clean ==
  /\ queue' = << >>
  /\ result' = NoResult
  /\ UNCHANGED capacity

(* zx_fifo_write_byte: the newest byte, unless there is no room for it. *)
Write(value) ==
  /\ queue' = IF Len(queue) < capacity THEN Append(queue, value) ELSE queue
  /\ result' = NoResult
  /\ UNCHANGED capacity

(* zx_fifo_read_byte on an empty queue. *)
ReadNothing ==
  /\ queue = << >>
  /\ result' = <<0>>
  /\ UNCHANGED <<capacity, queue>>

(* zx_fifo_read_byte and zx_filo_read_file: the n oldest bytes. *)
Read(n) ==
  /\ n <= Len(queue)
  /\ queue' = SubSeq(queue, n + 1, Len(queue))
  /\ result' = SubSeq(queue, 1, n)
  /\ UNCHANGED capacity

Next ==
  \/ Open
  \/ Clean
  \/ \E value \in Bytes : Write(value)
  \/ ReadNothing
  \/ \E n \in 0 .. Depth : Read(n)

Spec == Init /\ [][Next]_vars
=============================================================================
