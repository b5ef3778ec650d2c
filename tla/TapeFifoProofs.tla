---------------------------- MODULE TapeFifoProofs ----------------------------
(***************************************************************************)
(* For every buffer size and every set of byte values: the fields of the   *)
(* ring stay in range and consistent with one another, and the ring        *)
(* implements the bounded queue of ByteQueue.                              *)
(***************************************************************************)
EXTENDS TapeFifo, SequenceTheorems, TLAPS

USE DepthAssumption, BytesAssumption

(* zx_fifo.c keeps every index within the buffer: the type invariant.      *)
THEOREM TypeCorrect == Spec => []TypeOK
<1>1. Init => TypeOK
  BY DEF Init, TypeOK
<1>2. TypeOK /\ [Next]_vars => TypeOK'
  <2> SUFFICES ASSUME TypeOK, [Next]_vars
               PROVE  TypeOK'
    OBVIOUS
  <2>1. CASE zx_fifo_init
    BY <2>1 DEF zx_fifo_init, TypeOK
  <2>2. CASE zx_fifo_clean
    BY <2>2 DEF zx_fifo_clean, TypeOK
  <2>3. ASSUME NEW value \in Bytes, zx_fifo_write_byte(value)
        PROVE  TypeOK'
    <3>1. CASE cntr = size
      BY <2>3, <3>1 DEF zx_fifo_write_byte, TypeOK
    <3>2. CASE cntr # size
      <4>1. size = Depth
        BY <3>2 DEF TypeOK
      <4>2. Advance(write_ptr, 1) \in 0 .. Depth - 1
        BY <4>1 DEF Advance, TypeOK
      <4> QED
        BY <2>3, <3>2, <4>1, <4>2 DEF zx_fifo_write_byte, TypeOK
    <3> QED
      BY <3>1, <3>2
  <2>4. CASE zx_fifo_read_byte
    <3>1. CASE cntr = 0
      <4>1. <<0>> \in Seq(Bytes)
        OBVIOUS
      <4> QED
        BY <2>4, <3>1, <4>1 DEF zx_fifo_read_byte, TypeOK
    <3>2. CASE cntr # 0
      <4>1. size = Depth
        BY <3>2 DEF TypeOK
      <4>2. Advance(read_ptr, 1) \in 0 .. Depth - 1
        BY <4>1 DEF Advance, TypeOK
      <4>3. <<buffer[read_ptr]>> \in Seq(Bytes)
        BY DEF TypeOK
      <4>4. result' \in Seq(Bytes)
        BY <2>4, <3>2, <4>3 DEF zx_fifo_read_byte
      <4>5. /\ read_ptr' = Advance(read_ptr, 1)
            /\ cntr' = cntr - 1
            /\ UNCHANGED <<buffer, size, write_ptr>>
        BY <2>4, <3>2 DEF zx_fifo_read_byte
      <4> QED
        BY <3>2, <4>1, <4>2, <4>4, <4>5 DEF TypeOK
    <3> QED
      BY <3>1, <3>2
  <2>5. ASSUME NEW cnt \in 0 .. Depth + 1, zx_filo_read_file(cnt)
        PROVE  TypeOK'
    <3> DEFINE n == IF cnt > cntr THEN cntr ELSE cnt
    <3>1. n \in 0 .. cntr
      BY DEF TypeOK
    <3>2. Advance(read_ptr, n) \in 0 .. Depth - 1
      <4>1. CASE size = 0
        BY <3>1, <4>1 DEF Advance, TypeOK
      <4>2. CASE size = Depth
        BY <3>1, <4>2 DEF Advance, TypeOK
      <4> QED
        BY <4>1, <4>2 DEF TypeOK
    <3>3. \A i \in 1 .. n : buffer[Advance(read_ptr, i - 1)] \in Bytes
      <4> TAKE i \in 1 .. n
      <4>1. size = Depth
        BY <3>1 DEF TypeOK
      <4>2. Advance(read_ptr, i - 1) \in 0 .. Depth - 1
        BY <3>1, <4>1 DEF Advance, TypeOK
      <4> QED
        BY <4>2 DEF TypeOK
    <3>4. [i \in 1 .. n |-> buffer[Advance(read_ptr, i - 1)]] \in Seq(Bytes)
      BY <3>1, <3>3 DEF TypeOK
    <3> QED
      BY <2>5, <3>1, <3>2, <3>4 DEF zx_filo_read_file, TypeOK
  <2>6. CASE UNCHANGED vars
    BY <2>6 DEF vars, TypeOK
  <2> QED
    BY <2>1, <2>2, <2>3, <2>4, <2>5, <2>6 DEF Next
<1> QED
  BY <1>1, <1>2, PTL DEF Spec

-----------------------------------------------------------------------------
(* The write index is always cntr places after the read index: from the   *)
(* type invariant, and from each function moving the count with the index. *)
THEOREM IndicesConsistent == Spec => []RingConsistent
<1>1. Init => RingConsistent
  BY DEF Init, RingConsistent
<1>2. TypeOK /\ RingConsistent /\ [Next]_vars => RingConsistent'
  <2> SUFFICES ASSUME TypeOK, RingConsistent, [Next]_vars
               PROVE  RingConsistent'
    OBVIOUS
  <2>1. CASE zx_fifo_init
    BY <2>1 DEF zx_fifo_init, RingConsistent, Advance
  <2>2. CASE zx_fifo_clean
    BY <2>2 DEF zx_fifo_clean, RingConsistent, Advance, TypeOK
  <2>3. ASSUME NEW value \in Bytes, zx_fifo_write_byte(value)
        PROVE  RingConsistent'
    BY <2>3 DEF zx_fifo_write_byte, RingConsistent, Advance, TypeOK
  <2>4. CASE zx_fifo_read_byte
    BY <2>4 DEF zx_fifo_read_byte, RingConsistent, Advance, TypeOK
  <2>5. ASSUME NEW cnt \in 0 .. Depth + 1, zx_filo_read_file(cnt)
        PROVE  RingConsistent'
    BY <2>5 DEF zx_filo_read_file, RingConsistent, Advance, TypeOK
  <2>6. CASE UNCHANGED vars
    BY <2>6 DEF vars, RingConsistent, Advance
  <2> QED
    BY <2>1, <2>2, <2>3, <2>4, <2>5, <2>6 DEF Next
<1> QED
  BY <1>1, <1>2, TypeCorrect, PTL DEF Spec

-----------------------------------------------------------------------------
(* The stored bytes are a sequence of cntr bytes. *)
LEMMA StoredIsSequence ==
  ASSUME TypeOK
  PROVE  /\ Stored \in Seq(Bytes)
         /\ Len(Stored) = cntr
         /\ \A i \in 1 .. cntr : Stored[i] = buffer[Advance(read_ptr, i - 1)]
<1>1. \A i \in 1 .. cntr : buffer[Advance(read_ptr, i - 1)] \in Bytes
  BY DEF Advance, TypeOK
<1>2. cntr \in Nat
  BY DEF TypeOK
<1> QED
  BY <1>1, <1>2 DEF Stored

(* The ring forgets its bytes when the count is zero. *)
LEMMA NothingStored ==
  ASSUME cntr = 0
  PROVE  Stored = << >>
  BY DEF Stored

(* A write to a ring with room stores the byte after the others. *)
LEMMA WriteAppends ==
  ASSUME TypeOK, TypeOK', RingConsistent, NEW value \in Bytes,
         zx_fifo_write_byte(value), cntr # size
  PROVE  Stored' = Append(Stored, value)
<1>1. /\ size = Depth /\ size' = Depth
      /\ cntr' = cntr + 1 /\ read_ptr' = read_ptr
      /\ buffer' = [buffer EXCEPT ![write_ptr] = value]
      /\ write_ptr = Advance(read_ptr, cntr)
  BY DEF zx_fifo_write_byte, TypeOK, RingConsistent
<1>2. /\ Stored' \in Seq(Bytes)
      /\ Len(Stored') = cntr + 1
      /\ \A i \in 1 .. cntr + 1 : Stored'[i] = buffer'[Advance(read_ptr, i - 1)]
  <2>1. Stored' = [i \in 1 .. cntr + 1 |-> buffer'[Advance(read_ptr, i - 1)]]
    BY <1>1 DEF Stored, Advance
  <2>2. \A i \in 1 .. cntr + 1 : buffer'[Advance(read_ptr, i - 1)] \in Bytes
    <3> TAKE i \in 1 .. cntr + 1
    <3>1. Advance(read_ptr, i - 1) \in 0 .. Depth - 1
      BY <1>1 DEF Advance, TypeOK
    <3>2. buffer' \in [0 .. Depth - 1 -> Bytes]
      BY DEF TypeOK
    <3> QED
      BY <3>1, <3>2
  <2>3. cntr + 1 \in Nat
    BY DEF TypeOK
  <2> QED
    BY <2>1, <2>2, <2>3
<1>3. \A i \in 1 .. cntr : Stored'[i] = Stored[i]
  <2> TAKE i \in 1 .. cntr
  <2>1. Advance(read_ptr, i - 1) # Advance(read_ptr, cntr)
    BY <1>1 DEF Advance, TypeOK
  <2>2. Advance(read_ptr, i - 1) \in 0 .. Depth - 1
    BY <1>1 DEF Advance, TypeOK
  <2>3. buffer'[Advance(read_ptr, i - 1)] = buffer[Advance(read_ptr, i - 1)]
    BY <1>1, <2>1, <2>2 DEF TypeOK
  <2> QED
    BY <1>2, <2>3, StoredIsSequence DEF TypeOK
<1>4. Stored'[cntr + 1] = value
  BY <1>1, <1>2 DEF TypeOK
<1>5. /\ Append(Stored, value) \in Seq(Bytes)
      /\ Len(Append(Stored, value)) = cntr + 1
      /\ \A i \in 1 .. cntr : Append(Stored, value)[i] = Stored[i]
      /\ Append(Stored, value)[cntr + 1] = value
  BY StoredIsSequence, AppendProperties DEF TypeOK
<1>6. \A i \in 1 .. cntr + 1 : Stored'[i] = Append(Stored, value)[i]
  BY <1>3, <1>4, <1>5 DEF TypeOK
<1> QED
  BY <1>2, <1>5, <1>6, SeqEqual

(* Reading n bytes hands out the n oldest ones and keeps the others in     *)
(* order.                                                                  *)
LEMMA ReadTakesOldest ==
  ASSUME TypeOK, NEW n \in 0 .. cntr,
         read_ptr' = Advance(read_ptr, n), cntr' = cntr - n,
         UNCHANGED <<buffer, size>>
  PROVE  /\ Stored' = SubSeq(Stored, n + 1, Len(Stored))
         /\ [i \in 1 .. n |-> buffer[Advance(read_ptr, i - 1)]] = SubSeq(Stored, 1, n)
<1>1. /\ cntr \in Nat
      /\ n \in Nat
      /\ n <= cntr
  BY DEF TypeOK
<1>2. /\ Stored \in Seq(Bytes)
      /\ Len(Stored) = cntr
      /\ \A i \in 1 .. cntr : Stored[i] = buffer[Advance(read_ptr, i - 1)]
      /\ \A i \in 1 .. cntr : Stored[i] \in Bytes
  BY StoredIsSequence
<1>3. Stored' = SubSeq(Stored, n + 1, Len(Stored))
  <2> DEFINE rest == SubSeq(Stored, n + 1, cntr)
  <2>1. /\ rest \in Seq(Bytes)
        /\ Len(rest) = cntr - n
        /\ \A i \in 1 .. cntr - n : rest[i] = Stored[n + i]
    <3>1. \A i \in n + 1 .. cntr : Stored[i] \in Bytes
      BY <1>1, <1>2
    <3>2. n + 1 \in Int /\ cntr \in Int
      BY <1>1
    <3>3. /\ rest \in Seq(Bytes)
          /\ Len(rest) = IF n + 1 <= cntr THEN cntr - (n + 1) + 1 ELSE 0
          /\ \A i \in 1 .. cntr - (n + 1) + 1 : rest[i] = Stored[(n + 1) + i - 1]
      BY <3>1, <3>2, SubSeqProperties
    <3> QED
      BY <1>1, <3>3
  <2>2. Stored' = [i \in 1 .. cntr - n |-> buffer[Advance(Advance(read_ptr, n), i - 1)]]
    BY DEF Stored, Advance
  <2>3. \A i \in 1 .. cntr - n :
           buffer[Advance(Advance(read_ptr, n), i - 1)] = Stored[n + i]
    <3> TAKE i \in 1 .. cntr - n
    <3>1. Advance(Advance(read_ptr, n), i - 1) = Advance(read_ptr, n + i - 1)
      BY <1>1 DEF Advance, TypeOK
    <3>2. Stored[n + i] = buffer[Advance(read_ptr, n + i - 1)]
      BY <1>1, <1>2
    <3> QED
      BY <3>1, <3>2
  <2>4. \A i \in 1 .. cntr - n : Stored[n + i] \in Bytes
    BY <1>1, <1>2
  <2>5. /\ Stored' \in Seq(Bytes)
        /\ Len(Stored') = cntr - n
        /\ \A i \in 1 .. cntr - n : Stored'[i] = Stored[n + i]
    <3>1. cntr - n \in Nat
      BY <1>1
    <3> QED
      BY <2>2, <2>3, <2>4, <3>1
  <2>6. Stored' = rest
    BY <2>1, <2>5, SeqEqual
  <2> QED
    BY <1>2, <2>6
<1>4. [i \in 1 .. n |-> buffer[Advance(read_ptr, i - 1)]] = SubSeq(Stored, 1, n)
  <2> DEFINE taken == [i \in 1 .. n |-> buffer[Advance(read_ptr, i - 1)]]
             first == SubSeq(Stored, 1, n)
  <2>1. /\ first \in Seq(Bytes)
        /\ Len(first) = n
        /\ \A i \in 1 .. n : first[i] = Stored[i]
    <3>1. \A i \in 1 .. n : Stored[i] \in Bytes
      BY <1>1, <1>2
    <3>2. /\ first \in Seq(Bytes)
          /\ Len(first) = IF 1 <= n THEN n - 1 + 1 ELSE 0
          /\ \A i \in 1 .. n - 1 + 1 : first[i] = Stored[1 + i - 1]
      BY <1>1, <3>1, SubSeqProperties
    <3> QED
      BY <1>1, <3>2
  <2>2. /\ taken \in Seq(Bytes)
        /\ Len(taken) = n
        /\ \A i \in 1 .. n : taken[i] = Stored[i]
    <3>1. \A i \in 1 .. n : /\ buffer[Advance(read_ptr, i - 1)] = Stored[i]
                             /\ Stored[i] \in Bytes
      BY <1>1, <1>2
    <3> QED
      BY <1>1, <3>1
  <2> QED
    BY <2>1, <2>2, SeqEqual
<1> QED
  BY <1>3, <1>4

(* zx_fifo.c implements the bounded queue: whatever calls are made, each   *)
(* one returns and keeps what a first-in first-out queue of that size      *)
(* would.                                                                  *)
THEOREM RingImplementsQueue == Spec => ImplementsQueue
<1>1. Init => Queue!Init
  BY NothingStored DEF Init, Queue!Init
<1>2. TypeOK /\ TypeOK' /\ RingConsistent /\ [Next]_vars => [Queue!Next]_(Queue!vars)
  <2> SUFFICES ASSUME TypeOK, TypeOK', RingConsistent, [Next]_vars
               PROVE  [Queue!Next]_(Queue!vars)
    OBVIOUS
  <2>1. CASE zx_fifo_init
    <3>1. Stored' = << >>
      BY <2>1 DEF zx_fifo_init, Stored
    <3> QED
      BY <2>1, <3>1 DEF zx_fifo_init, Queue!Next, Queue!Open
  <2>2. CASE zx_fifo_clean
    <3>1. Stored' = << >>
      BY <2>2 DEF zx_fifo_clean, Stored
    <3> QED
      BY <2>2, <3>1 DEF zx_fifo_clean, Queue!Next, Queue!Clean
  <2>3. ASSUME NEW value \in Bytes, zx_fifo_write_byte(value)
        PROVE  Queue!Next
    <3>1. /\ result' = NoResult
          /\ size' = size
          /\ Len(Stored) = cntr
      BY <2>3, StoredIsSequence DEF zx_fifo_write_byte
    <3>2. CASE cntr = size
      <4>1. Stored' = Stored
        BY <2>3, <3>2 DEF zx_fifo_write_byte, Stored, Advance
      <4>2. ~(Len(Stored) < size)
        BY <3>1, <3>2 DEF TypeOK
      <4> QED
        BY <3>1, <4>1, <4>2 DEF Queue!Next, Queue!Write
    <3>3. CASE cntr # size
      <4>1. Stored' = Append(Stored, value)
        BY <2>3, <3>3, WriteAppends
      <4>2. Len(Stored) < size
        BY <3>1, <3>3 DEF TypeOK
      <4> QED
        BY <3>1, <4>1, <4>2 DEF Queue!Next, Queue!Write
    <3> QED
      BY <3>2, <3>3
  <2>4. CASE zx_fifo_read_byte
    <3>1. CASE cntr = 0
      <4>1. Stored = << >> /\ Stored' = << >>
        BY <2>4, <3>1 DEF zx_fifo_read_byte, Stored
      <4> QED
        BY <2>4, <3>1, <4>1 DEF zx_fifo_read_byte, Queue!Next, Queue!ReadNothing
    <3>2. CASE cntr # 0
      <4>1. /\ 1 \in 0 .. cntr
            /\ 1 \in 0 .. Depth
        BY <3>2 DEF TypeOK
      <4>2. /\ read_ptr' = Advance(read_ptr, 1)
            /\ cntr' = cntr - 1
            /\ UNCHANGED <<buffer, size>>
            /\ result' = <<buffer[read_ptr]>>
        BY <2>4, <3>2 DEF zx_fifo_read_byte
      <4>3. /\ Stored' = SubSeq(Stored, 2, Len(Stored))
            /\ [i \in 1 .. 1 |-> buffer[Advance(read_ptr, i - 1)]] = SubSeq(Stored, 1, 1)
        BY <4>1, <4>2, ReadTakesOldest
      <4>4. <<buffer[read_ptr]>> = [i \in 1 .. 1 |-> buffer[Advance(read_ptr, i - 1)]]
        BY <3>2 DEF Advance, TypeOK
      <4>5. Queue!Read(1)
        BY <4>1, <4>2, <4>3, <4>4, StoredIsSequence DEF Queue!Read
      <4> QED
        BY <4>1, <4>5 DEF Queue!Next
    <3> QED
      BY <3>1, <3>2
  <2>5. ASSUME NEW cnt \in 0 .. Depth + 1, zx_filo_read_file(cnt)
        PROVE  Queue!Next
    <3> DEFINE n == IF cnt > cntr THEN cntr ELSE cnt
    <3>1. /\ n \in 0 .. cntr
          /\ n \in 0 .. Depth
      BY DEF TypeOK
    <3>2. /\ read_ptr' = Advance(read_ptr, n)
          /\ cntr' = cntr - n
          /\ UNCHANGED <<buffer, size>>
          /\ result' = [i \in 1 .. n |-> buffer[Advance(read_ptr, i - 1)]]
      BY <2>5 DEF zx_filo_read_file
    <3> HIDE DEF n
    <3>3. /\ Stored' = SubSeq(Stored, n + 1, Len(Stored))
          /\ result' = SubSeq(Stored, 1, n)
      BY <3>1, <3>2, ReadTakesOldest
    <3>4. Queue!Read(n)
      BY <3>1, <3>2, <3>3, StoredIsSequence DEF Queue!Read
    <3> QED
      BY <3>1, <3>4 DEF Queue!Next
  <2>6. CASE UNCHANGED vars
    BY <2>6 DEF vars, Queue!vars, Stored, Advance
  <2> QED
    BY <2>1, <2>2, <2>3, <2>4, <2>5, <2>6 DEF Next
<1> QED
  BY <1>1, <1>2, TypeCorrect, IndicesConsistent, PTL DEF Spec, ImplementsQueue, Queue!Spec
=============================================================================
