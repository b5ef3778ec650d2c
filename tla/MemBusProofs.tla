---------------------------- MODULE MemBusProofs ----------------------------
(***************************************************************************)
(* That the bus master and the requester in front of it make an atomic     *)
(* memory, for any number of words, lanes and values and any pace of the   *)
(* slave.  The argument is an inductive invariant in three parts: what the *)
(* request says of the strobe and of the state of the bus, what a read     *)
(* burst has still to bring, and where a write is.                         *)
(***************************************************************************)
EXTENDS MemBus, SequenceTheorems, TLAPS

Ends == {"done", "error"}

(* A request stands for the present strobe, and is answered at the end of  *)
(* an access only.                                                         *)
Requesting ==
    /\ memWait = req
    /\ state # "idle" => req
    /\ (req /\ ack) <=> state \in Ends
    /\ req => /\ strobe # "none" /\ prev = strobe /\ addr = cpuA
              /\ memWr <=> strobe = "write"
              /\ memWr => dout = cpuD
    /\ ~req => ~memWr /\ (prev = strobe \/ prev = "none" \/ strobe = "none")

(* The beats that the slave owes: of an earlier burst at most a last one,  *)
(* of the present one both.                                                *)
Late(b) == b = <<>> \/ (Len(b) = 1 /\ b[1].last)
Due(b, cell) ==
    \/ Len(b) = 2 /\ ~b[1].last /\ b[1].cell = cell /\ b[2].last
    \/ Len(b) = 3 /\ b[1].last /\ ~b[2].last /\ b[2].cell = cell /\ b[3].last

Bursting == state = "wait_data_start" /\ ~memWr

ReadPath ==
    /\ arvalid <=> state = "wait_addr_ack" /\ ~memWr
    /\ arvalid => araddr = addr[1]
    /\ rready <=> ~memWr /\ state \in {"wait_data_start", "read"} \cup Ends
    /\ state = "read" => ~memWr
    /\ rvalid => beats # <<>>
    /\ IF Bursting THEN Due(beats, mem[addr[1]]) ELSE Late(beats)
    /\ ~memWr /\ state \in {"read"} \cup Ends => data = mem[addr[1]][addr[2]]
    /\ strobe = "read" /\ prev = "read" /\ ~req => din = mem[cpuA[1]][cpuA[2]]

(* The data of the present write have been taken. *)
Decided ==
    /\ strobe = "write"
    /\ \/ req /\ state \in {"write_ack"} \cup Ends
       \/ ~req /\ prev = "write"

WritePath ==
    /\ awvalid <=> state = "wait_addr_ack" /\ memWr
    /\ awvalid => awaddr = addr[1]
    /\ state \in {"write", "write_ack"} => memWr
    /\ wvalid <=> state = "write"
    /\ memWr /\ state \in {"wait_data_start", "write"} => held = addr[1]
    /\ wstrb = IF state = "write" THEN {addr[2]} ELSE {}
    /\ state = "write" => wdata[addr[2]] = dout
    /\ outcome # "none" <=> Decided

IInv == TypeOK /\ Requesting /\ ReadPath /\ WritePath

-----------------------------------------------------------------------------
(* The request.                                                            *)

(* While a request stands, the Z80 is stopped and the request stays as it  *)
(* is, up to the end of the access.                                        *)
LEMMA Stands ==
  ASSUME IInv, NEW ar \in BOOLEAN, NEW aw \in BOOLEAN, NEW w \in BOOLEAN, Clock(ar, aw, w), req
  PROVE  /\ UNCHANGED <<strobe, cpuA, cpuD, got, addr, dout, prev>>
         /\ Answered <=> state \in Ends
         /\ req' = memWait' /\ (req' <=> state \notin Ends)
         /\ (memWr' <=> memWr /\ state \notin Ends)
<1>1. /\ memWait = req /\ (req /\ ack <=> state \in Ends)
      /\ strobe # "none" /\ prev = strobe /\ addr = cpuA /\ (memWr <=> strobe = "write")
      /\ (memWr => dout = cpuD)
      /\ memWr \in BOOLEAN /\ memWait \in BOOLEAN /\ req \in BOOLEAN /\ ack \in BOOLEAN
  BY DEF IInv, Requesting, TypeOK
<1>2. UNCHANGED z80Vars
  BY <1>1 DEF Clock, Z80Asks, Z80Ends, Z80Rests, Z80Clocked
<1>3. ~Edge /\ (Answered <=> state \in Ends)
  BY <1>1 DEF Edge, Answered
<1>4. /\ prev' = strobe /\ addr' = addr /\ dout' = dout
      /\ req' = ~Answered /\ memWait' = ~Answered
      /\ memWr' = IF Answered THEN FALSE ELSE memWr
  BY <1>1, <1>3 DEF Clock, Main
<1> QED
  BY <1>1, <1>2, <1>3, <1>4 DEF z80Vars

(* Without a request the bus rests.                                        *)
LEMMA Rests ==
  ASSUME IInv, NEW ar \in BOOLEAN, NEW aw \in BOOLEAN, NEW w \in BOOLEAN, Clock(ar, aw, w), ~req
  PROVE  /\ state = "idle" /\ state' = "idle" /\ ack' = FALSE
         /\ UNCHANGED <<readRegs, writeRegs>>
         /\ prev' = strobe
         /\ req' = memWait' /\ (req' <=> Edge)
         /\ memWr' = (Edge /\ strobe = "write")
         /\ addr' = IF Edge THEN cpuA ELSE addr
         /\ dout' = IF Edge /\ strobe = "write" THEN cpuD ELSE dout
         /\ Edge => UNCHANGED z80Vars
         /\ Z80Asks \/ Z80Ends \/ Z80Rests
<1>1. state = "idle" /\ memWait = FALSE /\ memWr = FALSE /\ req = FALSE
  BY DEF IInv, Requesting, TypeOK
<1>2. BusIdle
  BY <1>1 DEF Clock, Bus, BusIdle, SetReadAddr, ReadAddrAck, ReadDataStart, BusRead, SetWriteAddr,
     WriteAddrAck, WriteDataStart, BusWrite, BusWriteAck, BusEnds
<1>3. Edge \in BOOLEAN /\ Answered = FALSE
  BY <1>1 DEF Edge, Answered
<1>4. Edge => UNCHANGED z80Vars
  BY DEF Clock, Z80Asks, Z80Ends, Z80Rests, Z80Clocked, Edge
<1> QED
  BY <1>1, <1>2, <1>3, <1>4 DEF BusIdle, Clock, Main

(* How the state of the bus goes on under a request.                       *)
LEMMA GoesOnTo ==
  ASSUME IInv, NEW ar \in BOOLEAN, NEW aw \in BOOLEAN, NEW w \in BOOLEAN, Clock(ar, aw, w), req
  PROVE  /\ state = "idle" => state' = "set_addr" /\ ~ack'
         /\ state = "set_addr" => state' = "wait_addr_ack" /\ ~ack'
         /\ state = "wait_addr_ack" => state' \in {"wait_addr_ack", "wait_data_start"} /\ ~ack'
         /\ state = "wait_data_start" =>
              /\ ~ack'
              /\ state' \in {"wait_data_start", IF memWr THEN "write" ELSE "read"}
         /\ state = "read" => state' \in Ends /\ ack'
         /\ state = "write" => state' \in {"write", "write_ack"} /\ ~ack'
         /\ state = "write_ack" =>
              (state' = "write_ack" /\ ~ack') \/ (state' \in Ends /\ ack')
         /\ state \in Ends => state' = "idle"
<1>1. /\ state \in States /\ (req /\ ack <=> state \in Ends) /\ ack \in BOOLEAN
      /\ state = "read" /\ rvalid => Head(beats).last = TRUE
  <2>1. beats \in Seq(Beat) /\ (state = "read" /\ rvalid => beats # <<>> /\ Late(beats))
    BY DEF IInv, TypeOK, ReadPath, Bursting
  <2>2. state = "read" /\ rvalid => Head(beats) = beats[1] /\ beats[1] \in Beat /\ beats[1].last
    BY <2>1, HeadTailProperties, ElementOfSeq DEF Late
  <2> QED
    BY <2>2 DEF IInv, TypeOK, Requesting, Beat
<1>2. Bus(ar, aw, w)
  BY DEF Clock
<1>3. CASE state \in {"idle", "set_addr", "wait_addr_ack", "wait_data_start"}
  BY <1>1, <1>2, <1>3 DEF Bus, BusIdle, SetReadAddr, ReadAddrAck, ReadDataStart, BusRead,
     SetWriteAddr, WriteAddrAck, WriteDataStart, BusWrite, BusWriteAck, BusEnds, Ends
<1>4. CASE state = "read"
  <2>1. BusRead
    BY <1>2, <1>4 DEF Bus, BusIdle, SetReadAddr, ReadAddrAck, ReadDataStart, SetWriteAddr,
       WriteAddrAck, WriteDataStart, BusWrite, BusWriteAck, BusEnds
  <2> QED
    BY <1>1, <1>4, <2>1 DEF BusRead, Ends
<1>5. CASE state = "write"
  <2>1. BusWrite(w)
    BY <1>2, <1>5 DEF Bus, BusIdle, SetReadAddr, ReadAddrAck, ReadDataStart, BusRead, SetWriteAddr,
       WriteAddrAck, WriteDataStart, BusWriteAck, BusEnds
  <2> QED
    BY <1>1, <1>5, <2>1 DEF BusWrite, Ends
<1>6. CASE state = "write_ack"
  <2>1. BusWriteAck
    BY <1>2, <1>6 DEF Bus, BusIdle, SetReadAddr, ReadAddrAck, ReadDataStart, BusRead, SetWriteAddr,
       WriteAddrAck, WriteDataStart, BusWrite, BusEnds
  <2>2. CASE bvalid
    BY <1>6, <2>1, <2>2 DEF BusWriteAck, Ends
  <2>3. CASE ~bvalid
    <3>1. state' = state /\ ack' = ack
      BY <2>1, <2>3 DEF BusWriteAck
    <3>2. ack = FALSE
      BY <1>1, <1>6 DEF Ends
    <3> QED
      BY <1>6, <3>1, <3>2 DEF Ends
  <2> QED
    BY <2>2, <2>3
<1>7. CASE state \in Ends
  <2>1. BusEnds
    BY <1>2, <1>7 DEF Bus, BusIdle, SetReadAddr, ReadAddrAck, ReadDataStart, BusRead, SetWriteAddr,
       WriteAddrAck, WriteDataStart, BusWrite, BusWriteAck, Ends
  <2> QED
    BY <1>7, <2>1 DEF BusEnds, Ends
<1> QED
  BY <1>1, <1>3, <1>4, <1>5, <1>6, <1>7 DEF States, Ends

LEMMA KeepsRequesting ==
  ASSUME IInv, NEW ar \in BOOLEAN, NEW aw \in BOOLEAN, NEW w \in BOOLEAN, Clock(ar, aw, w)
  PROVE  Requesting'
<1>1. /\ memWait = req /\ (req /\ ack <=> state \in Ends)
      /\ (req => /\ strobe # "none" /\ prev = strobe /\ addr = cpuA
                 /\ (memWr <=> strobe = "write") /\ (memWr => dout = cpuD))
      /\ (~req => prev = strobe \/ prev = "none" \/ strobe = "none")
      /\ state \in States /\ strobe \in {"none", "read", "write"}
  BY DEF IInv, Requesting, TypeOK
<1>2. CASE req
  <2>1. /\ UNCHANGED <<strobe, cpuA, cpuD, addr, dout, prev>>
        /\ req' = memWait' /\ (req' <=> state \notin Ends)
        /\ (memWr' <=> memWr /\ state \notin Ends)
    BY <1>2, Stands
  <2>2. /\ state' # "idle" => state \notin Ends
        /\ state \notin Ends => (ack' <=> state' \in Ends)
        /\ state \in Ends => state' \notin Ends
    BY <1>1, <1>2, GoesOnTo DEF States, Ends
  <2> QED
    BY <1>1, <1>2, <2>1, <2>2 DEF Requesting
<1>3. CASE ~req
  <2>1. /\ state' = "idle" /\ ack' = FALSE /\ prev' = strobe
        /\ req' = memWait' /\ (req' <=> Edge)
        /\ memWr' = (Edge /\ strobe = "write")
        /\ addr' = IF Edge THEN cpuA ELSE addr
        /\ dout' = IF Edge /\ strobe = "write" THEN cpuD ELSE dout
        /\ (Edge => UNCHANGED z80Vars)
        /\ Z80Asks \/ Z80Ends \/ Z80Rests
    BY <1>3, Rests
  <2>2. CASE Edge
    BY <2>1, <2>2 DEF Requesting, Edge, z80Vars, Ends
  <2>3. CASE ~Edge
    <3>1. prev' = strobe' \/ prev' = "none" \/ strobe' = "none"
      BY <2>1 DEF Z80Asks, Z80Ends, Z80Rests, z80Vars
    <3> QED
      BY <2>1, <2>3, <3>1 DEF Requesting, Ends
  <2> QED
    BY <2>2, <2>3
<1> QED
  BY <1>2, <1>3

-----------------------------------------------------------------------------
(* The read burst.                                                         *)

LEMMA TwoMore ==
  ASSUME NEW S, NEW t \in Seq(S), NEW b \in Seq(S), Len(b) = 2
  PROVE  /\ t \o b \in Seq(S) /\ Len(t \o b) = Len(t) + 2
         /\ \A i \in 1 .. Len(t) + 2 : (t \o b)[i] = IF i <= Len(t) THEN t[i] ELSE b[i - Len(t)]
<1>1. Len(t \o b) = Len(t) + Len(b)
  BY ConcatProperties
<1>2. t \o b \in Seq(S)
  BY ConcatProperties
<1>3. \A i \in 1 .. Len(t) + Len(b) : (t \o b)[i] = IF i <= Len(t) THEN t[i] ELSE b[i - Len(t)]
  BY ConcatProperties
<1> QED
  BY <1>1, <1>2, <1>3

LEMMA BurstFollows ==
  ASSUME NEW t \in Seq(Beat), Late(t), NEW first \in Beat, NEW second \in Beat,
         ~first.last, second.last
  PROVE  LET u == t \o <<first, second>>
         IN  u \in Seq(Beat) /\ Len(u) <= 3 /\ Due(u, first.cell)
<1> DEFINE b == <<first, second>>
           u == t \o b
<1>1. b \in Seq(Beat) /\ Len(b) = 2 /\ b[1] = first /\ b[2] = second
  OBVIOUS
<1>2. Len(t) \in Nat
  BY LenProperties
<1> HIDE DEF b
<1>3. /\ u \in Seq(Beat) /\ Len(u) = Len(t) + 2
      /\ \A i \in 1 .. Len(t) + 2 : u[i] = IF i <= Len(t) THEN t[i] ELSE b[i - Len(t)]
  BY <1>1, TwoMore
<1> HIDE DEF u
<1>4. CASE t = <<>>
  <2>1. Len(t) = 0
    BY <1>4, EmptySeq
  <2>2. Len(u) = 2 /\ u[1] = first /\ u[2] = second
    BY <1>1, <1>3, <2>1
  <2> QED
    BY <1>3, <2>2 DEF Due, u, b
<1>5. CASE Len(t) = 1 /\ t[1].last
  <2>1. Len(u) = 3 /\ u[1] = t[1] /\ u[2] = first /\ u[3] = second
    BY <1>1, <1>3, <1>5
  <2> QED
    BY <1>3, <1>5, <2>1 DEF Due, u, b
<1> QED
  BY <1>4, <1>5 DEF Late

LEMMA BeatTaken ==
  ASSUME NEW t \in Seq(Beat), t # <<>>, NEW cell
  PROVE  /\ Head(t) = t[1] /\ t[1] \in Beat /\ Tail(t) \in Seq(Beat)
         /\ Len(Tail(t)) = Len(t) - 1 /\ Len(t) \in Nat
         /\ Late(t) => Late(Tail(t))
         /\ Due(t, cell) /\ ~t[1].last => Late(Tail(t)) /\ t[1].cell = cell
         /\ Due(t, cell) /\ t[1].last => Due(Tail(t), cell)
<1>1. /\ Head(t) = t[1] /\ t[1] \in Beat /\ Tail(t) \in Seq(Beat)
      /\ Len(Tail(t)) = Len(t) - 1 /\ Len(t) \in Nat /\ Len(t) > 0
      /\ \A i \in 1 .. Len(t) - 1 : Tail(t)[i] = t[i + 1]
  BY HeadTailProperties, ElementOfSeq, LenProperties, EmptySeq
<1>2. Late(t) => Late(Tail(t))
  <2>1. Len(t) = 1 => Len(Tail(t)) = 0
    BY <1>1
  <2>2. Tail(t) # <<>> => Len(Tail(t)) # 0
    BY <1>1, EmptySeq
  <2> QED
    BY <2>1, <2>2 DEF Late
<1>3. ASSUME Due(t, cell), ~t[1].last PROVE Late(Tail(t)) /\ t[1].cell = cell
  <2>1. Len(t) = 2 /\ t[1].cell = cell /\ t[2].last
    BY <1>3 DEF Due
  <2>2. Tail(t)[1] = t[2]
    BY <1>1, <2>1
  <2> QED
    BY <1>1, <2>1, <2>2 DEF Late
<1>4. ASSUME Due(t, cell), t[1].last PROVE Due(Tail(t), cell)
  <2>1. Len(t) = 3 /\ ~t[2].last /\ t[2].cell = cell /\ t[3].last
    BY <1>4 DEF Due
  <2>2. Tail(t)[1] = t[2] /\ Tail(t)[2] = t[3] /\ Len(Tail(t)) = 2
    BY <1>1, <2>1
  <2> QED
    BY <2>1, <2>2 DEF Due
<1> QED
  BY <1>1, <1>2, <1>3, <1>4

(* The memory changes at the data of a write only. *)
LEMMA Steady ==
  ASSUME IInv, NEW ar \in BOOLEAN, NEW aw \in BOOLEAN, NEW w \in BOOLEAN, Clock(ar, aw, w),
         state # "write"
  PROVE  mem' = mem /\ SlaveResponds(aw)
  BY DEF IInv, WritePath, Clock, SlaveWrites, SlaveResponds

LEMMA KeepsBeats ==
  ASSUME IInv, NEW ar \in BOOLEAN, NEW aw \in BOOLEAN, NEW w \in BOOLEAN, Clock(ar, aw, w)
  PROVE  /\ beats' \in Seq(Beat) /\ Len(beats') <= 3
         /\ rvalid' => beats' # <<>>
         /\ IF Bursting' THEN Due(beats', mem'[addr'[1]]) ELSE Late(beats')
<1>1. /\ beats \in Seq(Beat) /\ Len(beats) <= 3
      /\ (rvalid => beats # <<>>)
      /\ IF Bursting THEN Due(beats, mem[addr[1]]) ELSE Late(beats)
      /\ mem \in [Word -> Cell] /\ araddr \in Word /\ memWr \in BOOLEAN /\ state \in States
      /\ (arvalid <=> state = "wait_addr_ack" /\ ~memWr)
      /\ (arvalid => araddr = addr[1])
      /\ (rready <=> ~memWr /\ state \in {"wait_data_start", "read"} \cup Ends)
      /\ (state # "idle" => req)
  BY DEF IInv, TypeOK, ReadPath, Requesting
<1> DEFINE rest == IF rvalid /\ rready THEN Tail(beats) ELSE beats
           first == [cell |-> mem[araddr], last |-> FALSE]
           second == [cell |-> mem[NextWord(araddr)], last |-> TRUE]
<1>2. /\ beats' = IF arvalid /\ ar THEN rest \o <<first, second>> ELSE rest
      /\ rvalid' => beats' # <<>>
  BY DEF Clock, SlaveReads
<1>3. first \in Beat /\ second \in Beat /\ first.cell = mem[araddr] /\ ~first.last /\ second.last
  <2>1. NextWord(araddr) \in Word
    BY <1>1 DEF NextWord
  <2> QED
    BY <1>1, <2>1 DEF Beat
<1> HIDE DEF first, second
<1>4. /\ rest \in Seq(Beat) /\ Len(rest) <= 3
      /\ rvalid => /\ Head(beats) = beats[1] /\ beats[1] \in Beat
                   /\ (Late(beats) => Late(Tail(beats)))
                   /\ (Due(beats, mem[addr[1]]) /\ ~beats[1].last => Late(Tail(beats)))
                   /\ (Due(beats, mem[addr[1]]) /\ beats[1].last => Due(Tail(beats), mem[addr[1]]))
  <2>1. CASE rvalid
    BY <1>1, <2>1, BeatTaken
  <2>2. CASE ~rvalid
    BY <1>1, <2>2
  <2> QED
    BY <2>1, <2>2
<1>5. CASE Bursting
  <2>1. req /\ ~arvalid /\ rready /\ state = "wait_data_start" /\ ~memWr /\ mem' = mem
    BY <1>1, <1>5, Steady DEF Bursting
  <2>2. addr' = addr /\ (memWr' <=> memWr)
    BY <2>1, Stands DEF Ends
  <2>3. IF FirstBeat THEN state' = "read" ELSE state' = state
    BY <2>1 DEF Clock, Bus, BusIdle, SetReadAddr, ReadAddrAck, ReadDataStart, BusRead, SetWriteAddr,
       WriteAddrAck, WriteDataStart, BusWrite, BusWriteAck, BusEnds
  <2>4. CASE FirstBeat
    BY <1>1, <1>2, <1>4, <1>5, <2>1, <2>3, <2>4 DEF FirstBeat, Bursting
  <2>5. CASE ~FirstBeat
    BY <1>1, <1>2, <1>4, <1>5, <2>1, <2>2, <2>3, <2>5 DEF FirstBeat, Bursting
  <2> QED
    BY <2>4, <2>5
<1>6. CASE arvalid
  <2>1. req /\ ~rready /\ state = "wait_addr_ack" /\ ~memWr /\ mem' = mem /\ ~Bursting
    BY <1>1, <1>6, Steady DEF Bursting, Ends
  <2>2. addr' = addr /\ (memWr' <=> memWr)
    BY <2>1, Stands DEF Ends
  <2>3. IF ar THEN state' = "wait_data_start" ELSE state' = state
    BY <2>1 DEF Clock, Bus, BusIdle, SetReadAddr, ReadAddrAck, ReadDataStart, BusRead, SetWriteAddr,
       WriteAddrAck, WriteDataStart, BusWrite, BusWriteAck, BusEnds
  <2>4. CASE ar
    <3>1. beats' = beats \o <<first, second>>
      BY <1>2, <1>6, <2>1, <2>4
    <3>2. beats' \in Seq(Beat) /\ Len(beats') <= 3 /\ Due(beats', first.cell)
      BY <1>1, <1>3, <2>1, <3>1, BurstFollows
    <3> QED
      BY <1>1, <1>2, <1>3, <1>6, <2>1, <2>2, <2>3, <2>4, <3>2 DEF Bursting
  <2>5. CASE ~ar
    BY <1>1, <1>2, <2>1, <2>2, <2>3, <2>5 DEF Bursting
  <2> QED
    BY <2>4, <2>5
<1>7. CASE ~Bursting /\ ~arvalid
  <2>1. beats' = rest /\ Late(beats')
    BY <1>1, <1>2, <1>4, <1>7
  <2>2. ~Bursting'
    <3>1. CASE req
      BY <1>1, <1>7, <3>1, Stands, GoesOnTo DEF Bursting, States, Ends
    <3>2. CASE ~req
      BY <3>2, Rests DEF Bursting
    <3> QED
      BY <3>1, <3>2
  <2> QED
    BY <1>2, <1>4, <2>1, <2>2
<1> QED
  BY <1>5, <1>6, <1>7

(* Which step of the bus is taken in each state. *)
LEMMA BusStep ==
  ASSUME IInv, NEW ar \in BOOLEAN, NEW aw \in BOOLEAN, NEW w \in BOOLEAN, Clock(ar, aw, w)
  PROVE  /\ state = "idle" => BusIdle
         /\ state = "set_addr" => IF memWr THEN SetWriteAddr ELSE SetReadAddr
         /\ state = "wait_addr_ack" => IF memWr THEN WriteAddrAck(aw) ELSE ReadAddrAck(ar)
         /\ state = "wait_data_start" => IF memWr THEN WriteDataStart(w) ELSE ReadDataStart
         /\ state = "read" => BusRead
         /\ state = "write" => BusWrite(w)
         /\ state = "write_ack" => BusWriteAck
         /\ state \in Ends => BusEnds
         /\ state \in {"idle", "set_addr", "wait_addr_ack", "wait_data_start", "read", "write",
                        "write_ack"} \cup Ends
<1>1. Bus(ar, aw, w) /\ state \in States
  BY DEF Clock, IInv, TypeOK
<1> QED
  BY <1>1 DEF Bus, BusIdle, SetReadAddr, ReadAddrAck, ReadDataStart, BusRead, SetWriteAddr,
     WriteAddrAck, WriteDataStart, BusWrite, BusWriteAck, BusEnds, Ends, States

LEMMA KeepsReadRegs ==
  ASSUME IInv, NEW ar \in BOOLEAN, NEW aw \in BOOLEAN, NEW w \in BOOLEAN, Clock(ar, aw, w)
  PROVE  /\ arvalid' <=> state' = "wait_addr_ack" /\ ~memWr'
         /\ arvalid' => araddr' = addr'[1]
         /\ rready' <=> ~memWr' /\ state' \in {"wait_data_start", "read"} \cup Ends
         /\ state' = "read" => ~memWr'
<1>1. /\ (arvalid <=> state = "wait_addr_ack" /\ ~memWr)
      /\ (arvalid => araddr = addr[1])
      /\ (rready <=> ~memWr /\ state \in {"wait_data_start", "read"} \cup Ends)
      /\ (state = "read" => ~memWr) /\ (state \in {"write", "write_ack"} => memWr)
      /\ memWr \in BOOLEAN /\ arvalid \in BOOLEAN /\ rready \in BOOLEAN
      /\ (~req => ~memWr) /\ (state # "idle" => req)
  BY DEF IInv, TypeOK, ReadPath, WritePath, Requesting
<1>2. CASE ~req
  <2>1. state = "idle" /\ state' = "idle" /\ UNCHANGED readRegs
    BY <1>2, Rests
  <2> QED
    BY <1>1, <2>1 DEF readRegs, Ends
<1>3. CASE req /\ state \in {"idle", "set_addr", "wait_addr_ack"}
  <2>1. addr' = addr /\ (memWr' <=> memWr)
    BY <1>3, Stands DEF Ends
  <2>2. CASE state = "idle"
    BY <1>1, <1>3, <2>1, <2>2, BusStep DEF BusIdle, readRegs, Ends
  <2>3. CASE state = "set_addr"
    BY <1>1, <1>3, <2>1, <2>3, BusStep DEF SetReadAddr, SetWriteAddr, readRegs, Ends
  <2>4. CASE state = "wait_addr_ack"
    BY <1>1, <1>3, <2>1, <2>4, BusStep DEF ReadAddrAck, WriteAddrAck, readRegs, Ends
  <2> QED
    BY <1>3, <2>2, <2>3, <2>4
<1>4. CASE req /\ state \in {"wait_data_start", "read", "write", "write_ack"}
  <2>1. addr' = addr /\ (memWr' <=> memWr)
    BY <1>4, Stands DEF Ends
  <2>2. arvalid' = arvalid /\ rready' = rready
    BY <1>4, BusStep DEF ReadDataStart, WriteDataStart, BusRead, BusWrite, BusWriteAck, readRegs
  <2>3. state' \in IF memWr THEN {"wait_data_start", "write", "write_ack"} \cup Ends
                             ELSE {"wait_data_start", "read"} \cup Ends
    BY <1>1, <1>4, GoesOnTo
  <2> QED
    BY <1>1, <1>4, <2>1, <2>2, <2>3 DEF Ends
<1>5. CASE req /\ state \in Ends
  <2>1. ~memWr' /\ state' = "idle"
    BY <1>5, Stands, GoesOnTo
  <2>2. arvalid' = arvalid /\ rready' = FALSE
    BY <1>1, <1>5, BusStep DEF BusEnds, Ends
  <2> QED
    BY <1>1, <1>5, <2>1, <2>2 DEF Ends
<1> QED
  BY <1>2, <1>3, <1>4, <1>5, BusStep

LEMMA KeepsReadData ==
  ASSUME IInv, NEW ar \in BOOLEAN, NEW aw \in BOOLEAN, NEW w \in BOOLEAN, Clock(ar, aw, w)
  PROVE  /\ ~memWr' /\ state' \in {"read"} \cup Ends => data' = mem'[addr'[1]][addr'[2]]
         /\ strobe' = "read" /\ prev' = "read" /\ ~req' => din' = mem'[cpuA'[1]][cpuA'[2]]
<1>1. /\ (state = "read" => ~memWr) /\ (state \in {"write", "write_ack"} => memWr)
      /\ memWr \in BOOLEAN /\ state \in States /\ (state # "idle" => req)
      /\ (req => prev = strobe /\ addr = cpuA /\ (memWr <=> strobe = "write"))
      /\ (~req => prev = strobe \/ prev = "none" \/ strobe = "none")
      /\ (~memWr /\ state \in {"read"} \cup Ends => data = mem[addr[1]][addr[2]])
      /\ (strobe = "read" /\ prev = "read" /\ ~req => din = mem[cpuA[1]][cpuA[2]])
  BY DEF IInv, TypeOK, ReadPath, WritePath, Requesting
<1>2. ASSUME ~memWr', state' \in {"read"} \cup Ends
      PROVE  data' = mem'[addr'[1]][addr'[2]]
  <2>1. req /\ state \notin Ends
    BY <1>2, Rests, GoesOnTo DEF Ends
  <2>2. ~memWr /\ addr' = addr
    BY <1>2, <2>1, Stands
  <2>3. state \in {"wait_data_start", "read"}
    BY <1>1, <1>2, <2>1, <2>2, GoesOnTo DEF States, Ends
  <2>4. mem' = mem
    BY <2>3, Steady
  <2>5. CASE state = "read"
    <3>1. data' = data
      BY <2>5, BusStep DEF BusRead, readRegs
    <3> QED
      BY <1>1, <2>2, <2>4, <2>5, <3>1
  <2>6. CASE state = "wait_data_start"
    <3>1. ReadDataStart
      BY <2>2, <2>6, BusStep
    <3>2. FirstBeat /\ data' = Head(beats).cell[addr[2]]
      BY <1>2, <2>6, <3>1 DEF ReadDataStart, Ends
    <3>3. Head(beats).cell = mem[addr[1]]
      <4>1. beats \in Seq(Beat) /\ beats # <<>> /\ Due(beats, mem[addr[1]])
        BY <2>2, <2>6, <3>2 DEF IInv, TypeOK, ReadPath, Bursting, FirstBeat
      <4> QED
        BY <3>2, <4>1, BeatTaken DEF FirstBeat
    <3> QED
      BY <2>2, <2>4, <3>2, <3>3
  <2> QED
    BY <2>3, <2>5, <2>6
<1>3. ASSUME strobe' = "read", prev' = "read", ~req'
      PROVE  din' = mem'[cpuA'[1]][cpuA'[2]]
  <2>1. CASE req
    <3>1. UNCHANGED <<strobe, cpuA>> /\ state \in Ends /\ Answered
      BY <2>1, <1>3, Stands
    <3>2. ~memWr /\ data = mem[cpuA[1]][cpuA[2]]
      BY <1>1, <1>3, <2>1, <3>1
    <3>3. din' = data /\ mem' = mem
      BY <3>1, <3>2, Steady DEF Clock, Main, Ends
    <3> QED
      BY <3>1, <3>2, <3>3
  <2>2. CASE ~req
    <3>1. strobe = "read" /\ ~Edge /\ state = "idle"
      BY <1>3, <2>2, Rests
    <3>2. prev = "read"
      BY <1>1, <2>2, <3>1 DEF Edge
    <3>3. UNCHANGED z80Vars
      BY <1>3, <3>1 DEF Clock, Z80Asks, Z80Ends, Z80Rests
    <3>4. mem' = mem
      BY <3>1, Steady
    <3>5. din' = din
      BY <2>2, <3>1 DEF Clock, Main, Answered
    <3> QED
      BY <1>1, <2>2, <3>1, <3>2, <3>3, <3>4, <3>5 DEF z80Vars
  <2> QED
    BY <2>1, <2>2
<1> QED
  BY <1>2, <1>3

LEMMA KeepsReadPath ==
  ASSUME IInv, NEW ar \in BOOLEAN, NEW aw \in BOOLEAN, NEW w \in BOOLEAN, Clock(ar, aw, w)
  PROVE  ReadPath'
BY KeepsBeats, KeepsReadRegs, KeepsReadData DEF ReadPath

-----------------------------------------------------------------------------
(* The write.                                                              *)

LEMMA KeepsWriteAddr ==
  ASSUME IInv, NEW ar \in BOOLEAN, NEW aw \in BOOLEAN, NEW w \in BOOLEAN, Clock(ar, aw, w)
  PROVE  /\ awvalid' <=> state' = "wait_addr_ack" /\ memWr'
         /\ awvalid' => awaddr' = addr'[1]
         /\ state' \in {"write", "write_ack"} => memWr'
         /\ memWr' /\ state' \in {"wait_data_start", "write"} => held' = addr'[1]
<1>1. /\ (awvalid <=> state = "wait_addr_ack" /\ memWr)
      /\ (awvalid => awaddr = addr[1])
      /\ (state = "read" => ~memWr) /\ (state \in {"write", "write_ack"} => memWr)
      /\ (memWr /\ state \in {"wait_data_start", "write"} => held = addr[1])
      /\ memWr \in BOOLEAN /\ awvalid \in BOOLEAN /\ state \in States
      /\ (wvalid <=> state = "write")
      /\ (~req => ~memWr) /\ (state # "idle" => req)
  BY DEF IInv, TypeOK, ReadPath, WritePath, Requesting
<1>2. CASE ~req
  <2>1. state = "idle" /\ state' = "idle" /\ UNCHANGED writeRegs
    BY <1>2, Rests
  <2> QED
    BY <1>1, <2>1 DEF writeRegs
<1>3. CASE req /\ state \in Ends
  <2>1. state' = "idle" /\ awvalid' = awvalid
    BY <1>1, <1>3, GoesOnTo, BusStep DEF BusEnds
  <2> QED
    BY <1>1, <1>3, <2>1 DEF Ends
<1>4. CASE req /\ state \notin Ends
  <2>1. addr' = addr /\ (memWr' <=> memWr)
    BY <1>4, Stands
  <2>2. CASE state \in {"idle", "set_addr"}
    BY <1>1, <1>4, <2>1, <2>2, BusStep DEF BusIdle, SetReadAddr, SetWriteAddr, writeRegs
  <2>3. CASE state = "wait_addr_ack"
    <3>1. held' = IF awvalid /\ aw THEN awaddr ELSE held
      BY <2>3, Steady DEF SlaveResponds
    <3> QED
      BY <1>1, <1>4, <2>1, <2>3, <3>1, BusStep DEF ReadAddrAck, WriteAddrAck, writeRegs
  <2>4. CASE state = "wait_data_start"
    <3>1. held' = held
      BY <1>1, <2>4, Steady DEF SlaveResponds
    <3> QED
      BY <1>1, <1>4, <2>1, <2>4, <3>1, BusStep DEF ReadDataStart, WriteDataStart, writeRegs
  <2>5. CASE state \in {"read", "write_ack"}
    BY <1>1, <1>4, <2>1, <2>5, BusStep, GoesOnTo DEF BusRead, BusWriteAck, writeRegs, Ends
  <2>6. CASE state = "write"
    <3>1. BusWrite(w) /\ awvalid' = awvalid
      BY <2>6, BusStep DEF BusWrite
    <3>2. CASE w
      BY <1>1, <2>1, <2>6, <3>1, <3>2 DEF BusWrite
    <3>3. CASE ~w
      <4>1. held' = held
        BY <1>1, <2>6, <3>3 DEF Clock, SlaveWrites, SlaveResponds
      <4> QED
        BY <1>1, <2>1, <2>6, <3>1, <3>3, <4>1 DEF BusWrite
    <3> QED
      BY <3>2, <3>3
  <2> QED
    BY <1>1, <1>4, <2>2, <2>3, <2>4, <2>5, <2>6 DEF States, Ends
<1> QED
  BY <1>2, <1>3, <1>4

LEMMA KeepsWriteData ==
  ASSUME IInv, NEW ar \in BOOLEAN, NEW aw \in BOOLEAN, NEW w \in BOOLEAN, Clock(ar, aw, w)
  PROVE  /\ wvalid' <=> state' = "write"
         /\ wstrb' = IF state' = "write" THEN {addr'[2]} ELSE {}
         /\ state' = "write" => wdata'[addr'[2]] = dout'
<1>1. /\ (wvalid <=> state = "write") /\ wvalid \in BOOLEAN
      /\ wstrb = (IF state = "write" THEN {addr[2]} ELSE {})
      /\ (state = "write" => wdata[addr[2]] = dout)
      /\ wdata \in [Lane -> Byte \cup {0}] /\ addr[2] \in Lane
      /\ state \in States /\ (state # "idle" => req) /\ memWr \in BOOLEAN
      /\ (state = "read" => ~memWr)
  BY DEF IInv, TypeOK, ReadPath, WritePath, Requesting, Addr
<1>2. CASE ~req
  <2>1. state = "idle" /\ state' = "idle" /\ UNCHANGED writeRegs
    BY <1>2, Rests
  <2> QED
    BY <1>1, <2>1 DEF writeRegs
<1>3. CASE req
  <2>1. addr' = addr /\ dout' = dout
    BY <1>3, Stands
  <2>2. CASE state \in {"idle", "set_addr", "wait_addr_ack", "read"}
    BY <1>1, <1>3, <2>2, BusStep, GoesOnTo DEF BusIdle, SetReadAddr, SetWriteAddr, ReadAddrAck,
       WriteAddrAck, BusRead, writeRegs, Ends
  <2>3. CASE state = "wait_data_start" /\ ~memWr
    BY <1>1, <1>3, <2>3, BusStep, GoesOnTo DEF ReadDataStart, writeRegs
  <2>4. CASE state = "wait_data_start" /\ memWr
    <3>1. WriteDataStart(w)
      BY <2>4, BusStep
    <3>2. CASE w
      BY <1>1, <2>1, <2>4, <3>1, <3>2 DEF WriteDataStart
    <3>3. CASE ~w
      BY <1>1, <2>4, <3>1, <3>3 DEF WriteDataStart
    <3> QED
      BY <3>2, <3>3
  <2>5. CASE state = "write"
    <3>1. BusWrite(w)
      BY <2>5, BusStep
    <3>2. CASE w
      BY <2>5, <3>1, <3>2 DEF BusWrite
    <3>3. CASE ~w
      BY <1>1, <2>1, <2>5, <3>1, <3>3 DEF BusWrite
    <3> QED
      BY <3>2, <3>3
  <2>6. CASE state = "write_ack"
    BY <1>1, <1>3, <2>6, BusStep, GoesOnTo DEF BusWriteAck, Ends
  <2>7. CASE state \in Ends
    BY <1>1, <1>3, <2>7, BusStep DEF BusEnds, Ends
  <2> QED
    BY <1>1, <2>2, <2>3, <2>4, <2>5, <2>6, <2>7 DEF States, Ends
<1> QED
  BY <1>2, <1>3

(* A write has an outcome from its data to the end of its strobe. *)
LEMMA KeepsOutcome ==
  ASSUME IInv, NEW ar \in BOOLEAN, NEW aw \in BOOLEAN, NEW w \in BOOLEAN, Clock(ar, aw, w)
  PROVE  outcome' # "none" <=> Decided'
<1>1. /\ (outcome # "none" <=> Decided)
      /\ (wvalid <=> state = "write")
      /\ (state = "read" => ~memWr) /\ (state \in {"write", "write_ack"} => memWr)
      /\ state \in States /\ strobe \in {"none", "read", "write"}
      /\ (req => strobe # "none" /\ prev = strobe /\ (memWr <=> strobe = "write"))
      /\ (~req => prev = strobe \/ prev = "none" \/ strobe = "none")
      /\ (state # "idle" => req)
  BY DEF IInv, TypeOK, ReadPath, WritePath, Requesting
<1>2. CASE ~req
  <2>1. /\ state = "idle" /\ state' = "idle" /\ prev' = strobe /\ (req' <=> Edge)
        /\ Edge => UNCHANGED z80Vars
        /\ Z80Asks \/ Z80Ends \/ Z80Rests
    BY <1>2, Rests
  <2>2. outcome' = IF strobe' = "none" THEN "none" ELSE outcome
    BY <2>1, Steady DEF SlaveResponds
  <2>3. CASE Edge
    BY <1>1, <1>2, <2>1, <2>2, <2>3 DEF Decided, Edge, z80Vars, Ends
  <2>4. CASE ~Edge
    <3>1. strobe' = strobe \/ strobe = "none" \/ strobe' = "none"
      BY <2>1 DEF Z80Asks, Z80Ends, Z80Rests, z80Vars
    <3> QED
      BY <1>1, <1>2, <2>1, <2>2, <2>4, <3>1 DEF Decided, Edge, Ends
  <2> QED
    BY <2>3, <2>4
<1>3. CASE req /\ state # "write"
  <2>1. strobe' = strobe /\ prev' = strobe /\ (req' <=> state \notin Ends)
    BY <1>1, <1>3, Stands
  <2>2. outcome' = outcome
    BY <1>1, <1>3, <2>1, Steady DEF SlaveResponds
  <2>3. state \notin Ends /\ memWr => (state \in {"write_ack"} <=> state' \in {"write_ack"} \cup Ends)
    BY <1>1, <1>3, GoesOnTo DEF States, Ends
  <2> QED
    BY <1>1, <1>3, <2>1, <2>2, <2>3 DEF Decided
<1>4. CASE req /\ state = "write"
  <2>1. strobe' = strobe /\ prev' = strobe /\ req' /\ strobe = "write"
    BY <1>1, <1>4, Stands DEF Ends
  <2>2. BusWrite(w)
    BY <1>4, BusStep
  <2>3. CASE w
    BY <1>1, <1>4, <2>1, <2>2, <2>3 DEF Decided, BusWrite, Clock, SlaveWrites, SlaveTakesData
  <2>4. CASE ~w
    BY <1>1, <1>4, <2>1, <2>2, <2>4 DEF Decided, BusWrite, Clock, SlaveWrites, SlaveResponds, Ends
  <2> QED
    BY <2>3, <2>4
<1> QED
  BY <1>2, <1>3, <1>4

LEMMA KeepsWritePath ==
  ASSUME IInv, NEW ar \in BOOLEAN, NEW aw \in BOOLEAN, NEW w \in BOOLEAN, Clock(ar, aw, w)
  PROVE  WritePath'
BY KeepsWriteAddr, KeepsWriteData, KeepsOutcome DEF WritePath

(* What the slave makes of the data of a write: one byte is replaced. *)
LEMMA Merging ==
  ASSUME IInv, state = "write"
  PROVE  /\ Merged \in [Word -> Cell]
         /\ \A a \in Addr : Merged[a[1]][a[2]] = IF a = cpuA THEN cpuD ELSE mem[a[1]][a[2]]
<1>1. /\ mem \in [Word -> Cell] /\ cpuA \in Addr /\ cpuD \in Byte
      /\ held = cpuA[1] /\ wstrb = {cpuA[2]} /\ wdata[cpuA[2]] = cpuD
  <2>1. req /\ memWr
    BY DEF IInv, Requesting, WritePath
  <2>2. addr = cpuA /\ dout = cpuD
    BY <2>1 DEF IInv, Requesting
  <2> QED
    BY <2>1, <2>2 DEF IInv, TypeOK, WritePath
<1>2. cpuA[1] \in Word /\ cpuA[2] \in Lane /\ cpuA = <<cpuA[1], cpuA[2]>>
  BY <1>1 DEF Addr
<1> DEFINE old == mem[cpuA[1]]
           cell == [l \in Lane |-> IF l \in wstrb THEN wdata[l] ELSE old[l]]
<1>3. old \in [Lane -> Byte]
  BY <1>1, <1>2 DEF Cell
<1>4. /\ cell \in Cell
      /\ \A l \in Lane : cell[l] = IF l = cpuA[2] THEN cpuD ELSE old[l]
  BY <1>1, <1>3 DEF Cell
<1>5. Merged = [mem EXCEPT ![cpuA[1]] = cell]
  BY <1>1 DEF Merged
<1> HIDE DEF cell
<1>6. Merged \in [Word -> Cell]
  BY <1>1, <1>2, <1>4, <1>5
<1>7. ASSUME NEW a \in Addr
      PROVE  Merged[a[1]][a[2]] = IF a = cpuA THEN cpuD ELSE mem[a[1]][a[2]]
  <2>1. a[1] \in Word /\ a[2] \in Lane /\ a = <<a[1], a[2]>>
    BY DEF Addr
  <2>2. a = cpuA <=> a[1] = cpuA[1] /\ a[2] = cpuA[2]
    BY <1>2, <2>1
  <2>3. Merged[a[1]] = IF a[1] = cpuA[1] THEN cell ELSE mem[a[1]]
    BY <1>1, <1>2, <1>5, <2>1
  <2> QED
    BY <1>4, <2>1, <2>2, <2>3
<1> QED
  BY <1>6, <1>7

LEMMA SlaveTypes ==
  ASSUME IInv, NEW ar \in BOOLEAN, NEW aw \in BOOLEAN, NEW w \in BOOLEAN, Clock(ar, aw, w)
  PROVE  /\ mem' \in [Word -> Cell] /\ held' \in Word \cup {NoWord}
         /\ resp' \in {"none", "okay", "error"} /\ bvalid' \in BOOLEAN
         /\ outcome' \in {"none", "written", "refused"} /\ rvalid' \in BOOLEAN
<1>1. /\ mem \in [Word -> Cell] /\ held \in Word \cup {NoWord} /\ awaddr \in Word
      /\ resp \in {"none", "okay", "error"} /\ outcome \in {"none", "written", "refused"}
      /\ (wvalid <=> state = "write")
  BY DEF IInv, TypeOK, WritePath
<1>2. SlaveWrites(aw, w) /\ rvalid' \in BOOLEAN
  BY DEF Clock, SlaveReads
<1>3. CASE wvalid /\ w
  <2>1. Merged \in [Word -> Cell]
    BY <1>1, <1>3, Merging
  <2> QED
    BY <1>1, <1>2, <1>3, <2>1 DEF SlaveWrites, SlaveTakesData
<1>4. CASE ~(wvalid /\ w)
  BY <1>1, <1>2, <1>4 DEF SlaveWrites, SlaveResponds
<1> QED
  BY <1>3, <1>4

LEMMA RequesterTypes ==
  ASSUME IInv, NEW ar \in BOOLEAN, NEW aw \in BOOLEAN, NEW w \in BOOLEAN, Clock(ar, aw, w)
  PROVE  /\ strobe' \in {"none", "read", "write"} /\ prev' \in {"none", "read", "write"}
         /\ cpuA' \in Addr /\ addr' \in Addr
         /\ cpuD' \in Byte /\ dout' \in Byte /\ din' \in Byte /\ got' \in Byte
         /\ req' \in BOOLEAN /\ memWr' \in BOOLEAN /\ memWait' \in BOOLEAN
<1>1. /\ strobe \in {"none", "read", "write"} /\ cpuA \in Addr /\ addr \in Addr
      /\ cpuD \in Byte /\ dout \in Byte /\ din \in Byte /\ data \in Byte /\ got \in Byte
      /\ req \in BOOLEAN /\ memWr \in BOOLEAN /\ memWait \in BOOLEAN /\ ack \in BOOLEAN
  BY DEF IInv, TypeOK
<1>2. /\ strobe' \in {"none", "read", "write"} /\ cpuA' \in Addr /\ cpuD' \in Byte
      /\ got' \in Byte
  BY <1>1 DEF Clock, Z80Asks, Z80Ends, Z80Rests, z80Vars
<1>3. Edge \in BOOLEAN /\ Answered \in BOOLEAN
  BY <1>1 DEF Edge, Answered
<1> QED
  BY <1>1, <1>2, <1>3, BytesAssumption DEF Clock, Main

LEMMA BusTypes ==
  ASSUME IInv, NEW ar \in BOOLEAN, NEW aw \in BOOLEAN, NEW w \in BOOLEAN, Clock(ar, aw, w)
  PROVE  /\ state' \in States /\ ack' \in BOOLEAN /\ data' \in Byte
         /\ arvalid' \in BOOLEAN /\ rready' \in BOOLEAN /\ awvalid' \in BOOLEAN
         /\ wvalid' \in BOOLEAN /\ bready' \in BOOLEAN
         /\ araddr' \in Word /\ awaddr' \in Word
         /\ wdata' \in [Lane -> Byte \cup {0}] /\ wstrb' \in SUBSET Lane
<1>1. /\ state \in States /\ ack \in BOOLEAN /\ data \in Byte
      /\ arvalid \in BOOLEAN /\ rready \in BOOLEAN /\ awvalid \in BOOLEAN
      /\ wvalid \in BOOLEAN /\ bready \in BOOLEAN
      /\ araddr \in Word /\ awaddr \in Word
      /\ wdata \in [Lane -> Byte \cup {0}] /\ wstrb \in SUBSET Lane
      /\ addr[1] \in Word /\ addr[2] \in Lane /\ dout \in Byte
  BY DEF IInv, TypeOK, Addr
<1>2. CASE state \in {"idle", "set_addr"}
  BY <1>1, <1>2, BusStep DEF BusIdle, SetReadAddr, SetWriteAddr, readRegs, writeRegs, States
<1>3. CASE state = "wait_addr_ack"
  BY <1>1, <1>3, BusStep DEF ReadAddrAck, WriteAddrAck, readRegs, writeRegs, States
<1>4. CASE state = "wait_data_start" /\ ~memWr
  <2>1. ReadDataStart
    BY <1>4, BusStep
  <2>2. CASE FirstBeat
    <3>1. beats \in Seq(Beat) /\ beats # <<>>
      BY <2>2 DEF IInv, TypeOK, ReadPath, FirstBeat
    <3>2. Head(beats) \in Beat
      BY <3>1, BeatTaken
    <3>3. Head(beats).cell[addr[2]] \in Byte
      BY <1>1, <3>2 DEF Beat, Cell
    <3> QED
      BY <1>1, <2>1, <2>2, <3>3 DEF ReadDataStart, writeRegs, States
  <2>3. CASE ~FirstBeat
    BY <1>1, <2>1, <2>3 DEF ReadDataStart, writeRegs
  <2> QED
    BY <2>2, <2>3
<1>5. CASE state = "wait_data_start" /\ memWr
  <2>1. WriteDataStart(w)
    BY <1>5, BusStep
  <2>2. [wdata EXCEPT ![addr[2]] = dout] \in [Lane -> Byte \cup {0}]
    BY <1>1
  <2>3. wstrb \cup {addr[2]} \in SUBSET Lane
    BY <1>1
  <2> QED
    BY <1>1, <2>1, <2>2, <2>3 DEF WriteDataStart, readRegs, States
<1>6. CASE state = "read"
  BY <1>1, <1>6, BusStep DEF BusRead, readRegs, writeRegs, States
<1>7. CASE state = "write"
  <2>1. [l \in Lane |-> 0] \in [Lane -> Byte \cup {0}]
    OBVIOUS
  <2> QED
    BY <1>1, <1>7, <2>1, BusStep DEF BusWrite, readRegs, States
<1>8. CASE state = "write_ack"
  BY <1>1, <1>8, BusStep DEF BusWriteAck, readRegs, States
<1>9. CASE state \in Ends
  BY <1>1, <1>9, BusStep DEF BusEnds, States
<1> QED
  BY <1>2, <1>3, <1>4, <1>5, <1>6, <1>7, <1>8, <1>9, BusStep

LEMMA KeepsType ==
  ASSUME IInv, NEW ar \in BOOLEAN, NEW aw \in BOOLEAN, NEW w \in BOOLEAN, Clock(ar, aw, w)
  PROVE  TypeOK'
BY SlaveTypes, RequesterTypes, BusTypes, KeepsBeats DEF TypeOK

-----------------------------------------------------------------------------
(* The atomic memory.                                                      *)

LEMMA AccessOf ==
  ASSUME IInv
  PROVE  /\ Access = [op |-> Access.op, at |-> cpuA, byte |-> cpuD]
         /\ Access.op = IF strobe = "write" /\ outcome # "none" THEN outcome ELSE strobe
         /\ Access.at = cpuA /\ Access.byte = cpuD
         /\ Store \in [Addr -> Byte]
         /\ \A a \in Addr : Store[a] = mem[a[1]][a[2]]
<1>1. mem \in [Word -> Cell]
  BY DEF IInv, TypeOK
<1>2. ASSUME NEW a \in Addr PROVE mem[a[1]][a[2]] \in Byte
  BY <1>1 DEF Addr, Cell
<1> QED
  BY <1>2 DEF Access, Store

(* The data of a write are the moment at which the memory changes. *)
LEMMA DataIsTheMoment ==
  ASSUME IInv, NEW ar \in BOOLEAN, NEW aw \in BOOLEAN, NEW w \in BOOLEAN, Clock(ar, aw, w),
         state = "write", w
  PROVE  Atomic!Commit \/ Atomic!Refuse
<1>1. /\ req /\ strobe = "write" /\ outcome = "none" /\ wvalid
      /\ cpuA \in Addr /\ mem \in [Word -> Cell]
  BY DEF IInv, TypeOK, Requesting, WritePath, Decided, Ends
<1>2. UNCHANGED <<strobe, cpuA, cpuD, got>>
  BY <1>1, Stands
<1>3. \/ mem' = Merged /\ outcome' = "written"
      \/ mem' \in {mem, Merged} /\ outcome' = "refused"
  BY <1>1 DEF Clock, SlaveWrites, SlaveTakesData
<1>4. mem' = Merged => Store' = [Store EXCEPT ![cpuA] = cpuD]
  <2> SUFFICES ASSUME mem' = Merged PROVE Store' = [Store EXCEPT ![cpuA] = cpuD]
    OBVIOUS
  <2>1. Store' = [a \in Addr |-> Merged[a[1]][a[2]]]
    BY DEF Store
  <2>2. \A a \in Addr : Merged[a[1]][a[2]] = IF a = cpuA THEN cpuD ELSE mem[a[1]][a[2]]
    BY Merging
  <2>3. Store' = [a \in Addr |-> IF a = cpuA THEN cpuD ELSE mem[a[1]][a[2]]]
    BY <2>1, <2>2
  <2> QED
    BY <1>1, <2>3 DEF Store
<1>5. mem' = mem => Store' = Store
  BY DEF Store
<1>6. Access = [op |-> "write", at |-> cpuA, byte |-> cpuD]
  BY <1>1 DEF Access
<1>7. Access' = [op |-> outcome', at |-> cpuA, byte |-> cpuD]
  BY <1>1, <1>2, <1>3 DEF Access
<1>8. CASE mem' = Merged /\ outcome' = "written"
  BY <1>2, <1>4, <1>6, <1>7, <1>8 DEF Atomic!Commit
<1>9. CASE mem' \in {mem, Merged} /\ outcome' = "refused"
  BY <1>2, <1>4, <1>5, <1>6, <1>7, <1>9 DEF Atomic!Refuse
<1> QED
  BY <1>3, <1>8, <1>9

LEMMA RestIsQuiet ==
  ASSUME IInv, NEW ar \in BOOLEAN, NEW aw \in BOOLEAN, NEW w \in BOOLEAN, Clock(ar, aw, w),
         req, ~(state = "write" /\ w)
  PROVE  UNCHANGED <<Store, Access, got>>
<1>1. strobe # "none" /\ (wvalid <=> state = "write")
  BY DEF IInv, Requesting, WritePath
<1>2. UNCHANGED <<strobe, cpuA, cpuD, got>>
  BY Stands
<1>3. mem' = mem /\ outcome' = outcome
  BY <1>1, <1>2 DEF Clock, SlaveWrites, SlaveResponds
<1> QED
  BY <1>2, <1>3 DEF Store, Access

LEMMA Z80IsAnswered ==
  ASSUME IInv, NEW ar \in BOOLEAN, NEW aw \in BOOLEAN, NEW w \in BOOLEAN, Clock(ar, aw, w), ~req
  PROVE  Atomic!Ask \/ Atomic!Answer \/ UNCHANGED <<Store, Access, got>>
<1>1. /\ strobe \in {"none", "read", "write"} /\ cpuA \in Addr /\ cpuD \in Byte
      /\ outcome \in {"none", "written", "refused"}
      /\ (outcome # "none" <=> strobe = "write" /\ prev = "write")
      /\ (strobe = "read" /\ prev = "read" => din = mem[cpuA[1]][cpuA[2]])
  BY DEF IInv, TypeOK, ReadPath, WritePath, Decided
<1>2. /\ state = "idle" /\ mem' = mem
      /\ outcome' = IF strobe' = "none" THEN "none" ELSE outcome
  BY Rests, Steady DEF SlaveResponds
<1>3. Store' = Store
  BY <1>2 DEF Store
<1>4. CASE Z80Rests
  BY <1>1, <1>2, <1>3, <1>4 DEF Z80Rests, z80Vars, Access
<1>5. CASE Z80Asks
  <2>1. /\ strobe = "none" /\ strobe' \in {"read", "write"} /\ cpuA' \in Addr /\ cpuD' \in Byte
        /\ got' = got /\ outcome = "none" /\ outcome' = "none"
    BY <1>1, <1>2, <1>5 DEF Z80Asks
  <2>2. Access = [op |-> "none", at |-> cpuA, byte |-> cpuD]
    BY <2>1 DEF Access
  <2>3. Access' = [op |-> strobe', at |-> cpuA', byte |-> cpuD']
    BY <2>1 DEF Access
  <2>4. Atomic!Ask
    BY <1>3, <2>1, <2>2, <2>3 DEF Atomic!Ask
  <2> QED
    BY <2>4
<1>6. CASE Z80Ends
  <2>1. /\ strobe # "none" /\ prev = strobe /\ strobe' = "none" /\ cpuA' = cpuA /\ cpuD' = cpuD
        /\ got' = IF strobe = "read" THEN din ELSE got
    BY <1>6 DEF Z80Ends, Z80Clocked
  <2>2. Access' = [op |-> "none", at |-> cpuA, byte |-> cpuD]
    BY <1>2, <2>1 DEF Access
  <2>3. CASE strobe = "read"
    <3>1. Access = [op |-> "read", at |-> cpuA, byte |-> cpuD]
      BY <2>3 DEF Access
    <3>2. got' = Store[cpuA]
      BY <1>1, <2>1, <2>3, AccessOf
    <3>3. Atomic!Answer
      BY <1>3, <2>2, <3>1, <3>2 DEF Atomic!Answer
    <3> QED
      BY <3>3
  <2>4. CASE strobe = "write"
    <3>1. outcome \in {"written", "refused"}
      BY <1>1, <2>1, <2>4
    <3>2. Access = [op |-> outcome, at |-> cpuA, byte |-> cpuD]
      BY <2>4, <3>1 DEF Access
    <3>3. Atomic!Answer
      BY <1>3, <2>1, <2>2, <2>4, <3>1, <3>2 DEF Atomic!Answer
    <3> QED
      BY <3>3
  <2> QED
    BY <1>1, <2>1, <2>3, <2>4
<1> QED
  BY <1>4, <1>5, <1>6, Rests

-----------------------------------------------------------------------------
(* The theorems.                                                           *)

LEMMA Starts == Init => IInv /\ Atomic!Init
<1> SUFFICES ASSUME Init PROVE IInv /\ Atomic!Init
  OBVIOUS
<1>1. /\ cpuA \in Addr /\ cpuA[1] \in Word /\ Ones \in Byte
      /\ [l \in Lane |-> 0] \in [Lane -> Byte \cup {0}]
      /\ <<>> \in Seq(Beat) /\ Len(<<>>) = 0
  BY BytesAssumption, EmptySeq DEF Init, Addr
<1>2. TypeOK
  <2>1. beats \in Seq(Beat) /\ Len(beats) <= 3
    BY <1>1 DEF Init
  <2>2. /\ cpuA \in Addr /\ addr \in Addr /\ araddr \in Word /\ awaddr \in Word
        /\ cpuD \in Byte /\ dout \in Byte /\ din \in Byte /\ data \in Byte /\ got \in Byte
        /\ wdata \in [Lane -> Byte \cup {0}] /\ wstrb \in SUBSET Lane
        /\ mem \in [Word -> Cell] /\ held \in Word \cup {NoWord}
    BY <1>1 DEF Init
  <2> QED
    BY <2>1, <2>2 DEF Init, TypeOK, States
<1>3. Requesting /\ ReadPath /\ WritePath
  BY DEF Init, Requesting, ReadPath, WritePath, Bursting, Late, Decided, Ends
<1>4. IInv
  BY <1>2, <1>3 DEF IInv
<1>5. Store \in [Addr -> Byte]
  BY <1>4, AccessOf
<1>6. Access = [op |-> "none", at |-> cpuA, byte |-> cpuD]
  BY DEF Init, Access
<1>7. Atomic!Init
  BY <1>1, <1>5, <1>6 DEF Init, Atomic!Init
<1> QED
  BY <1>4, <1>7

LEMMA Keeps == IInv /\ [Next]_vars => IInv'
<1> SUFFICES ASSUME IInv, [Next]_vars PROVE IInv'
  OBVIOUS
<1>1. CASE Next
  <2>1. PICK ar \in BOOLEAN, aw \in BOOLEAN, w \in BOOLEAN : Clock(ar, aw, w)
    BY <1>1 DEF Next
  <2> QED
    BY <2>1, KeepsType, KeepsRequesting, KeepsReadPath, KeepsWritePath DEF IInv
<1>2. CASE UNCHANGED vars
  BY <1>2 DEF vars, z80Vars, mainVars, readRegs, writeRegs, slaveVars, IInv, TypeOK, Requesting,
     ReadPath, WritePath, Bursting, Late, Due, Decided
<1> QED
  BY <1>1, <1>2

(* Request, burst and write stay in step, for any sizes of the memory and  *)
(* any pace of the slave (zx_addr_data_bus.vhd, p_amba_fsm).               *)
THEOREM Invariance == Spec => []IInv
<1>1. Init => IInv
  BY Starts
<1> QED
  BY <1>1, Keeps, PTL DEF Spec

(* Every register keeps its type, and the slave owes three beats at most.  *)
THEOREM TypeCorrect == Spec => []TypeOK
<1>1. IInv => TypeOK
  BY DEF IInv
<1> QED
  BY <1>1, Invariance, PTL

(* What a burst leaves behind is one beat, marked as the last.             *)
THEOREM LateBeats == Spec => []LateBeatIsMarked
<1>1. IInv => LateBeatIsMarked
  BY DEF IInv, ReadPath, Bursting, Late, LateBeatIsMarked
<1> QED
  BY <1>1, Invariance, PTL

(* Bus master and requester implement the atomic memory.                   *)
THEOREM ImplementsAtomicMemory == Spec => SeesAtomicMemory
<1>1. Init => Atomic!Init
  BY Starts
<1>2. IInv /\ [Next]_vars => [Atomic!Next]_(Atomic!avars)
  <2> SUFFICES ASSUME IInv, [Next]_vars PROVE Atomic!Next \/ UNCHANGED <<Store, Access, got>>
    BY DEF Atomic!avars
  <2>1. CASE Next
    <3>1. PICK ar \in BOOLEAN, aw \in BOOLEAN, w \in BOOLEAN : Clock(ar, aw, w)
      BY <2>1 DEF Next
    <3> QED
      BY <3>1, DataIsTheMoment, RestIsQuiet, Z80IsAnswered DEF Atomic!Next
  <2>2. CASE UNCHANGED vars
    BY <2>2 DEF vars, z80Vars, slaveVars, Store, Access
  <2> QED
    BY <2>1, <2>2
<1> QED
  BY <1>1, <1>2, Invariance, PTL DEF Spec, SeesAtomicMemory, Atomic!Spec

=============================================================================
