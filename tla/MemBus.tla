------------------------------- MODULE MemBus -------------------------------
(***************************************************************************)
(* The path of the Z80 to its memory: the requesting part of p_zx_main_fsm *)
(* (zx_main_top.vhd), the bus master p_amba_fsm (zx_addr_data_bus.vhd) and *)
(* an AXI slave of any pace in front of the DDR memory.                    *)
(*                                                                         *)
(* All processes have one clock.  A step is one edge of it, at which each  *)
(* process computes its registers from the values before the edge.         *)
(* An address is a word and a lane in it.  A read is a burst of two words, *)
(* of which the second is thrown away.                                     *)
(***************************************************************************)
EXTENDS Naturals, Sequences

CONSTANTS Words,    \* number of words of the memory
          Lanes,    \* bytes in a word: 4 in the code
          Byte,     \* values of a byte
          Ones      \* what the Z80 sees when nothing drives its data bus

ASSUME SizesAssumption == Words \in Nat \ {0} /\ Lanes \in Nat \ {0}
ASSUME BytesAssumption == Ones \in Byte

VARIABLES
    strobe,     \* what the Z80 asks for: s_cpu_rd, s_cpu_wr with s_cpu_mreq low
    cpuA, cpuD, \* its address and data output
    prev,       \* v_cpu_rd_vec(0), v_cpu_wr_vec(0): the strobe one clock before
    req, memWr, memWait, \* s_zx_bus_mem_req, s_zx_bus_mem_wr, s_cpu_mem_wait
    addr, dout, \* o_zx_bus_address, o_zx_bus_data
    din,        \* s_cpu_din
    state,      \* s_state_amba
    ack, data,  \* o_zx_bus_mem_ack, o_zx_bus_data of the bus master
    arvalid, araddr, rready, awvalid, awaddr, wvalid, wdata, wstrb, bready,
    mem,        \* the memory behind the slave
    beats,      \* read beats the slave owes
    rvalid,     \* i_axi_rvalid: the first of them is offered
    held,       \* address of a write whose data is to come
    resp,       \* response of a write, "none" before it is ready
    bvalid,     \* i_axi_bvalid: it is offered
    outcome,    \* history: what became of the write of the present strobe
    got         \* history: what the last read gave to the Z80

z80Vars   == <<strobe, cpuA, cpuD, got>>
mainVars  == <<prev, req, memWr, memWait, addr, dout, din>>
readRegs  == <<arvalid, araddr, rready, data>>
writeRegs == <<awvalid, awaddr, wvalid, wdata, wstrb, bready>>
slaveVars == <<mem, beats, rvalid, held, resp, bvalid, outcome>>
vars == <<z80Vars, mainVars, state, ack, readRegs, writeRegs, slaveVars>>

Word == 0 .. Words - 1
Lane == 0 .. Lanes - 1
Addr == Word \X Lane
Cell == [Lane -> Byte]
Beat == [cell : Cell, last : BOOLEAN]
NoWord == Words
States == {"idle", "set_addr", "wait_addr_ack", "wait_data_start", "read", "write",
           "write_ack", "error", "done"}

TypeOK ==
    /\ strobe \in {"none", "read", "write"} /\ prev \in {"none", "read", "write"}
    /\ cpuA \in Addr /\ addr \in Addr
    /\ cpuD \in Byte /\ dout \in Byte /\ din \in Byte /\ data \in Byte /\ got \in Byte
    /\ req \in BOOLEAN /\ memWr \in BOOLEAN /\ memWait \in BOOLEAN /\ ack \in BOOLEAN
    /\ state \in States
    /\ arvalid \in BOOLEAN /\ rready \in BOOLEAN /\ awvalid \in BOOLEAN
    /\ wvalid \in BOOLEAN /\ bready \in BOOLEAN
    /\ araddr \in Word /\ awaddr \in Word
    /\ wdata \in [Lane -> Byte \cup {0}] /\ wstrb \in SUBSET Lane
    /\ mem \in [Word -> Cell]
    /\ beats \in Seq(Beat) /\ Len(beats) <= 3
    /\ rvalid \in BOOLEAN /\ bvalid \in BOOLEAN
    /\ held \in Word \cup {NoWord}
    /\ resp \in {"none", "okay", "error"}
    /\ outcome \in {"none", "written", "refused"}

Init ==
    /\ strobe = "none" /\ prev = "none" /\ state = "idle"
    /\ cpuA \in Addr /\ addr = cpuA /\ araddr = cpuA[1] /\ awaddr = cpuA[1]
    /\ cpuD = Ones /\ dout = Ones /\ din = Ones /\ data = Ones /\ got = Ones
    /\ req = FALSE /\ memWr = FALSE /\ memWait = FALSE /\ ack = FALSE
    /\ arvalid = FALSE /\ rready = FALSE /\ awvalid = FALSE /\ wvalid = FALSE /\ bready = FALSE
    /\ wdata = [l \in Lane |-> 0] /\ wstrb = {}
    /\ mem \in [Word -> Cell]
    /\ beats = <<>> /\ rvalid = FALSE
    /\ held = NoWord /\ resp = "none" /\ bvalid = FALSE /\ outcome = "none"

-----------------------------------------------------------------------------
(* The Z80.  It is clocked while memWait is low, and so slowly that the    *)
(* logic has seen its strobe before its next clock.                        *)

Z80Clocked == ~memWait /\ prev = strobe

Z80Asks ==
    /\ Z80Clocked /\ strobe = "none"
    /\ \/ /\ strobe' = "read"
          /\ UNCHANGED cpuD
       \/ /\ strobe' = "write"
          /\ cpuD' \in Byte
    /\ cpuA' \in Addr
    /\ UNCHANGED got

Z80Ends ==
    /\ Z80Clocked /\ strobe # "none"
    /\ strobe' = "none"
    /\ got' = IF strobe = "read" THEN din ELSE got
    /\ UNCHANGED <<cpuA, cpuD>>

Z80Rests == UNCHANGED z80Vars

-----------------------------------------------------------------------------
(* The requester: a falling strobe becomes a request, the acknowledgement  *)
(* ends it and lets the Z80 go on.                                         *)

Edge == prev = "none" /\ strobe # "none"
Answered == req /\ ack

Main ==
    /\ prev' = strobe
    /\ req' = (~Answered /\ (req \/ Edge))
    /\ memWait' = IF Answered THEN FALSE ELSE memWait \/ Edge
    /\ memWr' = IF Answered THEN FALSE ELSE IF Edge THEN strobe = "write" ELSE memWr
    /\ addr' = IF Edge THEN cpuA ELSE addr
    /\ dout' = IF Edge /\ strobe = "write" THEN cpuD ELSE dout
    /\ din' = IF Answered /\ ~memWr THEN data
              ELSE IF strobe # "read" THEN Ones ELSE din

-----------------------------------------------------------------------------
(* The bus master.  ar, aw and w are the ready signals of the slave.       *)

BusIdle ==
    /\ state = "idle"
    /\ state' = IF req THEN "set_addr" ELSE "idle"
    /\ ack' = FALSE
    /\ UNCHANGED <<readRegs, writeRegs>>

SetReadAddr ==
    /\ state = "set_addr" /\ ~memWr
    /\ state' = "wait_addr_ack"
    /\ araddr' = addr[1] /\ arvalid' = TRUE
    /\ UNCHANGED <<ack, rready, data, writeRegs>>

SetWriteAddr ==
    /\ state = "set_addr" /\ memWr
    /\ state' = "wait_addr_ack"
    /\ awaddr' = addr[1] /\ awvalid' = TRUE
    /\ UNCHANGED <<ack, readRegs, wvalid, wdata, wstrb, bready>>

ReadAddrAckTwice(ar) ==      \* mutant: the address stays offered
    /\ state = "wait_addr_ack" /\ ~memWr
    /\ IF ar THEN rready' = TRUE /\ state' = "wait_data_start"
             ELSE UNCHANGED <<rready, state>>
    /\ UNCHANGED <<ack, arvalid, araddr, data, writeRegs>>

ReadAddrAck(ar) ==
    /\ state = "wait_addr_ack" /\ ~memWr
    /\ IF ar THEN arvalid' = FALSE /\ rready' = TRUE /\ state' = "wait_data_start"
             ELSE UNCHANGED <<arvalid, rready, state>>
    /\ UNCHANGED <<ack, araddr, data, writeRegs>>

WriteAddrAck(aw) ==
    /\ state = "wait_addr_ack" /\ memWr
    /\ IF aw THEN awvalid' = FALSE /\ state' = "wait_data_start"
             ELSE UNCHANGED <<awvalid, state>>
    /\ UNCHANGED <<ack, readRegs, awaddr, wvalid, wdata, wstrb, bready>>

(* The first beat of the burst carries the byte; a last beat here is one   *)
(* that an earlier burst has left behind.                                  *)
AnyBeat == rvalid            \* mutant: a late beat is taken for the first

FirstBeat == rvalid /\ ~Head(beats).last

ReadDataImpatient ==         \* mutant: a first beat that is not there yet is given up
    /\ state = "wait_data_start" /\ ~memWr
    /\ IF FirstBeat THEN data' = Head(beats).cell[addr[2]] /\ state' = "read"
                    ELSE UNCHANGED data /\ state' = "error"
    /\ UNCHANGED <<ack, arvalid, araddr, rready, writeRegs>>

ReadDataStart ==
    /\ state = "wait_data_start" /\ ~memWr
    /\ IF FirstBeat THEN data' = Head(beats).cell[addr[2]] /\ state' = "read"
                    ELSE UNCHANGED <<data, state>>
    /\ UNCHANGED <<ack, arvalid, araddr, rready, writeRegs>>

WriteDataStart(w) ==
    /\ state = "wait_data_start" /\ memWr
    /\ IF w THEN /\ wvalid' = TRUE
                 /\ wdata' = [wdata EXCEPT ![addr[2]] = dout]
                 /\ wstrb' = wstrb \cup {addr[2]}
                 /\ state' = "write"
            ELSE UNCHANGED <<wvalid, wdata, wstrb, state>>
    /\ UNCHANGED <<ack, readRegs, awvalid, awaddr, bready>>

BusRead ==
    /\ state = "read"
    /\ state' = IF ~rvalid THEN "error" ELSE IF Head(beats).last THEN "done" ELSE "read"
    /\ ack' = TRUE
    /\ UNCHANGED <<readRegs, writeRegs>>

BusWrite(w) ==
    /\ state = "write"
    /\ IF w THEN wvalid' = FALSE /\ wdata' = [l \in Lane |-> 0] /\ wstrb' = {} /\ state' = "write_ack"
            ELSE UNCHANGED <<wvalid, wdata, wstrb, state>>
    /\ UNCHANGED <<ack, readRegs, awvalid, awaddr, bready>>

BusWriteAckOkay ==           \* mutant: only a good response ends the access
    /\ state = "write_ack"
    /\ IF bvalid /\ resp = "okay" THEN state' = "done" /\ bready' = TRUE /\ ack' = TRUE
                                  ELSE UNCHANGED <<state, bready, ack>>
    /\ UNCHANGED <<readRegs, awvalid, awaddr, wvalid, wdata, wstrb>>

BusWriteAck ==
    /\ state = "write_ack"
    /\ IF bvalid THEN /\ state' = IF resp = "okay" THEN "done" ELSE "error"
                      /\ bready' = TRUE /\ ack' = TRUE
                 ELSE UNCHANGED <<state, bready, ack>>
    /\ UNCHANGED <<readRegs, awvalid, awaddr, wvalid, wdata, wstrb>>

(* In error the access is acknowledged once more. *)
BusEnds ==
    /\ state \in {"error", "done"}
    /\ state' = "idle"
    /\ ack' = (state = "error")
    /\ IF memWr THEN bready' = FALSE /\ UNCHANGED rready
                ELSE rready' = FALSE /\ UNCHANGED bready
    /\ UNCHANGED <<arvalid, araddr, data, awvalid, awaddr, wvalid, wdata, wstrb>>

Bus(ar, aw, w) ==
    \/ BusIdle
    \/ SetReadAddr \/ ReadAddrAck(ar) \/ ReadDataStart \/ BusRead
    \/ SetWriteAddr \/ WriteAddrAck(aw) \/ WriteDataStart(w) \/ BusWrite(w) \/ BusWriteAck
    \/ BusEnds

-----------------------------------------------------------------------------
(* The slave.  It answers in order, at any pace, and takes back nothing it *)
(* offers.  The second word of the last burst lies outside this memory;    *)
(* any content will do.                                                    *)

NextWord(a) == IF a + 1 \in Word THEN a + 1 ELSE a

SlaveReads(ar) ==
    LET rest  == IF rvalid /\ rready THEN Tail(beats) ELSE beats
        burst == <<[cell |-> mem[araddr], last |-> FALSE],
                   [cell |-> mem[NextWord(araddr)], last |-> TRUE]>>
    IN  /\ beats' = IF arvalid /\ ar THEN rest \o burst ELSE rest
        /\ rvalid' \in BOOLEAN
        /\ rvalid' => beats' # <<>>
        /\ rvalid /\ ~rready => rvalid'

Merged == [mem EXCEPT ![held] = [l \in Lane |-> IF l \in wstrb THEN wdata[l] ELSE @[l]]]

SlaveTakesData ==
    /\ held' = NoWord
    /\ \/ mem' = Merged /\ resp' = "okay" /\ outcome' = "written"
       \/ mem' \in {mem, Merged} /\ resp' = "error" /\ outcome' = "refused"
    /\ bvalid' \in BOOLEAN

SlaveResponds(aw) ==
    /\ held' = IF awvalid /\ aw THEN awaddr ELSE held
    /\ resp' = IF bvalid /\ bready THEN "none" ELSE resp
    /\ bvalid' \in BOOLEAN
    /\ bvalid' => resp' # "none"
    /\ bvalid /\ ~bready => bvalid'
    /\ outcome' = IF strobe' = "none" THEN "none" ELSE outcome
    /\ UNCHANGED mem

SlaveWrites(aw, w) ==
    IF wvalid /\ w THEN SlaveTakesData ELSE SlaveResponds(aw)

-----------------------------------------------------------------------------
Clock(ar, aw, w) ==
    /\ Z80Asks \/ Z80Ends \/ Z80Rests
    /\ Main
    /\ Bus(ar, aw, w)
    /\ SlaveReads(ar)
    /\ SlaveWrites(aw, w)

Next == \E ar, aw, w \in BOOLEAN : Clock(ar, aw, w)

(* The clock never stops.  The slave goes on with what it owes: it takes   *)
(* an address that is offered, and write data also before they are         *)
(* offered, shows each read beat and answers each write.                   *)
TakesReadAddr  == \E aw, w \in BOOLEAN : arvalid /\ Clock(TRUE, aw, w)
TakesWriteAddr == \E ar, w \in BOOLEAN : awvalid /\ Clock(ar, TRUE, w)
TakesData      == \E ar, aw \in BOOLEAN :
                    memWr /\ state \in {"wait_data_start", "write"} /\ Clock(ar, aw, TRUE)
ShowsBeat      == Next /\ rvalid'
ShowsResponse  == Next /\ bvalid'

Spec == Init /\ [][Next]_vars
FairSpec ==
    /\ Spec
    /\ WF_vars(Next)
    /\ WF_vars(TakesReadAddr) /\ WF_vars(TakesWriteAddr) /\ WF_vars(TakesData)
    /\ WF_vars(ShowsBeat) /\ WF_vars(ShowsResponse)

-----------------------------------------------------------------------------
(* The Z80 sees an atomic memory: what it reads is what it wrote last,     *)
(* every write is done exactly once, whatever the pace of the slave and    *)
(* whichever beats come late.                                              *)
Access == [op |-> IF strobe = "write" /\ outcome # "none" THEN outcome ELSE strobe,
           at |-> cpuA, byte |-> cpuD]
Store == [a \in Addr |-> mem[a[1]][a[2]]]
Atomic == INSTANCE AtomicMemory WITH store <- Store, access <- Access
SeesAtomicMemory == Atomic!Spec

(* A burst whose second beat came late leaves at most that beat behind,    *)
(* and marked as a last one: the next access can tell it from its own.     *)
LateBeatIsMarked ==
    state \in {"idle", "set_addr"} =>
        beats = <<>> \/ (Len(beats) = 1 /\ beats[1].last)

(* Every access is answered: the Z80 does not wait for ever. *)
AlwaysAnswered == memWait ~> ~memWait

=============================================================================
