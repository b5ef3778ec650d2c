---------------------------- MODULE RegisterPort ----------------------------
(***************************************************************************)
(* The register interface zx_ctrl.vhd: an AXI-Lite slave on a slow clock   *)
(* in front of registers on a fast one, with edge detectors instead of a   *)
(* handshake between the two.  Time is kept in nanoseconds, as the time    *)
(* left to the next edge of either clock.  Of two edges at the same moment *)
(* any may come first: the later one samples what the earlier one wrote.   *)
(***************************************************************************)
EXTENDS Naturals

CONSTANTS SlowPeriod, FastPeriod,  \* 10 and 7 in this design
          Registers,               \* addresses written
          Values,                  \* what is written
          Flags                    \* what is read

ASSUME PeriodsAssumption ==
    SlowPeriod \in Nat \ {0} /\ FastPeriod \in Nat \ {0} /\ FastPeriod < SlowPeriod
ASSUME RegistersAssumption == "none" \notin Registers

VARIABLES
    slow, fast,     \* time to the next edges
    master,         \* the AXI master: what it waits for
    wreg, wval,     \* the address and the data of its write
    ready,          \* s_axi_awready, s_axi_wready
    awaddr,         \* s_axi_awaddr
    regData,        \* s_register_data_out
    bvalid,         \* s_axi_bvalid
    arready,        \* s_axi_arready
    rvalid,         \* s_axi_rvalid: 0 for "000", 1 to 3 for its one bit
    rdenVec,        \* s_slv_reg_rden_vec(1 downto 0) and (2)
    rdata,          \* s_axi_rdata
    awaddrR1, awaddrR2, \* s_axi_awaddr_r1, _r2
    wrenCdc, rdenCdc,   \* s_slv_reg_wren_cdc, s_slv_reg_rden_cdc
    wrEn, enabled,  \* s_wr_en; the register whose enable is high, or "none"
    flags,          \* o_zx_tape_fifo, the register on the fast side that is read
    due,            \* history: the write that has been accepted and not delivered
    sampled         \* history: flags was taken since the present read began

timeVars == <<slow, fast>>
slowVars == <<master, wreg, wval, ready, awaddr, regData, bvalid, arready, rvalid, rdenVec, rdata>>
fastVars == <<awaddrR1, awaddrR2, wrenCdc, rdenCdc, wrEn, enabled, flags>>
portVars == <<timeVars, slowVars, fastVars, due, sampled>>

Nothing == [reg |-> "none", val |-> "none"]
Writes == [reg : Registers, val : Values]
Shift3 == [1 .. 3 -> BOOLEAN]
Cleared == [i \in 1 .. 3 |-> FALSE]

PortTypeOK ==
    /\ slow \in 0 .. SlowPeriod /\ fast \in 0 .. FastPeriod
    /\ master \in {"idle", "write", "response", "read", "data"}
    /\ wreg \in Registers /\ awaddr \in Registers /\ awaddrR1 \in Registers /\ awaddrR2 \in Registers
    /\ wval \in Values /\ regData \in Values
    /\ ready \in BOOLEAN /\ bvalid \in BOOLEAN /\ arready \in BOOLEAN /\ wrEn \in BOOLEAN
    /\ rvalid \in 0 .. 3
    /\ rdenVec \in Shift3 /\ wrenCdc \in Shift3 /\ rdenCdc \in Shift3
    /\ rdata \in Flags /\ flags \in Flags
    /\ enabled \in Registers \cup {"none"}
    /\ due \in Writes \cup {Nothing} /\ sampled \in BOOLEAN

PortInit(reg, val, flag) ==
    /\ slow = SlowPeriod /\ fast \in 1 .. FastPeriod
    /\ master = "idle" /\ wreg = reg /\ wval = val
    /\ ready = FALSE /\ bvalid = FALSE /\ arready = FALSE /\ rvalid = 0
    /\ awaddr = reg /\ awaddrR1 = reg /\ awaddrR2 = reg /\ regData = val
    /\ rdenVec = Cleared /\ wrenCdc = Cleared /\ rdenCdc = Cleared
    /\ wrEn = FALSE /\ enabled = "none"
    /\ rdata = flag /\ flags = flag
    /\ due = Nothing /\ sampled = FALSE

(* A shift register with its newest bit at 1, and a rising edge between    *)
(* the second and the third stage.                                         *)
Shifted(vec, bit) == [i \in 1 .. 3 |-> IF i = 1 THEN bit ELSE vec[i - 1]]
Rising(vec) == vec[2] /\ ~vec[3]

Wren == ready /\ master = "write"
Rden == arready /\ master = "read" /\ rvalid # 3

-----------------------------------------------------------------------------
(* The slow clock.                                                         *)

SlowTick ==
    /\ slow <= fast
    /\ slow' = SlowPeriod
    /\ fast' = fast - slow

Begin(what) ==
    /\ master = "idle"
    /\ master' = what

BeginWrite(reg, val) ==
    /\ Begin("write")
    /\ wreg' = reg /\ wval' = val
    /\ UNCHANGED sampled

BeginRead ==
    /\ Begin("read")
    /\ sampled' = FALSE
    /\ UNCHANGED <<wreg, wval>>

(* The master goes on with its access, or does nothing.                    *)
MasterGoesOn ==
    /\ master' = CASE master = "write" /\ ready -> "response"
                   [] master = "response" /\ bvalid -> "idle"
                   [] master = "read" /\ arready -> "data"
                   [] master = "data" /\ rvalid = 3 -> "idle"
                   [] OTHER -> master
    /\ UNCHANGED <<wreg, wval, sampled>>

ReadDone == master = "data" /\ rvalid = 3

LatchesData == master = "write"
SamplesEarly == rdenVec[1] /\ ~rdenVec[2]       \* mutant: a clock too early

SamplesRead == Rising(rdenVec)

Slave ==
    /\ ready' = (~ready /\ master = "write")
    /\ awaddr' = IF ~ready /\ master = "write" THEN wreg ELSE awaddr
    /\ regData' = IF LatchesData THEN wval ELSE regData
    /\ bvalid' = IF Wren /\ ~bvalid THEN TRUE ELSE bvalid /\ master # "response"
    /\ arready' = (~arready /\ master = "read")
    /\ rvalid' = CASE rvalid \in {1, 2} -> rvalid + 1
                   [] rvalid = 3 -> 0
                   [] OTHER -> IF Rden THEN 1 ELSE 0
    /\ rdenVec' = Shifted(rdenVec, Rden)
    /\ rdata' = IF SamplesRead THEN flags ELSE rdata
    /\ due' = IF ~ready /\ master = "write" THEN [reg |-> wreg, val |-> wval] ELSE due

SlowEdge ==
    /\ SlowTick
    /\ Slave
    /\ UNCHANGED fastVars

-----------------------------------------------------------------------------
(* The fast clock.  now is what the read register would be loaded with.    *)

FastTick ==
    /\ fast <= slow
    /\ fast' = FastPeriod
    /\ slow' = slow - fast

(* A read raises an enable as well, but not s_wr_en with it. *)
Delivers(reg) == wrEn /\ enabled = reg

CrossWritesEarly ==             \* mutant: the edge is detected a stage before the address
    /\ awaddrR1' = awaddr /\ awaddrR2' = awaddrR1
    /\ wrenCdc' = Shifted(wrenCdc, Wren)
    /\ wrEn' = (wrenCdc[1] /\ ~wrenCdc[2])
    /\ enabled' = IF wrEn' THEN awaddrR2 ELSE "none"
    /\ due' = IF wrEn THEN Nothing ELSE due

CrossWrites ==
    /\ awaddrR1' = awaddr /\ awaddrR2' = awaddrR1
    /\ wrenCdc' = Shifted(wrenCdc, Wren)
    /\ wrEn' = Rising(wrenCdc)
    /\ enabled' = IF Rising(wrenCdc) THEN awaddrR2 ELSE "none"
    /\ due' = IF wrEn THEN Nothing ELSE due

CrossReads(now) ==
    /\ rdenCdc' = Shifted(rdenCdc, Rden)
    /\ flags' = IF Rising(rdenCdc) THEN now ELSE flags
    /\ sampled' = (sampled \/ Rising(rdenCdc))

FastEdge(now) ==
    /\ FastTick
    /\ CrossWrites
    /\ CrossReads(now)
    /\ UNCHANGED slowVars

-----------------------------------------------------------------------------
(* Every register write that was accepted is delivered once, to its own    *)
(* register and with its own data, before another one is accepted: the     *)
(* edge detectors lose none and repeat none (zx_ctrl.vhd, issues.txt:1).   *)
WritesDeliveredOnce ==
    [][/\ wrEn /\ ~wrEn' => due = [reg |-> enabled, val |-> regData]
       /\ ~ready /\ ready' => due = Nothing]_portVars

(* What a read returns was taken from the fast side after the read began,  *)
(* although nothing but the time the answer takes makes sure of it (the    *)
(* FIXME at zx_ctrl.vhd:368).                                              *)
ReadsAreFresh ==
    [][(rvalid # 3 /\ rvalid' = 3) \/ rdata' # rdata => sampled]_portVars

=============================================================================
