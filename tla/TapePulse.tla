------------------------------ MODULE TapePulse ------------------------------
(***************************************************************************)
(* The tape input of the logic: the pulse FIFO and the process p_tape_in   *)
(* of zx_main_top.vhd.  Operators describe one edge of the logic's clock.  *)
(* The FIFO (fifo_1024_16) is of the standard kind: its output changes one *)
(* edge after a read and is undefined before the first.                    *)
(***************************************************************************)
EXTENDS Naturals, Sequences

CONSTANTS Depth,    \* places of the FIFO: 1024
          TapeWord, \* words: a length in clocks of the Z80, and pulse or silence
          Idle      \* length of the silence when there is nothing to play: 16#7FFF#,
                    \* the longest there is

ASSUME DepthAssumption == Depth \in Nat \ {0}
ASSUME WordsAssumption == Idle \in Nat \ {0} /\ TapeWord \subseteq [len : 0 .. Idle, on : BOOLEAN]

VARIABLES
    fifo,               \* content of the FIFO
    fifoWr, fifoDin,    \* s_tape_fifo_wr_en, s_tape_fifo_din
    dout, rdEn,         \* s_tape_fifo_dout, s_tape_fifo_rd_en
    counter, pulse,     \* v_tape_counter, v_tape_pulse
    level,              \* s_tape_in
    fresh,              \* history: the word at the output has not been played
    quiet,              \* history: edges since a word of length 0 was taken, up to 3
    event               \* history: whether this edge lost or repeated a word

pulseVars == <<fifo, fifoWr, fifoDin, dout, rdEn, counter, pulse, level, fresh, quiet, event>>

PulseTypeOK ==
    /\ fifo \in Seq(TapeWord) /\ Len(fifo) <= Depth
    /\ fifoWr \in BOOLEAN /\ fifoDin \in TapeWord
    /\ dout \in TapeWord /\ rdEn \in BOOLEAN
    /\ counter \in 0 .. Idle
    /\ pulse \in BOOLEAN /\ level \in BOOLEAN /\ fresh \in BOOLEAN
    /\ quiet \in 0 .. 3
    /\ event \in {"none", "missed", "replayed"}

PulseInit ==
    /\ fifo = <<>> /\ fifoWr = FALSE /\ rdEn = FALSE
    /\ dout \in TapeWord /\ fifoDin = dout
    /\ counter = 0 /\ pulse = TRUE /\ level = FALSE
    /\ fresh = TRUE /\ quiet = 3 /\ event = "none"

Full == Len(fifo) = Depth
FlagsNow == [full |-> Full, empty |-> fifo = <<>>]

(* A pulse is counted while the Z80 runs, a silence always. *)
LeftWraps(tick, waiting) ==             \* mutant: counts below zero
    IF tick /\ (pulse => ~waiting) THEN counter - 1 ELSE counter

LeftInPulses(tick, waiting) ==          \* mutant: a silence waits for the Z80 and for a pulse
    IF counter > 0 /\ tick /\ pulse /\ ~waiting THEN counter - 1 ELSE counter

Left(tick, waiting) ==
    IF counter > 0 /\ tick /\ (pulse => ~waiting) THEN counter - 1 ELSE counter

Ends(tick, waiting) == counter > 0 /\ Left(tick, waiting) = 0

Takes(tick, waiting) == Left(tick, waiting) = 0 /\ fifo # <<>>

Pops == rdEn /\ fifo # <<>>

PlayTapeReadsOn(tick, waiting) ==       \* mutant: the FIFO is read also when it is empty
    /\ level' = IF ~Ends(tick, waiting) THEN level ELSE pulse /\ ~level
    /\ rdEn' = (Left(tick, waiting) = 0)
    /\ counter' = IF Takes(tick, waiting) THEN dout.len
                  ELSE IF Left(tick, waiting) = 0 THEN Idle
                  ELSE Left(tick, waiting)
    /\ pulse' = IF Takes(tick, waiting) THEN dout.on
                ELSE IF Left(tick, waiting) = 0 THEN FALSE
                ELSE pulse
    /\ quiet' = IF Takes(tick, waiting) /\ dout.len = 0 THEN 0
                ELSE IF quiet < 3 THEN quiet + 1 ELSE 3

PlayTape(tick, waiting) ==
    /\ level' = IF ~Ends(tick, waiting) THEN level ELSE pulse /\ ~level
    /\ rdEn' = Takes(tick, waiting)
    /\ counter' = IF Takes(tick, waiting) THEN dout.len
                  ELSE IF Left(tick, waiting) = 0 THEN Idle
                  ELSE Left(tick, waiting)
    /\ pulse' = IF Takes(tick, waiting) THEN dout.on
                ELSE IF Left(tick, waiting) = 0 THEN FALSE
                ELSE pulse
    /\ quiet' = IF Takes(tick, waiting) /\ dout.len = 0 THEN 0
                ELSE IF quiet < 3 THEN quiet + 1 ELSE 3

Fifo(tick, waiting) ==
    LET rest == IF Pops THEN Tail(fifo) ELSE fifo
    IN  /\ fifo' = IF fifoWr /\ ~Full THEN Append(rest, fifoDin) ELSE rest
        /\ dout' = IF Pops THEN Head(fifo) ELSE dout
        /\ fresh' = (Pops \/ (fresh /\ ~Takes(tick, waiting)))
        /\ event' = IF Takes(tick, waiting) /\ ~fresh /\ dout.len # 0 THEN "replayed"
                    ELSE IF Pops /\ fresh /\ ~Takes(tick, waiting) THEN "missed"
                    ELSE "none"

FifoRegisterHolds(delivered, word) ==    \* mutant: the write enable is not cleared
    /\ fifoWr' = (delivered \/ fifoWr)
    /\ fifoDin' = IF delivered THEN word ELSE fifoDin

(* word is what a register write delivers at this edge, if it does.        *)
FifoRegister(delivered, word) ==
    /\ fifoWr' = delivered
    /\ fifoDin' = IF delivered THEN word ELSE fifoDin

(* A tick comes every 40 edges, when the FIFO has long answered; only 38   *)
(* words of length 0 in a row could keep it busy up to the next.           *)
PulseEdge(tick, waiting, delivered, word) ==
    /\ tick => ~rdEn
    /\ PlayTape(tick, waiting)
    /\ Fifo(tick, waiting)
    /\ FifoRegister(delivered, word)

-----------------------------------------------------------------------------
(* No pulse is played twice, and a word leaves the output of the FIFO      *)
(* without having been played only just after a word of length 0: such a   *)
(* word is read twice before the output changes, and the read that comes   *)
(* too much throws away a later word (zx_main_top.vhd:304).                *)
PulsesInOrder == event = "none" \/ (event = "missed" /\ quiet < 3)

=============================================================================
