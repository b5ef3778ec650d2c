------------------------------ MODULE TapeLogic ------------------------------
(***************************************************************************)
(* The way of a pulse from the processor to the tape input of the Z80: the *)
(* loop of zx_tape.c that looks at the full flag and writes a word, the    *)
(* register interface it goes through, the pulse FIFO and the process that *)
(* plays it.                                                               *)
(***************************************************************************)
EXTENDS RegisterPort, TapePulse

ASSUME WrittenAssumption ==
    /\ {"tape", "other"} \subseteq Registers /\ Values = TapeWord
    /\ [full : BOOLEAN, empty : BOOLEAN] \subseteq Flags

VARIABLE task   \* what the loop does next: look at the flag, or send a word

vars == <<portVars, pulseVars, task>>

TypeOK == PortTypeOK /\ PulseTypeOK /\ task \in {"poll", "send"}

Init ==
    /\ PulseInit
    /\ PortInit("tape", fifoDin, FlagsNow)
    /\ task = "poll"

(* The loop of zx_tape_routine.  It may stop for any time, and other       *)
(* registers may be written then (the keyboard's, for one).                *)
Poll ==
    /\ task = "poll"
    /\ BeginRead
    /\ UNCHANGED task

Answer ==
    /\ ReadDone
    /\ MasterGoesOn
    /\ task' = IF rdata.full THEN "poll" ELSE "send"

SendTwo(word) ==            \* mutant: several words for one look at the flag
    /\ task = "send"
    /\ BeginWrite("tape", word)
    /\ task' \in {"poll", "send"}

zx_tape_send(word) ==
    /\ task = "send"
    /\ BeginWrite("tape", word)
    /\ task' = "poll"

WriteOther ==
    /\ task = "poll"
    /\ BeginWrite("other", wval)
    /\ UNCHANGED task

Waits == ~ReadDone /\ MasterGoesOn /\ UNCHANGED task

Processor ==
    \/ Poll
    \/ Answer
    \/ \E word \in TapeWord : zx_tape_send(word)
    \/ WriteOther
    \/ Waits

ProcessorClock == Processor /\ SlowEdge /\ UNCHANGED pulseVars

LogicClock ==
    /\ FastEdge(FlagsNow)
    /\ \E tick, waiting \in BOOLEAN : PulseEdge(tick, waiting, Delivers("tape"), regData)
    /\ UNCHANGED task

Next == ProcessorClock \/ LogicClock

(* Both clocks run, the one of the Z80 among them, and the Z80 is not      *)
(* stopped for ever in the middle of a pulse.                              *)
Z80Runs == FastEdge(FlagsNow) /\ PulseEdge(TRUE, FALSE, Delivers("tape"), regData) /\ UNCHANGED task

Spec == Init /\ [][Next]_vars /\ WF_vars(LogicClock) /\ WF_vars(ProcessorClock) /\ SF_vars(Z80Runs)

-----------------------------------------------------------------------------
(* The loop never writes to a full FIFO: the flag it reads counts every    *)
(* word it has written, although that word and the flag cross between the  *)
(* clocks with nothing but their timing to order them.                     *)
NeverOverflows == fifoWr => ~Full

(* The words sent and not yet taken: those in the FIFO, and the one being  *)
(* written to it, crossing between the clocks, or offered by the master.   *)
(* They are put together whether or not two of them are there at once.     *)
One(there, word) == IF there THEN <<word>> ELSE <<>>
Offered == master = "write" /\ ~ready /\ wreg = "tape"
OnTheWay == One(fifoWr, fifoDin) \o One(due.reg = "tape", due.val) \o One(Offered, wval)
Sent == fifo \o OnTheWay

Pulses == INSTANCE PulseQueue WITH
    Words <- TapeWord, pulses <- Sent, room <- task = "send"

(* Loop, bus, clock crossing and FIFO are together the queue of words that *)
(* the tape player relies on (PulseQueue): no word is lost, repeated or    *)
(* changed on its way, and room that was seen is there for all of them.    *)
ImplementsPulseQueue == Pulses!Spec

(* A word at the output of the FIFO is played when another one follows it. *)
(* The last word of a tape waits there until more is sent.                 *)
GoesOn == fresh /\ fifo # <<>> ~> rdEn

=============================================================================
