----------------------------- MODULE MCTapeLogic -----------------------------
(* An instance of TapeLogic with pulses of length 0 and 1 and silences.    *)
EXTENDS TapeLogic

MCRegisters == {"tape", "other"}
MCValues == TapeWord
MCFlags == [full : BOOLEAN, empty : BOOLEAN]
MCWords == {[len |-> 0, on |-> TRUE], [len |-> 1, on |-> TRUE], [len |-> 1, on |-> FALSE]}

=============================================================================
