----------------------------- MODULE MCTapeFaults -----------------------------
(***************************************************************************)
(* An instance of TapeLine in which the user stops and starts the tape at  *)
(* any moment and the card fails at any read.                              *)
(***************************************************************************)
EXTENDS TapeLine

CONSTANT tapFile   \* a file with one block of one byte

TapeContent == [f \in {tapFile} |-> <<1, 0, 0>>]

ASSUME TapsAssumption == OnlyTaps

-----------------------------------------------------------------------------
(* As long as the tape is started, words keep coming or it stops itself,   *)
(* also when the card fails in the middle of a block: the reader tells the *)
(* decoder that there is nothing to wait for.  (Not so once bytes have     *)
(* been dropped: the decoder may then wait for ever for the rest of a      *)
(* block that the reader has already read.)                                *)
PlaysOrStops == []<>(~started \/ pulses # << >> \/ dropped)
=============================================================================
