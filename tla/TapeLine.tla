------------------------------- MODULE TapeLine -------------------------------
(***************************************************************************)
(* What the tape player puts on the line to the logic, for a card with     *)
(* .tap files: TapePlayer with a history of the words that were sent.      *)
(***************************************************************************)
EXTENDS TapePlayer, SequencesExt

(* The card holds .tap files, whose blocks end with a pause.               *)
OnlyTaps == TapPause > 0 /\ \A f \in Files : ~HasTzxSignature(f)

(* History: the last word sent, and how many of its kind and place, in a   *)
(* row, where the data words of a block count as a row of bytes of 16      *)
(* words; and whether starting the tape ever dropped bytes that a stop had *)
(* left between reader and decoder.                                        *)
VARIABLES line, dropped

lineVars == <<vars, line, dropped>>

Silence == [word |-> Word("pause", NoByte), count |-> TapPause]

SameRow(w) ==
  /\ w.kind = line.word.kind
  /\ w.kind = "data" \/ w.at = line.word.at

Sends == Len(pulses') > Len(pulses)

LineInit == Init /\ line = Silence /\ dropped = FALSE

Recorded ==
  line' = IF ~Sends THEN line
          ELSE LET w == Last(pulses')
                   n == IF SameRow(w) THEN line.count + 1 ELSE 1
               IN  [word |-> w, count |-> IF w.kind = "data" THEN n % 16 ELSE n]

LineNext ==
  /\ Next
  /\ Recorded
  /\ dropped' = (dropped \/ (started' /\ ~started /\ fifo # << >>))

LineSpec == LineInit /\ [][LineNext]_lineVars /\ Fairness

-----------------------------------------------------------------------------
(* What may follow the last word on the line. *)
MayFollow(w) ==
  LET kind == line.word.kind
  IN  CASE w.kind = "pilot" -> \/ SameRow(w) /\ line.count < PilotPulses
                               \/ kind = "pause" /\ line.count = TapPause
        [] w.kind = "sync1" -> kind = "pilot" /\ line.count = PilotPulses
        [] w.kind = "sync2" -> kind = "sync1"
        [] w.kind = "data" -> \/ kind = "sync2"
                              \/ kind = "data" /\ (w.at # line.word.at => line.count = 0)
        [] w.kind = "pause" -> \/ SameRow(w) /\ line.count < TapPause
                               \/ kind = "sync2"
                               \/ kind = "data" /\ line.count = 0

(* Whatever the user and the card do, the line carries whole blocks: the   *)
(* full pilot tone, both sync pulses, whole bytes, the full pause.  A stop *)
(* suspends the block being played, it never cuts it.                      *)
WholeBlocks == [][Sends => MayFollow(Last(pulses'))]_lineVars
=============================================================================
