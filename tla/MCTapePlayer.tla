----------------------------- MODULE MCTapePlayer -----------------------------
(***************************************************************************)
(* Instances of TapePlayer for TLC.  A tape is given as the list of its    *)
(* blocks; the bytes of its file and the signal a tape recorder would play *)
(* are both derived from that list, independently of the code.             *)
(***************************************************************************)
EXTENDS TapeLayout, SequencesExt

CONSTANTS
  tapFile, tzxFile,   \* the names of the files on the card
  PauseLast           \* the .tzx tape ends with a block that is only a header

-----------------------------------------------------------------------------
(* Blocks: "code" is the block code of the .tzx format (a .tap file is a   *)
(* list of blocks 0x10 without their code), "used" the bits of the last    *)
(* byte that are played, "count" the repetitions of a loop.                *)

Plain == [code |-> 16, pilot |-> PilotPulses, sync |-> TRUE, used |-> 8,
          pause |-> TapPause, count |-> 0, data |-> << >>]

Standard(data) == [Plain EXCEPT !.data = data]
Turbo(pilot, data) == [Plain EXCEPT !.code = 17, !.pilot = pilot, !.data = data]
Tone(pilot) == [Plain EXCEPT !.code = 18, !.pilot = pilot, !.sync = FALSE, !.pause = 0]
Silent(code) == [Plain EXCEPT !.code = code, !.pilot = 0, !.sync = FALSE, !.pause = 0]
PulseList(data) == [Silent(19) EXCEPT !.data = data]
PureData(used, data) == [Silent(20) EXCEPT !.used = used, !.data = data, !.pause = 1]
Pause(n) == [Silent(32) EXCEPT !.pause = n]
LoopFrom(n) == [Silent(36) EXCEPT !.count = n]
LoopTo == Silent(37)
Text(data) == [Silent(48) EXCEPT !.data = data]

(* The header of a block in each of the two formats. *)
TapHeader(b) == <<Len(b.data), 0>>

TzxHeader(b) ==
  LET zeros(n) == [i \in 1 .. n |-> 0]
  IN  CASE b.code = 16 -> <<16, b.pause, 0, Len(b.data), 0>>
        [] b.code = 17 -> <<17>> \o zeros(10) \o <<b.pilot, 0, b.used, b.pause, 0>>
                               \o <<Len(b.data), 0, 0>>
        [] b.code = 18 -> <<18, 0, 0, b.pilot, 0>>
        [] b.code = 19 -> <<19, Len(b.data) \div 2>>
        [] b.code = 20 -> <<20>> \o zeros(4) \o <<b.used, b.pause, 0, Len(b.data), 0, 0>>
        [] b.code = 32 -> <<32, b.pause, 0>>
        [] b.code = 36 -> <<36, b.count, 0>>
        [] b.code = 37 -> <<37>>
        [] b.code = 48 -> <<48, Len(b.data)>>

Headers(f, blocks) ==
  [i \in 1 .. Len(blocks) |->
     IF f = tzxFile THEN TzxHeader(blocks[i]) ELSE TapHeader(blocks[i])]

Signature(f) == IF f = tzxFile THEN <<90, 88, 84, 97, 112, 101, 33, 26, 1, 20>> ELSE << >>

FileBytes(f, blocks) ==
  Signature(f) \o
  FlattenSeq([i \in 1 .. Len(blocks) |-> Headers(f, blocks)[i] \o blocks[i].data])

-----------------------------------------------------------------------------
(* The signal of a tape. *)

Repeat(n, word) == [i \in 1 .. n |-> word]

(* Block i: the pilot tone, two sync pulses, 16 half bits for each byte    *)
(* but the unused last ones (or a pulse for each pair of bytes), a pause.  *)
BlockSignal(f, blocks, i) ==
  LET b == blocks[i]
      start == Len(FileBytes(f, SubSeq(blocks, 1, i - 1)))
      data == start + Len(Headers(f, blocks)[i])
      here(kind) == Word(kind, ByteAt(f, start))
  IN  Repeat(b.pilot, here("pilot"))
      \o (IF b.sync THEN <<here("sync1"), here("sync2")>> ELSE << >>)
      \o (IF b.code = 19
          THEN [k \in 1 .. Len(b.data) \div 2 |-> Word("sequence", ByteAt(f, data + 2 * (k - 1)))]
          ELSE [k \in 1 .. 16 * Len(b.data) - 2 * (8 - b.used) |->
                  Word("data", ByteAt(f, data + (k - 1) \div 16))])
      \o Repeat(b.pause, here("pause"))

(* The order in which the blocks are played: the blocks between a loop     *)
(* start and its end as many times as it says; texts are not played.       *)
PlayOrder(blocks) ==
  LET from[i \in 1 .. Len(blocks) + 1] ==
        IF i > Len(blocks) THEN << >>
        ELSE IF blocks[i].code = 36
             THEN LET e == CHOOSE j \in i .. Len(blocks) :
                             /\ blocks[j].code = 37
                             /\ \A k \in i .. j - 1 : blocks[k].code # 37
                  IN  FlattenSeq(Repeat(blocks[i].count, [k \in 1 .. e - i - 1 |-> i + k]))
                      \o from[e + 1]
        ELSE IF blocks[i].code = 48 THEN from[i + 1]
        ELSE <<i>> \o from[i + 1]
  IN  from[1]

Signal(f, blocks) ==
  FlattenSeq([n \in 1 .. Len(PlayOrder(blocks)) |->
                BlockSignal(f, blocks, PlayOrder(blocks)[n])])

-----------------------------------------------------------------------------
(* The tapes of the instances. *)

Blocks == [f \in Files |->
  IF f = tzxFile
  THEN <<Text(<<7>>), Tone(1), LoopFrom(2), PureData(6, <<200>>), PulseList(<<3, 0>>), LoopTo,
         Pause(1), Standard(<< >>), Turbo(1, <<9>>)>>
       \o (IF PauseLast THEN <<Pause(1)>> ELSE << >>)
  ELSE <<Standard(<<3, 1>>), Standard(<<2>>)>>]

TapeContent == [f \in Files |-> FileBytes(f, Blocks[f])]
TapeSignal == [f \in Files |-> Signal(f, Blocks[f])]
TapeStarts == [f \in Files |->
  {Len(FileBytes(f, SubSeq(Blocks[f], 1, i))) : i \in 0 .. Len(Blocks[f])}]

(* Unless the last block of the .tzx tape is only a header.                *)
ASSUME TapesAssumption == ~PauseLast => \A f \in Files : WellFormed(f)

(* History: "emitted" is how many words of the signal have been sent since *)
(* the tape was at its beginning; "wanted" is the files whose playback the *)
(* user asked for since the tape was last started.                         *)
VARIABLES emitted, wanted

mcvars == <<vars, emitted, wanted>>

Sends == Len(pulses') > Len(pulses)

MCInit == Init /\ emitted = 0 /\ wanted = {}

MCNext ==
  /\ Next
  /\ emitted' = IF Sends /\ path # NoFile THEN (emitted + 1) % Len(TapeSignal[path]) ELSE emitted
  /\ wanted' = IF started' /\ ~started THEN {path}
               ELSE IF path' # path THEN wanted \cup {path'} ELSE wanted

MCSpec == MCInit /\ [][MCNext]_mcvars /\ Fairness

(* The user selects one file, once. *)
OneTapeNext == MCNext /\ SelectsOnce
OneTapeSpec == MCInit /\ [][OneTapeNext]_mcvars /\ Fairness

-----------------------------------------------------------------------------
(* Every word sent is the next one of the signal of the selected tape,     *)
(* which starts over when its end is reached: reader and decoder agree on  *)
(* where each block starts, no byte is lost between them, and loops,       *)
(* texts, short last bytes and empty blocks are played as the format says. *)
SignalIsTheTape ==
  [][Sends => Last(pulses') = TapeSignal[path][emitted + 1]]_mcvars

(* zx_tape.h: "Start playback for a selected file". *)
StartPlaysSelected ==
  [][Len(fifo') > Len(fifo) => Last(fifo').file \in wanted]_mcvars
=============================================================================
