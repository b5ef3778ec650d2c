------------------------------ MODULE TapePlayer ------------------------------
(***************************************************************************)
(* The tape recorder of the emulator (zx_spectrum_file_io/zx_tape.c).      *)
(*                                                                         *)
(* A reader walks the selected .tap or .tzx file and copies the blocks     *)
(* worth playing into a small byte FIFO; a decoder takes them out of it    *)
(* and turns each into words of a pulse FIFO in the programmable logic,    *)
(* which plays them to the Z80 at its own pace.  Reader and decoder run    *)
(* one after the other in zx_tape_routine, called from the main loop; the  *)
(* keys that select a file and start or stop the tape are handled between  *)
(* two calls.  The logic drains the pulse FIFO at any moment.              *)
(*                                                                         *)
(* A byte is represented by the place it was read from, so that what the   *)
(* decoder makes of a byte can be compared with what it is in the file.    *)
(* The byte FIFO is the queue that TapeFifo implements.                    *)
(***************************************************************************)
EXTENDS Integers, Sequences

CONSTANTS
  Files,        (* the tape files on the card                                    *)
  NoFile,       (* no file: the path before the first one is selected            *)
  Content,      (* the bytes of each file                                        *)
  Depth,        (* ZX_TAPE_FIFO_DEPTH                                            *)
  PulseDepth,   (* words the pulse FIFO of the logic holds                       *)
  LoopsSize,    (* ZX_TAPE_LOOPS_SIZE                                            *)
  PilotPulses,  (* pilot pulses of a standard block, 6000 in the code            *)
  TapPause,     (* pause after a block of a .tap file, 2000 in the code          *)
  StraySizes,   (* what a read past the end of the header size table may return  *)
  StopAllowed,  (* may the user press the stop key while the tape plays          *)
  CardMayFail   (* may the card fail while a file is opened or read              *)

Byte == 0 .. 255

ASSUME FilesAssumption == NoFile \notin Files
ASSUME ContentAssumption == Content \in [Files -> Seq(Byte)]
ASSUME DepthAssumption == Depth \in Nat \ {0} /\ PulseDepth \in Nat \ {0}
ASSUME PulseAssumption == PilotPulses \in Nat \ {0} /\ TapPause \in Nat
ASSUME LoopsAssumption == LoopsSize \in Nat
ASSUME StrayAssumption == StraySizes \subseteq Byte \ {0} /\ StraySizes # {}
ASSUME SwitchAssumption == StopAllowed \in BOOLEAN /\ CardMayFail \in BOOLEAN

VARIABLES
  pc,               (* where the main loop is: see Places                      *)
  path,             (* zx_tape_path                                            *)
  tape_file,        (* the open FIL: its file, fptr and sticky error flag      *)
  started,          (* zx_tape_tape_started                                    *)
  finished,         (* zx_tape_tape_finished                                   *)
  tzx,              (* zx_tape_tzx: the open file is in the .tzx format        *)
  header,           (* the header_size bytes of header[] still to be queued    *)
  data_size,        (* bytes of the current block the reader still has to copy *)
  loops,            (* the stack loops[0 .. loops_size - 1]                    *)
  fifo,             (* zx_tape_fifo: bytes read and not decoded, oldest first  *)
  current_block,    (* zx_tape_current_block: what is left to play of a block  *)
  tape_header,      (* the bytes gathered in tape_header[0 .. pos - 1]         *)
  tape_header_size, (* how many the decoder waits for, 0 when not known        *)
  tape_bit,         (* half bits of tape_byte still to be sent                 *)
  tape_byte,        (* the byte being sent                                     *)
  pulses            (* the words in the pulse FIFO, oldest first               *)

readerVars  == <<tape_file, tzx, header, data_size, loops>>
decoderVars == <<current_block, tape_header, tape_header_size, tape_bit, tape_byte>>
vars == <<pc, path, started, finished, fifo, pulses, readerVars, decoderVars>>

-----------------------------------------------------------------------------
(* Bytes and files. *)

NoByte == [file |-> NoFile, at |-> 0]
ByteAt(f, p) == [file |-> f, at |-> p]
Value(b) == Content[b.file][b.at + 1]

FileSize(f) == IF f = NoFile THEN 0 ELSE Len(Content[f])
AtEnd == tape_file.fptr >= FileSize(tape_file.name)
Lower(a, b) == IF a <= b THEN a ELSE b

(* The file starts with the 10 bytes of the .tzx signature. *)
HasTzxSignature(f) ==
  FileSize(f) >= 10 /\ SubSeq(Content[f], 1, 3) = <<90, 88, 84>>

(* The bytes of a header.  Past its end, which is looked at only after a   *)
(* stray header size, the array still has bytes of earlier headers; here   *)
(* they are 0.  They decide how many bytes a block of an unknown code      *)
(* skips, and no property says where reading goes on after such a code.    *)
At(h, i) == IF i <= Len(h) THEN Value(h[i]) ELSE 0
Read_word(h, i) == At(h, i) + 256 * At(h, i + 1)
Read_word3(h, i) == Read_word(h, i) + 65536 * At(h, i + 2)
Read_dword(h, i) == Read_word3(h, i) + 16777216 * At(h, i + 3)

(* tzx_header_size: its entries are for the block codes 0x10 to 0x35. *)
TzxHeaderSize ==
  [code \in 16 .. 53 |->
     CASE code = 17 -> 19
       [] code = 20 -> 11
       [] code \in {21, 52} -> 9
       [] code = 53 -> 21
       [] code \in {19, 33, 48, 51} -> 2
       [] code \in {32, 35, 36, 49, 50} -> 3
       [] code \in {34, 37} -> 1
       [] OTHER -> 5]

(* zx_tape_get_header_size: the sizes it may return for a block code.  A   *)
(* code outside the table makes it read whatever lies next to the table.   *)
HeaderSizes(isTzx, code) ==
  IF ~isTzx THEN {2}
  ELSE IF code = 90 THEN {10}
  ELSE IF code \in DOMAIN TzxHeaderSize THEN {TzxHeaderSize[code]}
  ELSE StraySizes

-----------------------------------------------------------------------------
(* A block: how many pilot and sync pulses, data bytes and pauses, and how *)
(* its data is played.  "origin" is the place of its header in the file.   *)

BlockData == "block"
SequenceData == "sequence"
SkipData == "skip"

NoBlock ==
  [pilot |-> 0, sync |-> 0, pause |-> 0, size |-> 0, kind |-> BlockData,
   lastbit |-> 0, origin |-> NoByte]

Exhausted(b) == b.pilot = 0 /\ b.sync = 0 /\ b.pause = 0 /\ b.size = 0

(* Worth copying into the FIFO, rather than being skipped in the file. *)
Playable(b) ==
  \/ b.pilot > 0 \/ b.sync > 0 \/ b.pause > 0
  \/ b.size > 0 /\ b.kind # SkipData

(* Mutation: counts bits instead of half bits. *)
LastBitWhole(used) == 8 - used

(* Half bits of the last byte that are not played: uint8_t arithmetic. *)
LastBit(used) == ((8 - used) * 2) % 256

(* zx_tape_block_parse_header *)
Block(h, kind, pilot, sync, pause, size, lastbit) ==
  [pilot |-> pilot, sync |-> sync, pause |-> pause, size |-> size, kind |-> kind,
   lastbit |-> lastbit, origin |-> h[1]]

Skip(h, size) == Block(h, SkipData, 0, 0, 0, size, 0)

Parse(isTzx, h) ==
  LET code == At(h, 1)
      word(i) == Read_word(h, i)
      word3(i) == Read_word3(h, i)
  IN
  IF ~isTzx THEN Block(h, BlockData, PilotPulses, 2, TapPause, word(1), 0)
  ELSE
  CASE code = 16 -> Block(h, BlockData, PilotPulses, 2, word(2), word(4), 0)
    [] code = 17 -> Block(h, BlockData, word(12), 2, word(15), word3(17), LastBit(At(h, 14)))
    [] code = 18 -> Block(h, BlockData, word(4), 0, 0, 0, 0)
    [] code = 19 -> Block(h, SequenceData, 0, 0, 0, At(h, 2) * 2, 0)
    [] code = 20 -> Block(h, BlockData, 0, 0, word(7), word3(9), LastBit(At(h, 6)))
    [] code = 21 -> Skip(h, word3(7) * 2)
    [] code = 32 -> Block(h, BlockData, 0, 0, word(2), 0, 0)
    [] code \in {33, 48} -> Skip(h, At(h, 2))
    [] code \in {34, 35, 36, 37, 52, 90} -> Block(h, BlockData, 0, 0, 0, 0, 0)
    [] code = 49 -> Skip(h, At(h, 3))
    [] code = 50 -> Skip(h, word(2))
    [] code = 51 -> Skip(h, At(h, 2) * 3)
    [] code = 53 -> Skip(h, Read_dword(h, 18))
    [] code = 64 -> Skip(h, word3(10))
    [] OTHER -> Skip(h, Read_dword(h, 2))

-----------------------------------------------------------------------------
(* "task": between two calls of zx_tape_routine, where keys are handled;   *)
(* "fill": the loop that fills the byte FIFO; "play": about to look at the *)
(* full flag of the pulse FIFO; "decode": it was seen not full.            *)
Places == {"task", "fill", "play", "decode"}

(* Static storage: an unopened FIL has fptr = size = 0. *)
Init ==
  /\ pc = "task"
  /\ path = NoFile
  /\ tape_file = [name |-> NoFile, fptr |-> 0, err |-> FALSE]
  /\ started = FALSE
  /\ finished = FALSE
  /\ tzx = FALSE
  /\ header = << >>
  /\ data_size = 0
  /\ loops = << >>
  /\ fifo = << >>
  /\ current_block = NoBlock
  /\ tape_header = << >>
  /\ tape_header_size = 2
  /\ tape_bit = 0
  /\ tape_byte = NoByte
  /\ pulses = << >>

-----------------------------------------------------------------------------
(* Keys. *)

(* Enter on a .tap or .tzx file in the shell. *)
zx_tape_select_file(f) ==
  /\ pc = "task"
  /\ path' = f
  /\ UNCHANGED <<pc, started, finished, fifo, pulses, readerVars, decoderVars>>

(* The minus key while the tape is stopped: the byte FIFO is emptied, what *)
(* the reader and the decoder were in the middle of is kept.               *)
zx_tape_start ==
  /\ pc = "task"
  /\ ~started
  /\ started' = TRUE
  /\ fifo' = << >>
  /\ UNCHANGED <<pc, path, finished, pulses, readerVars, decoderVars>>

(* Mutation: the rest of the block is forgotten. *)
StopCutsBlock ==
  /\ StopAllowed
  /\ pc = "task"
  /\ started
  /\ started' = FALSE
  /\ current_block' = NoBlock
  /\ UNCHANGED <<pc, path, finished, fifo, pulses, readerVars,
                 tape_header, tape_header_size, tape_bit, tape_byte>>

(* The minus key while the tape plays. *)
zx_tape_stop ==
  /\ StopAllowed
  /\ pc = "task"
  /\ started
  /\ started' = FALSE
  /\ UNCHANGED <<pc, path, finished, fifo, pulses, readerVars, decoderVars>>

-----------------------------------------------------------------------------
(* zx_tape_routine, first part: a file that has been read to its end, or   *)
(* was never opened, is opened from its beginning.                         *)

(* The card may fail when the signature is read: the file then counts as a *)
(* .tap file and nothing more can be read from it.                         *)
OpenFile ==
  /\ path # NoFile
  /\ \E failed \in BOOLEAN :
       /\ failed => CardMayFail /\ FileSize(path) >= 10
       /\ tzx' = (HasTzxSignature(path) /\ ~failed)
       /\ tape_file' = [name |-> path, fptr |-> IF tzx' THEN 10 ELSE 0, err |-> failed]
  /\ header' = << >>
  /\ data_size' = 0
  /\ loops' = << >>
  /\ UNCHANGED started

OpenFails ==
  /\ path = NoFile \/ CardMayFail
  /\ started' = FALSE
  /\ UNCHANGED readerVars

EnterRoutine ==
  /\ pc = "task"
  /\ IF started /\ tape_file.fptr = FileSize(tape_file.name)
     THEN OpenFile \/ OpenFails
     ELSE UNCHANGED <<started, readerVars>>
  /\ pc' = "fill"
  /\ UNCHANGED <<path, finished, fifo, pulses, decoderVars>>

-----------------------------------------------------------------------------
(* zx_tape_routine, second part: the loop that fills the byte FIFO, one    *)
(* action per way an iteration can go.                                     *)

(* Mutation: the room left in the FIFO is off by one. *)
FillingPastFull == pc = "fill" /\ started /\ Len(fifo) <= Depth

Filling == pc = "fill" /\ started /\ Len(fifo) < Depth

(* The loop ends: the tape is stopped or the FIFO is full. *)
FillEnds ==
  /\ pc = "fill"
  /\ ~started \/ Len(fifo) >= Depth
  /\ pc' = "play"
  /\ UNCHANGED <<path, started, finished, fifo, pulses, readerVars, decoderVars>>

(* A byte of the header that has been read is queued. *)
QueueHeaderByte ==
  /\ Filling
  /\ header # << >>
  /\ fifo' = Append(fifo, Head(header))
  /\ header' = Tail(header)
  /\ UNCHANGED <<pc, path, started, finished, tape_file, tzx, data_size, loops,
                 pulses, decoderVars>>

(* A byte of the block's data is read and queued. *)
QueueDataByte ==
  /\ Filling
  /\ header = << >> /\ data_size > 0
  /\ ~tape_file.err /\ ~AtEnd
  /\ fifo' = Append(fifo, ByteAt(tape_file.name, tape_file.fptr))
  /\ tape_file' = [tape_file EXCEPT !.fptr = @ + 1]
  /\ data_size' = data_size - 1
  /\ UNCHANGED <<pc, path, started, finished, tzx, header, loops, pulses, decoderVars>>

(* f_read does not deliver the byte: the file is shorter than the block    *)
(* says, or the card fails, which marks the file unusable until reopened.  *)
ReadFails ==
  \/ AtEnd /\ UNCHANGED tape_file
  \/ tape_file.err /\ UNCHANGED tape_file
  \/ CardMayFail /\ tape_file' = [tape_file EXCEPT !.err = TRUE]

(* Mutation: the tape is not stopped. *)
DataByteFailsSilently ==
  /\ Filling
  /\ header = << >> /\ data_size > 0
  /\ ReadFails
  /\ pc' = "play"
  /\ UNCHANGED <<path, started, finished, fifo, tzx, header, data_size, loops, pulses,
                 decoderVars>>

DataByteFails ==
  /\ Filling
  /\ header = << >> /\ data_size > 0
  /\ ReadFails
  /\ started' = FALSE
  /\ pc' = "play"
  /\ UNCHANGED <<path, finished, fifo, tzx, header, data_size, loops, pulses, decoderVars>>

(* The end of the file, or a header that cannot be read: the tape has been *)
(* read, the decoder will stop it when it runs dry.  A header cut short by *)
(* the end of the file leaves fptr there.                                  *)
NoMoreBlocks ==
  /\ Filling
  /\ header = << >> /\ data_size = 0
  /\ \/ ReadFails
     \/ /\ ~tape_file.err /\ ~AtEnd
        /\ \E hs \in HeaderSizes(tzx, Value(ByteAt(tape_file.name, tape_file.fptr))) :
             tape_file.fptr + hs > FileSize(tape_file.name)
        /\ tape_file' = [tape_file EXCEPT !.fptr = FileSize(tape_file.name)]
  /\ finished' = TRUE
  /\ pc' = "play"
  /\ UNCHANGED <<path, started, fifo, tzx, header, data_size, loops, pulses, decoderVars>>

LoopStart(h) == Value(h[1]) = 36
LoopEnd(h) == Value(h[1]) = 37

(* Mutation: the place pushed is that of the block's second byte. *)
PushLoopInside(h, next) ==
  /\ LoopStart(h)
  /\ loops' = IF Len(loops) < LoopsSize
              THEN Append(loops, [fptr |-> tape_file.fptr + 1, counter |-> Read_word(h, 2)])
              ELSE loops
  /\ tape_file' = [tape_file EXCEPT !.fptr = next]

(* 0x24: the place after it and its count are pushed, if there is room. *)
PushLoop(h, next) ==
  /\ LoopStart(h)
  /\ loops' = IF Len(loops) < LoopsSize
              THEN Append(loops, [fptr |-> next, counter |-> Read_word(h, 2)])
              ELSE loops
  /\ tape_file' = [tape_file EXCEPT !.fptr = next]

(* 0x25: back to the start of the innermost loop until its count is used up. *)
RepeatLoop(h, next) ==
  /\ LoopEnd(h)
  /\ IF loops = << >>
     THEN /\ tape_file' = [tape_file EXCEPT !.fptr = next]
          /\ UNCHANGED loops
     ELSE LET top == loops[Len(loops)]
              left == IF top.counter > 0 THEN top.counter - 1 ELSE 0
          IN  IF left > 0
              THEN /\ loops' = [loops EXCEPT ![Len(loops)].counter = left]
                   /\ tape_file' = [tape_file EXCEPT !.fptr = top.fptr]
              ELSE /\ loops' = SubSeq(loops, 1, Len(loops) - 1)
                   /\ tape_file' = [tape_file EXCEPT !.fptr = next]

(* A block header is read: the block is announced to the decoder, obeyed   *)
(* here (loops) or its data is skipped; f_lseek stops at the end.          *)
ReadBlock ==
  /\ Filling
  /\ header = << >> /\ data_size = 0
  /\ ~tape_file.err /\ ~AtEnd
  /\ \E hs \in HeaderSizes(tzx, Value(ByteAt(tape_file.name, tape_file.fptr))) :
       LET next == tape_file.fptr + hs
           h == [i \in 1 .. hs |-> ByteAt(tape_file.name, tape_file.fptr + i - 1)]
           b == Parse(tzx, h)
           end == FileSize(tape_file.name)
       IN  /\ next <= end
           /\ \/ /\ Playable(b)
                 /\ header' = h
                 /\ data_size' = b.size
                 /\ tape_file' = [tape_file EXCEPT !.fptr = next]
                 /\ UNCHANGED loops
              \/ /\ ~Playable(b)
                 /\ \/ PushLoop(h, next)
                    \/ RepeatLoop(h, next)
                    \/ /\ ~LoopStart(h) /\ ~LoopEnd(h)
                       /\ tape_file' = [tape_file EXCEPT !.fptr = Lower(next + b.size, end)]
                       /\ UNCHANGED loops
                 /\ UNCHANGED <<header, data_size>>
  /\ UNCHANGED <<pc, path, started, finished, fifo, tzx, pulses, decoderVars>>

-----------------------------------------------------------------------------
(* zx_tape_routine, last part: words are sent while the tape plays, the    *)
(* pulse FIFO is not full and the decoder has something to send.           *)

(* Mutation: the full flag comes one word late. *)
PollLate ==
  /\ pc = "play"
  /\ pc' = IF started /\ Len(pulses) <= PulseDepth THEN "decode" ELSE "task"
  /\ UNCHANGED <<path, started, finished, fifo, pulses, readerVars, decoderVars>>

PollPulseFifo ==
  /\ pc = "play"
  /\ pc' = IF started /\ Len(pulses) < PulseDepth THEN "decode" ELSE "task"
  /\ UNCHANGED <<path, started, finished, fifo, pulses, readerVars, decoderVars>>

(* zx_tape_fill_buffer, first part: once a block has been played, the      *)
(* header of the next one is gathered from the FIFO.  When it is not       *)
(* complete and the file has been read, the tape stops.                    *)
Gathered ==
  LET same == [block |-> current_block, header |-> tape_header, hs |-> tape_header_size,
               bit |-> tape_bit, fifo |-> fifo, started |-> started,
               finished |-> finished]
      sizes == IF tape_header = << >> /\ fifo # << >>
               THEN HeaderSizes(tzx, Value(fifo[1]))
               ELSE {tape_header_size}
      take(hs) == Lower(hs - Len(tape_header), Len(fifo))
      got(hs) == tape_header \o SubSeq(fifo, 1, take(hs))
      rest(hs) == SubSeq(fifo, take(hs) + 1, Len(fifo))
  IN
  IF ~Exhausted(current_block) THEN {same}
  ELSE { IF hs # 0 /\ Len(got(hs)) = hs
         THEN [same EXCEPT !.block = Parse(tzx, got(hs)), !.header = << >>, !.hs = 0,
                           !.bit = 0, !.fifo = rest(hs)]
         ELSE [same EXCEPT !.header = got(hs), !.hs = hs, !.fifo = rest(hs),
                           !.started = started /\ ~finished, !.finished = FALSE]
         : hs \in sizes }

Word(kind, at) == [kind |-> kind, at |-> at]

(* The decoder's state after gathering is d; a word is sent, and the loop  *)
(* goes on.                                                                *)
Send(d, word, block) ==
  /\ pulses' = Append(pulses, word)
  /\ current_block' = block
  /\ pc' = "play"

SendPilot(d) ==
  /\ d.block.pilot > 0
  /\ Send(d, Word("pilot", d.block.origin), [d.block EXCEPT !.pilot = @ - 1])
  /\ fifo' = d.fifo /\ tape_bit' = d.bit
  /\ UNCHANGED tape_byte

SendSync(d) ==
  /\ d.block.pilot = 0 /\ d.block.sync > 0
  /\ Send(d, Word(IF d.block.sync >= 2 THEN "sync1" ELSE "sync2", d.block.origin),
          [d.block EXCEPT !.sync = @ - 1])
  /\ fifo' = d.fifo /\ tape_bit' = d.bit
  /\ UNCHANGED tape_byte

InData(d, kind) ==
  d.block.pilot = 0 /\ d.block.sync = 0 /\ d.block.size > 0 /\ d.block.kind = kind

(* A half bit of the current byte, or of the next one in the FIFO; the     *)
(* last byte of a block may end before its last bit.                       *)
SendHalfBit(d) ==
  /\ InData(d, BlockData)
  /\ d.bit # 0 \/ d.fifo # << >>
  /\ LET fetch == d.bit = 0
         byte == IF fetch THEN Head(d.fifo) ELSE tape_byte
         left == (IF fetch THEN 16 ELSE d.bit) - 1
         cut == left # 0 /\ d.block.size = 1 /\ left = d.block.lastbit
     IN  /\ Send(d, Word("data", byte),
                 [d.block EXCEPT !.size = IF left = 0 \/ cut THEN @ - 1 ELSE @])
         /\ tape_byte' = byte
         /\ tape_bit' = IF cut THEN 0 ELSE left
         /\ fifo' = IF fetch THEN Tail(d.fifo) ELSE d.fifo

(* Mutation: a pulse is counted as one byte. *)
SequenceCountsPulses(d) ==
  /\ InData(d, SequenceData)
  /\ Len(d.fifo) >= 2
  /\ Send(d, Word("sequence", Head(d.fifo)), [d.block EXCEPT !.size = @ - 1])
  /\ fifo' = SubSeq(d.fifo, 3, Len(d.fifo)) /\ tape_bit' = d.bit
  /\ UNCHANGED tape_byte

(* A pulse of a pulse sequence takes two bytes. *)
SendSequencePulse(d) ==
  /\ InData(d, SequenceData)
  /\ Len(d.fifo) >= 2
  /\ Send(d, Word("sequence", Head(d.fifo)), [d.block EXCEPT !.size = @ - 2])
  /\ fifo' = SubSeq(d.fifo, 3, Len(d.fifo)) /\ tape_bit' = d.bit
  /\ UNCHANGED tape_byte

SendPause(d) ==
  /\ d.block.pilot = 0 /\ d.block.sync = 0 /\ d.block.size = 0 /\ d.block.pause > 0
  /\ Send(d, Word("pause", d.block.origin), [d.block EXCEPT !.pause = @ - 1])
  /\ fifo' = d.fifo /\ tape_bit' = d.bit
  /\ UNCHANGED tape_byte

(* Nothing to send: no block, or its data has not been read yet; data to   *)
(* be skipped is dropped from the FIFO.  The loop ends.                    *)
NothingToSend(d) ==
  /\ \/ Exhausted(d.block)
     \/ InData(d, BlockData) /\ d.bit = 0 /\ d.fifo = << >>
     \/ InData(d, SequenceData) /\ Len(d.fifo) < 2
     \/ InData(d, SkipData)
  /\ LET n == IF InData(d, SkipData) THEN Lower(d.block.size, Len(d.fifo)) ELSE 0
     IN  /\ fifo' = SubSeq(d.fifo, n + 1, Len(d.fifo))
         /\ current_block' = [d.block EXCEPT !.size = @ - n]
  /\ tape_bit' = d.bit
  /\ pc' = "task"
  /\ UNCHANGED <<pulses, tape_byte>>

(* zx_tape_fill_buffer *)
FillBuffer ==
  /\ pc = "decode"
  /\ \E d \in Gathered :
       /\ \/ SendPilot(d) \/ SendSync(d) \/ SendHalfBit(d)
          \/ SendSequencePulse(d) \/ SendPause(d) \/ NothingToSend(d)
       /\ tape_header' = d.header
       /\ tape_header_size' = d.hs
       /\ started' = d.started
       /\ finished' = d.finished
  /\ UNCHANGED <<path, readerVars>>

(* The programmable logic takes a word to play. *)
PlayPulse ==
  /\ pulses # << >>
  /\ pulses' = Tail(pulses)
  /\ UNCHANGED <<pc, path, started, finished, fifo, readerVars, decoderVars>>

-----------------------------------------------------------------------------
Keys ==
  \/ \E f \in Files : zx_tape_select_file(f)
  \/ zx_tape_start
  \/ zx_tape_stop

FillLoop ==
  \/ FillEnds \/ QueueHeaderByte \/ QueueDataByte \/ DataByteFails
  \/ NoMoreBlocks \/ ReadBlock

MainLoop == EnterRoutine \/ FillLoop \/ PollPulseFifo \/ FillBuffer

Next == Keys \/ MainLoop \/ PlayPulse

(* The main loop calls zx_tape_routine for ever and every loop in it makes *)
(* progress; the logic plays words as long as there are any.               *)
Fairness == WF_vars(MainLoop) /\ WF_vars(PlayPulse)

Spec == Init /\ [][Next]_vars
FairSpec == Spec /\ Fairness

-----------------------------------------------------------------------------
BlockType ==
  [pilot : Nat, sync : 0 .. 2, pause : Nat, size : Nat,
   kind : {BlockData, SequenceData, SkipData}, lastbit : Byte, origin : [file : Files \cup {NoFile}, at : Nat]]
TapeByte == [file : Files \cup {NoFile}, at : Nat]
WordKinds == {"pilot", "sync1", "sync2", "data", "sequence", "pause"}

(* Every variable holds what its declaration in zx_tape.c allows.          *)
TypeOK ==
  /\ pc \in Places
  /\ path \in Files \cup {NoFile}
  /\ tape_file \in [name : Files \cup {NoFile}, fptr : Nat, err : BOOLEAN]
  /\ tape_file.fptr <= FileSize(tape_file.name)
  /\ started \in BOOLEAN /\ finished \in BOOLEAN /\ tzx \in BOOLEAN
  /\ header \in Seq(TapeByte) /\ data_size \in Nat
  /\ loops \in Seq([fptr : Nat, counter : Nat]) /\ Len(loops) <= LoopsSize
  /\ fifo \in Seq(TapeByte) /\ Len(fifo) <= Depth
  /\ current_block \in BlockType
  /\ tape_header \in Seq(TapeByte) /\ tape_header_size \in Byte
  /\ tape_bit \in 0 .. 16 /\ tape_byte \in TapeByte
  /\ pulses \in Seq([kind : WordKinds, at : TapeByte])

(* A word is written only to a pulse FIFO that has room for it, although   *)
(* its full flag is read before the word is made, with the whole decoder   *)
(* in between, and the logic drains it at any moment.                      *)
PulseFifoNeverOverrun == Len(pulses) <= PulseDepth
=============================================================================
