--------------------------- MODULE TapePlayerProofs ---------------------------
(***************************************************************************)
(* For any files, any contents, any FIFO sizes and whatever the user and   *)
(* the card do: every variable of the tape player keeps its type, a word   *)
(* is never written to a full pulse FIFO, and the words of a .tap file     *)
(* make up whole blocks.  For tapes that keep to their format: the reader  *)
(* and the decoder agree on where the blocks are.                          *)
(***************************************************************************)
EXTENDS TapeLine, TapeLayout, SequenceTheorems, TLAPS

-----------------------------------------------------------------------------
(* The invariant: one part for each group of variables.  What the type     *)
(* invariant lacks to be inductive: the bytes in flight are bytes of a     *)
(* file, a loop starts within the open file, a pulse sequence has an even  *)
(* size, the decoder never gathers more than the header it waits for, and  *)
(* room seen in the pulse FIFO is still there when the word is written.    *)

FilePlace == {b \in TapeByte : b.file \in Files /\ b.at < FileSize(b.file)}
Words == [kind : WordKinds, at : TapeByte]

EvenSequence(b) == b.kind = SequenceData => \E k \in Nat : b.size = 2 * k

ControlOK ==
  /\ pc \in Places
  /\ path \in Files \cup {NoFile}
  /\ started \in BOOLEAN /\ finished \in BOOLEAN /\ tzx \in BOOLEAN

ReaderOK ==
  /\ tape_file \in [name : Files \cup {NoFile}, fptr : Nat, err : BOOLEAN]
  /\ tape_file.fptr <= FileSize(tape_file.name)
  /\ header \in Seq(FilePlace) /\ data_size \in Nat
  /\ loops \in Seq([fptr : Nat, counter : Nat]) /\ Len(loops) <= LoopsSize
  /\ \A i \in 1 .. Len(loops) : loops[i].fptr <= FileSize(tape_file.name)

FifoOK == fifo \in Seq(FilePlace) /\ Len(fifo) <= Depth

DecoderOK ==
  /\ current_block \in BlockType /\ EvenSequence(current_block)
  /\ tape_header \in Seq(FilePlace) /\ tape_header_size \in Byte
  /\ Len(tape_header) <= tape_header_size
  /\ tape_bit \in 0 .. 16 /\ tape_byte \in TapeByte

PulsesOK ==
  /\ pulses \in Seq(Words)
  /\ Len(pulses) <= PulseDepth
  /\ pc = "decode" => Len(pulses) < PulseDepth

IInv == ControlOK /\ ReaderOK /\ FifoOK /\ DecoderOK /\ PulsesOK

-----------------------------------------------------------------------------
(* What is taken from the front of a sequence, and what is left of it. *)

LEMMA FrontOfSeq ==
  ASSUME NEW S, NEW s \in Seq(S), NEW n \in 0 .. Len(s)
  PROVE  /\ SubSeq(s, 1, n) \in Seq(S)
         /\ Len(SubSeq(s, 1, n)) = n
         /\ \A i \in 1 .. n : SubSeq(s, 1, n)[i] = s[i]
<1>1. \A i \in 1 .. n : s[i] \in S
  BY ElementOfSeq
<1> QED
  BY <1>1, SubSeqProperties

LEMMA RestOfSeq ==
  ASSUME NEW S, NEW s \in Seq(S), NEW n \in 0 .. Len(s)
  PROVE  /\ SubSeq(s, n + 1, Len(s)) \in Seq(S)
         /\ Len(SubSeq(s, n + 1, Len(s))) = Len(s) - n
<1>1. \A i \in n + 1 .. Len(s) : s[i] \in S
  BY ElementOfSeq
<1>2. n + 1 \in Int /\ Len(s) \in Int
  BY LenProperties
<1> QED
  BY <1>1, <1>2, SubSeqProperties

-----------------------------------------------------------------------------
(* Files and bytes. *)

LEMMA SizesAreNat == \A f \in Files \cup {NoFile} : FileSize(f) \in Nat
<1> SUFFICES ASSUME NEW f \in Files \cup {NoFile}
             PROVE  FileSize(f) \in Nat
  OBVIOUS
<1>1. CASE f = NoFile
  BY <1>1 DEF FileSize
<1>2. CASE f # NoFile
  <2>1. Content[f] \in Seq(Byte)
    BY <1>2, ContentAssumption
  <2> QED
    BY <1>2, <2>1 DEF FileSize
<1> QED
  BY <1>1, <1>2

LEMMA NoByteType == NoByte \in TapeByte
  BY DEF NoByte, TapeByte

LEMMA PlaceInFile ==
  ASSUME NEW f \in Files \cup {NoFile}, NEW p \in Nat, p < FileSize(f)
  PROVE  ByteAt(f, p) \in FilePlace
<1>1. f \in Files
  BY DEF FileSize
<1> QED
  BY <1>1 DEF ByteAt, FilePlace, TapeByte

LEMMA ValueType == \A b \in FilePlace : Value(b) \in Byte
<1> SUFFICES ASSUME NEW b \in FilePlace
             PROVE  Value(b) \in Byte
  OBVIOUS
<1>1. b.file \in Files /\ b.file # NoFile /\ b.at \in Nat /\ b.at < FileSize(b.file)
  BY FilesAssumption DEF FilePlace, TapeByte
<1>2. Content[b.file] \in Seq(Byte)
  BY <1>1, ContentAssumption
<1>3. FileSize(b.file) = Len(Content[b.file])
  BY <1>1 DEF FileSize
<1>4. b.at + 1 \in 1 .. Len(Content[b.file])
  BY <1>1, <1>2, <1>3
<1> QED
  BY <1>2, <1>4, ElementOfSeq DEF Value

LEMMA AtType ==
  ASSUME NEW h \in Seq(FilePlace), NEW i \in Nat \ {0}
  PROVE  At(h, i) \in Byte
<1>1. CASE i <= Len(h)
  <2>1. h[i] \in FilePlace
    BY <1>1, ElementOfSeq
  <2> QED
    BY <1>1, <2>1, ValueType DEF At
<1>2. CASE ~(i <= Len(h))
  BY <1>2 DEF At, Byte
<1> QED
  BY <1>1, <1>2

LEMMA ByteIsNat == \A x \in Byte : x \in Nat
  BY DEF Byte

LEMMA ReadType ==
  ASSUME NEW h \in Seq(FilePlace), NEW i \in Nat \ {0}
  PROVE  Read_word(h, i) \in Nat /\ Read_word3(h, i) \in Nat /\ Read_dword(h, i) \in Nat
<1>1. At(h, i) \in 0 .. 255 /\ At(h, i + 1) \in 0 .. 255
      /\ At(h, i + 2) \in 0 .. 255 /\ At(h, i + 3) \in 0 .. 255
  <2>1. i + 1 \in Nat \ {0} /\ i + 2 \in Nat \ {0} /\ i + 3 \in Nat \ {0}
    OBVIOUS
  <2> QED
    BY <2>1, AtType DEF Byte
<1> DEFINE a == At(h, i)
           b == At(h, i + 1)
           c == At(h, i + 2)
           d == At(h, i + 3)
<1>2. /\ Read_word(h, i) = a + 256 * b
      /\ Read_word3(h, i) = Read_word(h, i) + 65536 * c
      /\ Read_dword(h, i) = Read_word3(h, i) + 16777216 * d
  BY SMT DEF Read_word, Read_word3, Read_dword
<1>3. a \in Nat /\ b \in Nat /\ c \in Nat /\ d \in Nat
  <2> HIDE DEF a, b, c, d
  <2>1. a \in 0 .. 255 /\ b \in 0 .. 255 /\ c \in 0 .. 255 /\ d \in 0 .. 255
    BY <1>1 DEF a, b, c, d
  <2> QED
    BY <2>1
<1> HIDE DEF a, b, c, d
<1>4. Read_word(h, i) \in Nat
  BY <1>2, <1>3, SMT
<1>5. Read_word3(h, i) \in Nat
  BY <1>2, <1>3, <1>4, SMT
<1>6. Read_dword(h, i) \in Nat
  BY <1>2, <1>3, <1>5, SMT
<1> QED
  BY <1>4, <1>5, <1>6

LEMMA LastBitType == \A used \in Byte : LastBit(used) \in Byte
  BY DEF Byte, LastBit

LEMMA HeaderSizeType ==
  ASSUME NEW isTzx \in BOOLEAN, NEW code, NEW hs \in HeaderSizes(isTzx, code)
  PROVE  hs \in 1 .. 255
<1>1. CASE hs \in StraySizes
  BY <1>1, StrayAssumption DEF Byte
<1>2. CASE hs \notin StraySizes
  <2>1. TzxHeaderSize \in [16 .. 53 -> 1 .. 255]
    BY SMT DEF TzxHeaderSize
  <2>2. DOMAIN TzxHeaderSize = 16 .. 53
    BY <2>1
  <2>3. ASSUME isTzx, code # 90
        PROVE  code \in 16 .. 53 /\ hs = TzxHeaderSize[code]
    BY <1>2, <2>2, <2>3, SMT DEF HeaderSizes
  <2>4. ~isTzx \/ code = 90 => hs \in {2, 10}
    BY SMT DEF HeaderSizes
  <2> QED
    BY <2>1, <2>3, <2>4, SMT
<1> QED
  BY <1>1, <1>2

LEMMA BlockTyped ==
  ASSUME NEW h \in Seq(FilePlace), Len(h) >= 1,
         NEW kind \in {BlockData, SequenceData, SkipData},
         NEW pilot \in Nat, NEW sync \in 0 .. 2, NEW pause \in Nat, NEW size \in Nat,
         NEW lastbit \in Byte,
         kind = SequenceData => \E k \in Nat : size = 2 * k
  PROVE  LET b == Block(h, kind, pilot, sync, pause, size, lastbit)
         IN  b \in BlockType /\ EvenSequence(b)
<1>1. h[1] \in TapeByte
  BY ElementOfSeq DEF FilePlace
<1> QED
  BY <1>1, SMT DEF Block, BlockType, TapeByte, EvenSequence

(* Whatever the bytes of a header, it describes a block. *)
LEMMA ParseType ==
  ASSUME NEW isTzx \in BOOLEAN, NEW h \in Seq(FilePlace), Len(h) >= 1
  PROVE  Parse(isTzx, h) \in BlockType /\ EvenSequence(Parse(isTzx, h))
<1> DEFINE code == At(h, 1)
           a2 == At(h, 2)
           a3 == At(h, 3)
           w1 == Read_word(h, 1)
           w2 == Read_word(h, 2)
           w4 == Read_word(h, 4)
           w7 == Read_word(h, 7)
           w12 == Read_word(h, 12)
           w15 == Read_word(h, 15)
           t7 == Read_word3(h, 7)
           t9 == Read_word3(h, 9)
           t10 == Read_word3(h, 10)
           t17 == Read_word3(h, 17)
           d2 == Read_dword(h, 2)
           d18 == Read_dword(h, 18)
           l6 == LastBit(At(h, 6))
           l14 == LastBit(At(h, 14))
           known == 16 .. 21 \cup 32 .. 37 \cup 48 .. 53 \cup {64, 90}
           Typed(b) == b \in BlockType /\ EvenSequence(b)
<1>1. ASSUME NEW i \in Nat \ {0}
      PROVE  At(h, i) \in Nat /\ LastBit(At(h, i)) \in Byte
  <2>1. At(h, i) \in Byte
    BY AtType
  <2> QED
    BY <2>1, ByteIsNat, LastBitType
<1>2. /\ 0 \in Byte /\ PilotPulses \in Nat /\ TapPause \in Nat
      /\ BlockData # SequenceData /\ SkipData # SequenceData
  BY PulseAssumption DEF Byte, BlockData, SequenceData, SkipData
<1>3. a2 \in Nat /\ a3 \in Nat /\ w1 \in Nat /\ w2 \in Nat /\ w4 \in Nat /\ w7 \in Nat /\ w12 \in Nat /\ w15 \in Nat
      /\ t7 \in Nat /\ t9 \in Nat /\ t10 \in Nat /\ t17 \in Nat /\ d2 \in Nat /\ d18 \in Nat
  BY <1>1, ReadType
<1>4. l6 \in Byte /\ l14 \in Byte
  BY <1>1
<1>5. Parse(isTzx, h) =
        IF ~isTzx THEN Block(h, BlockData, PilotPulses, 2, TapPause, w1, 0)
        ELSE
        CASE code = 16 -> Block(h, BlockData, PilotPulses, 2, w2, w4, 0)
          [] code = 17 -> Block(h, BlockData, w12, 2, w15, t17, l14)
          [] code = 18 -> Block(h, BlockData, w4, 0, 0, 0, 0)
          [] code = 19 -> Block(h, SequenceData, 0, 0, 0, a2 * 2, 0)
          [] code = 20 -> Block(h, BlockData, 0, 0, w7, t9, l6)
          [] code = 21 -> Skip(h, t7 * 2)
          [] code = 32 -> Block(h, BlockData, 0, 0, w2, 0, 0)
          [] code \in {33, 48} -> Skip(h, a2)
          [] code \in {34, 35, 36, 37, 52, 90} -> Block(h, BlockData, 0, 0, 0, 0, 0)
          [] code = 49 -> Skip(h, a3)
          [] code = 50 -> Skip(h, w2)
          [] code = 51 -> Skip(h, a2 * 3)
          [] code = 53 -> Skip(h, d18)
          [] code = 64 -> Skip(h, t10)
          [] OTHER -> Skip(h, d2)
  BY SMT DEF Parse
<1> HIDE DEF code, a2, a3, w1, w2, w4, w7, w12, w15, t7, t9, t10, t17, d2, d18, l6, l14
<1>6. ASSUME NEW n \in Nat
      PROVE  Typed(Skip(h, n))
  BY <1>2, BlockTyped, SMT DEF Skip
<1>7. CASE ~isTzx
  <2>1. Parse(isTzx, h) = Block(h, BlockData, PilotPulses, 2, TapPause, w1, 0)
    BY <1>5, <1>7, SMT
  <2> QED
    BY <2>1, <1>2, <1>3, BlockTyped, SMT
<1>8. CASE isTzx /\ code = 16
  <2>1. Parse(isTzx, h) = Block(h, BlockData, PilotPulses, 2, w2, w4, 0)
    BY <1>5, <1>8, SMT
  <2> QED
    BY <2>1, <1>2, <1>3, <1>4, BlockTyped, SMT
<1>9. CASE isTzx /\ code = 17
  <2>1. Parse(isTzx, h) = Block(h, BlockData, w12, 2, w15, t17, l14)
    BY <1>5, <1>9, SMT
  <2> QED
    BY <2>1, <1>2, <1>3, <1>4, BlockTyped, SMT
<1>10. CASE isTzx /\ code = 18
  <2>1. Parse(isTzx, h) = Block(h, BlockData, w4, 0, 0, 0, 0)
    BY <1>5, <1>10, SMT
  <2> QED
    BY <2>1, <1>2, <1>3, <1>4, BlockTyped, SMT
<1>11. CASE isTzx /\ code = 19
  <2>1. Parse(isTzx, h) = Block(h, SequenceData, 0, 0, 0, a2 * 2, 0)
    BY <1>5, <1>11, SMT
  <2> QED
    BY <2>1, <1>2, <1>3, <1>4, BlockTyped, SMT
<1>12. CASE isTzx /\ code = 20
  <2>1. Parse(isTzx, h) = Block(h, BlockData, 0, 0, w7, t9, l6)
    BY <1>5, <1>12, SMT
  <2> QED
    BY <2>1, <1>2, <1>3, <1>4, BlockTyped, SMT
<1>13. CASE isTzx /\ code = 32
  <2>1. Parse(isTzx, h) = Block(h, BlockData, 0, 0, w2, 0, 0)
    BY <1>5, <1>13, SMT
  <2> QED
    BY <2>1, <1>2, <1>3, <1>4, BlockTyped, SMT
<1>14. CASE isTzx /\ code \in {34, 35, 36, 37, 52, 90}
  <2>1. Parse(isTzx, h) = Block(h, BlockData, 0, 0, 0, 0, 0)
    BY <1>5, <1>14, SMT
  <2> QED
    BY <2>1, <1>2, <1>3, <1>4, BlockTyped, SMT
<1>15. CASE isTzx /\ code \in {21, 33, 48, 49, 50, 51, 53, 64}
  <2>1. Parse(isTzx, h) \in {Skip(h, t7 * 2), Skip(h, a2), Skip(h, a3), Skip(h, w2),
                            Skip(h, a2 * 3), Skip(h, d18), Skip(h, t10)}
    BY <1>5, <1>15, SMT
  <2>2. t7 * 2 \in Nat /\ a2 * 3 \in Nat
    BY <1>3, SMT
  <2> QED
    BY <2>1, <2>2, <1>3, <1>6, Zenon
<1>16. CASE isTzx /\ code \notin known
  <2>1. Parse(isTzx, h) = Skip(h, d2)
    BY <1>5, <1>16, SMT
  <2> QED
    BY <2>1, <1>3, <1>6, Zenon
<1> QED
  BY <1>7, <1>8, <1>9, <1>10, <1>11, <1>12, <1>13, <1>14, <1>15, <1>16

-----------------------------------------------------------------------------
(* The initial state and the keys. *)

LEMMA NoBlockType == NoBlock \in BlockType /\ EvenSequence(NoBlock)
<1>1. 0 \in Byte
  BY DEF Byte
<1> QED
  BY <1>1, NoByteType DEF NoBlock, BlockType, TapeByte, EvenSequence, BlockData, SequenceData

LEMMA InvariantInitially == Init => IInv
<1> SUFFICES ASSUME Init
             PROVE  IInv
  OBVIOUS
<1>1. ControlOK
  BY DEF Init, ControlOK, Places
<1>2. ReaderOK
  BY LoopsAssumption DEF Init, ReaderOK, FileSize
<1>3. FifoOK
  BY DepthAssumption DEF Init, FifoOK
<1>4. DecoderOK
  BY NoBlockType, NoByteType DEF Init, DecoderOK, Byte
<1>5. PulsesOK
  BY DepthAssumption DEF Init, PulsesOK
<1> QED
  BY <1>1, <1>2, <1>3, <1>4, <1>5 DEF IInv

LEMMA KeysKeepInvariant == IInv /\ Keys => IInv'
<1> SUFFICES ASSUME IInv, Keys
             PROVE  IInv'
  OBVIOUS
<1> USE DEF IInv
<1>1. CASE \E f \in Files : zx_tape_select_file(f)
  BY <1>1 DEF zx_tape_select_file, ControlOK, ReaderOK, FifoOK, DecoderOK, PulsesOK,
              readerVars, decoderVars
<1>2. CASE zx_tape_start
  <2>1. FifoOK'
    BY <1>2, DepthAssumption DEF zx_tape_start, FifoOK
  <2> QED
    BY <1>2, <2>1 DEF zx_tape_start, ControlOK, ReaderOK, DecoderOK, PulsesOK,
                      readerVars, decoderVars
<1>3. CASE zx_tape_stop
  BY <1>3 DEF zx_tape_stop, ControlOK, ReaderOK, FifoOK, DecoderOK, PulsesOK,
              readerVars, decoderVars
<1> QED
  BY <1>1, <1>2, <1>3 DEF Keys

-----------------------------------------------------------------------------
(* The reader. *)

LEMMA OpenKeepsInvariant == IInv /\ EnterRoutine => IInv'
<1> SUFFICES ASSUME IInv, EnterRoutine
             PROVE  IInv'
  OBVIOUS
<1> USE DEF IInv
<1>0. tzx' \in BOOLEAN /\ started' \in BOOLEAN
  BY DEF EnterRoutine, OpenFile, OpenFails, ControlOK, readerVars
<1>1. ControlOK' /\ FifoOK' /\ DecoderOK' /\ PulsesOK'
  BY <1>0 DEF EnterRoutine, ControlOK, FifoOK, DecoderOK, PulsesOK, Places, decoderVars
<1>2. CASE OpenFile
  <2>1. path \in Files
    BY <1>2 DEF OpenFile, ControlOK
  <2>2. FileSize(path) \in Nat
    BY <2>1, SizesAreNat
  <2>3. PICK failed \in BOOLEAN :
          /\ tzx' = (HasTzxSignature(path) /\ ~failed)
          /\ tape_file' = [name |-> path, fptr |-> IF tzx' THEN 10 ELSE 0, err |-> failed]
    BY <1>2 DEF OpenFile
  <2>4. /\ tape_file' \in [name : Files \cup {NoFile}, fptr : Nat, err : BOOLEAN]
        /\ tape_file'.fptr <= FileSize(path) /\ tape_file'.name = path
    <3> DEFINE p == IF tzx' THEN 10 ELSE 0
    <3>1. tzx' => FileSize(path) >= 10
      BY <2>3 DEF HasTzxSignature
    <3>2. p \in Nat /\ p <= FileSize(path)
      BY <2>2, <3>1
    <3>3. tape_file' = [name |-> path, fptr |-> p, err |-> failed]
      BY <2>3
    <3> HIDE DEF p
    <3> QED
      BY <2>1, <3>2, <3>3
  <2>5. header' = << >> /\ data_size' = 0 /\ loops' = << >>
    BY <1>2 DEF OpenFile
  <2> QED
    BY <1>1, <2>4, <2>5, LoopsAssumption DEF ReaderOK, FileSize
<1>3. CASE UNCHANGED readerVars
  BY <1>1, <1>3 DEF ReaderOK, readerVars, FileSize
<1> QED
  BY <1>2, <1>3 DEF EnterRoutine, OpenFails

LEMMA QueueKeepsInvariant == IInv /\ (FillEnds \/ QueueHeaderByte \/ QueueDataByte) => IInv'
<1> SUFFICES ASSUME IInv, FillEnds \/ QueueHeaderByte \/ QueueDataByte
             PROVE  IInv'
  OBVIOUS
<1> USE DEF IInv
<1>1. CASE FillEnds
  BY <1>1 DEF FillEnds, ControlOK, ReaderOK, FifoOK, DecoderOK, PulsesOK, Places,
              readerVars, decoderVars
<1>2. CASE QueueHeaderByte
  <2>1. Head(header) \in FilePlace /\ Tail(header) \in Seq(FilePlace)
    BY <1>2, HeadTailProperties DEF QueueHeaderByte, ReaderOK
  <2>2. FifoOK'
    BY <1>2, <2>1, AppendProperties, DepthAssumption DEF QueueHeaderByte, Filling, FifoOK
  <2>3. ReaderOK'
    BY <1>2, <2>1 DEF QueueHeaderByte, ReaderOK, FileSize
  <2> QED
    BY <1>2, <2>2, <2>3 DEF QueueHeaderByte, ControlOK, DecoderOK, PulsesOK, decoderVars
<1>3. CASE QueueDataByte
  <2>1. FileSize(tape_file.name) \in Nat
    BY SizesAreNat DEF ReaderOK
  <2>2. tape_file.fptr < FileSize(tape_file.name)
    BY <1>3, <2>1 DEF QueueDataByte, AtEnd, ReaderOK
  <2>3. ByteAt(tape_file.name, tape_file.fptr) \in FilePlace
    BY <2>2, PlaceInFile DEF ReaderOK
  <2>4. FifoOK'
    BY <1>3, <2>3, AppendProperties, DepthAssumption DEF QueueDataByte, Filling, FifoOK
  <2>5. /\ tape_file' \in [name : Files \cup {NoFile}, fptr : Nat, err : BOOLEAN]
        /\ tape_file'.fptr <= FileSize(tape_file.name)
        /\ tape_file'.name = tape_file.name
        /\ data_size' \in Nat
    <3> DEFINE size == FileSize(tape_file.name)
    <3>1. size \in Nat /\ tape_file.fptr < size
      BY <2>1, <2>2
    <3>2. tape_file' = [tape_file EXCEPT !.fptr = @ + 1] /\ data_size' = data_size - 1
          /\ data_size > 0
      BY <1>3 DEF QueueDataByte
    <3>3. tape_file \in [name : Files \cup {NoFile}, fptr : Nat, err : BOOLEAN]
          /\ data_size \in Nat
      BY DEF ReaderOK
    <3> HIDE DEF size
    <3>4. tape_file' \in [name : Files \cup {NoFile}, fptr : Nat, err : BOOLEAN]
      BY <3>2, <3>3
    <3>5. tape_file'.fptr <= size /\ tape_file'.name = tape_file.name
      BY <3>1, <3>2, <3>3
    <3>6. data_size' \in Nat
      BY <3>2, <3>3
    <3> QED
      BY <3>4, <3>5, <3>6 DEF size
  <2>6. ReaderOK'
    BY <1>3, <2>5 DEF QueueDataByte, ReaderOK, FileSize
  <2> QED
    BY <1>3, <2>4, <2>6 DEF QueueDataByte, ControlOK, DecoderOK, PulsesOK, decoderVars
<1> QED
  BY <1>1, <1>2, <1>3

FileType == [name : Files \cup {NoFile}, fptr : Nat, err : BOOLEAN]
LoopType == [fptr : Nat, counter : Nat]

(* The file pointer is moved within the file, the loops stay within it.    *)
LEMMA FileMoves ==
  ASSUME ReaderOK, NEW p \in Nat, p <= FileSize(tape_file.name),
         \/ tape_file' = [tape_file EXCEPT !.fptr = p]
         \/ UNCHANGED tape_file
         \/ tape_file' = [tape_file EXCEPT !.err = TRUE],
         header' \in Seq(FilePlace), data_size' \in Nat,
         loops' \in Seq(LoopType), Len(loops') <= LoopsSize,
         \A i \in 1 .. Len(loops') : loops'[i].fptr <= FileSize(tape_file.name)
  PROVE  ReaderOK'
<1>1. tape_file \in FileType /\ tape_file.fptr <= FileSize(tape_file.name)
  BY DEF ReaderOK, FileType
<1>2. tape_file' \in FileType /\ tape_file'.name = tape_file.name
  BY <1>1 DEF FileType
<1>3. tape_file'.fptr <= FileSize(tape_file.name)
  BY <1>1 DEF FileType
<1> QED
  BY <1>2, <1>3 DEF ReaderOK, FileType, LoopType, FileSize

LEMMA FailuresKeepInvariant == IInv /\ (DataByteFails \/ NoMoreBlocks) => IInv'
<1> SUFFICES ASSUME IInv, DataByteFails \/ NoMoreBlocks
             PROVE  IInv'
  OBVIOUS
<1> USE DEF IInv
<1>1. FileSize(tape_file.name) \in Nat
  BY SizesAreNat DEF ReaderOK
<1>2. \/ tape_file' = [tape_file EXCEPT !.fptr = FileSize(tape_file.name)]
      \/ UNCHANGED tape_file
      \/ tape_file' = [tape_file EXCEPT !.err = TRUE]
  BY DEF DataByteFails, NoMoreBlocks, ReadFails
<1>3. UNCHANGED <<header, data_size, loops>>
  BY DEF DataByteFails, NoMoreBlocks
<1>4. ReaderOK'
  <2>1. /\ header' \in Seq(FilePlace) /\ data_size' \in Nat
        /\ loops' \in Seq(LoopType) /\ Len(loops') <= LoopsSize
        /\ \A i \in 1 .. Len(loops') : loops'[i].fptr <= FileSize(tape_file.name)
    BY <1>3 DEF ReaderOK, LoopType
  <2> QED
    BY <1>1, <1>2, <2>1, FileMoves
<1>5. /\ pc' = "play" /\ started' \in BOOLEAN /\ finished' \in BOOLEAN
      /\ UNCHANGED <<path, fifo, tzx, pulses, decoderVars>>
  BY DEF DataByteFails, NoMoreBlocks, ControlOK
<1> QED
  BY <1>4, <1>5 DEF ControlOK, FifoOK, DecoderOK, PulsesOK, Places, decoderVars

LEMMA ReadBlockKeepsInvariant == IInv /\ ReadBlock => IInv'
<1> SUFFICES ASSUME IInv, ReadBlock
             PROVE  IInv'
  OBVIOUS
<1> USE DEF IInv
<1> DEFINE size == FileSize(tape_file.name)
<1>1. size \in Nat /\ tape_file.fptr \in Nat /\ tape_file.name \in Files \cup {NoFile}
  BY SizesAreNat DEF ReaderOK
<1>2. PICK hs \in HeaderSizes(tzx, Value(ByteAt(tape_file.name, tape_file.fptr))) :
        LET next == tape_file.fptr + hs
            h == [i \in 1 .. hs |-> ByteAt(tape_file.name, tape_file.fptr + i - 1)]
            b == Parse(tzx, h)
        IN  /\ next <= size
            /\ \/ /\ header' = h
                  /\ data_size' = b.size
                  /\ tape_file' = [tape_file EXCEPT !.fptr = next]
                  /\ UNCHANGED loops
               \/ /\ \/ PushLoop(h, next)
                     \/ RepeatLoop(h, next)
                     \/ /\ tape_file' = [tape_file EXCEPT !.fptr = Lower(next + b.size, size)]
                        /\ UNCHANGED loops
                  /\ UNCHANGED <<header, data_size>>
  BY DEF ReadBlock
<1> DEFINE next == tape_file.fptr + hs
           h == [i \in 1 .. hs |-> ByteAt(tape_file.name, tape_file.fptr + i - 1)]
           b == Parse(tzx, h)
<1>3. hs \in 1 .. 255
  BY HeaderSizeType DEF ControlOK
<1>4. next \in Nat /\ next <= size
  <2>1. next \in Nat
    BY <1>1, <1>3
  <2> QED
    BY <1>2, <2>1
<1>5. h \in Seq(FilePlace) /\ Len(h) = hs
  <2>1. ASSUME NEW i \in 1 .. hs
        PROVE  ByteAt(tape_file.name, tape_file.fptr + i - 1) \in FilePlace
    <3>1. tape_file.fptr + i - 1 \in Nat /\ tape_file.fptr + i - 1 < size
      BY <1>1, <1>3, <1>4
    <3> QED
      BY <1>1, <3>1, PlaceInFile
  <2>2. hs \in Nat
    BY <1>3
  <2> QED
    BY <2>1, <2>2
<1>6. b \in BlockType
  BY <1>3, <1>5, ParseType DEF ControlOK
<1>7. b.size \in Nat
  BY <1>6 DEF BlockType
<1>8. Read_word(h, 2) \in Nat
  BY <1>5, ReadType
<1>9. /\ header \in Seq(FilePlace) /\ data_size \in Nat
      /\ loops \in Seq(LoopType) /\ Len(loops) <= LoopsSize
      /\ \A i \in 1 .. Len(loops) : loops[i].fptr <= size
  BY DEF ReaderOK, LoopType
<1>10. \/ /\ header' = h /\ data_size' = b.size
          /\ tape_file' = [tape_file EXCEPT !.fptr = next]
          /\ UNCHANGED loops
       \/ PushLoop(h, next) /\ UNCHANGED <<header, data_size>>
       \/ RepeatLoop(h, next) /\ UNCHANGED <<header, data_size>>
       \/ /\ tape_file' = [tape_file EXCEPT !.fptr = Lower(next + b.size, size)]
          /\ UNCHANGED <<header, data_size, loops>>
  BY <1>2
<1> HIDE DEF size, next, h, b
<1>11. ReaderOK'
  <2>1. ASSUME NEW p \in Nat, p <= size, tape_file' = [tape_file EXCEPT !.fptr = p],
               header' \in Seq(FilePlace), data_size' \in Nat, loops' = loops
        PROVE  ReaderOK'
    BY <1>9, <2>1, FileMoves DEF size
  <2>2. CASE header' = h /\ data_size' = b.size
             /\ tape_file' = [tape_file EXCEPT !.fptr = next] /\ UNCHANGED loops
    BY <1>4, <1>5, <1>7, <2>1, <2>2
  <2>3. CASE tape_file' = [tape_file EXCEPT !.fptr = Lower(next + b.size, size)]
             /\ UNCHANGED <<header, data_size, loops>>
    <3>1. Lower(next + b.size, size) \in Nat /\ Lower(next + b.size, size) <= size
      <4> DEFINE n == b.size
      <4>1. n \in Nat
        BY <1>7
      <4> HIDE DEF n
      <4>2. Lower(next + n, size) \in Nat /\ Lower(next + n, size) <= size
        BY <1>1, <1>4, <4>1 DEF Lower
      <4> QED
        BY <4>2 DEF n
    <3> QED
      BY <1>9, <2>1, <2>3, <3>1
  <2>4. CASE PushLoop(h, next) /\ UNCHANGED <<header, data_size>>
    <3>1. tape_file' = [tape_file EXCEPT !.fptr = next]
      BY <2>4 DEF PushLoop
    <3>2. CASE Len(loops) < LoopsSize
      <4> DEFINE frame == [fptr |-> next, counter |-> Read_word(h, 2)]
      <4>1. frame \in LoopType /\ frame.fptr = next
        BY <1>4, <1>8 DEF LoopType
      <4>2. loops' = Append(loops, frame)
        BY <2>4, <3>2 DEF PushLoop
      <4> HIDE DEF frame
      <4>3. /\ loops' \in Seq(LoopType) /\ Len(loops') = Len(loops) + 1
            /\ \A i \in 1 .. Len(loops) : loops'[i] = loops[i]
            /\ loops'[Len(loops) + 1] = frame
        BY <1>9, <4>1, <4>2, AppendProperties
      <4>4. Len(loops') <= LoopsSize
        BY <1>9, <3>2, <4>3, LoopsAssumption, LenProperties
      <4>5. \A i \in 1 .. Len(loops') : loops'[i].fptr <= size
        BY <1>4, <1>9, <4>1, <4>3, LenProperties
      <4> QED
        BY <1>4, <1>9, <2>4, <3>1, <4>3, <4>4, <4>5, FileMoves DEF size
    <3>3. CASE ~(Len(loops) < LoopsSize)
      <4>1. loops' = loops
        BY <2>4, <3>3 DEF PushLoop
      <4> QED
        BY <1>4, <1>9, <2>1, <2>4, <3>1, <4>1
    <3> QED
      BY <3>2, <3>3
  <2>5. CASE RepeatLoop(h, next) /\ UNCHANGED <<header, data_size>>
    <3>1. CASE loops = << >>
      <4>1. tape_file' = [tape_file EXCEPT !.fptr = next] /\ loops' = loops
        BY <2>5, <3>1 DEF RepeatLoop
      <4> QED
        BY <1>4, <1>9, <2>1, <2>5, <4>1
    <3>2. CASE loops # << >>
      <4> DEFINE top == loops[Len(loops)]
                 left == IF top.counter > 0 THEN top.counter - 1 ELSE 0
      <4>1. Len(loops) \in 1 .. Len(loops)
        BY <1>9, <3>2, EmptySeq
      <4>2. top \in LoopType /\ top.fptr <= size
        BY <1>9, <4>1, ElementOfSeq
      <4>3. top.fptr \in Nat /\ left \in Nat
        BY <4>2 DEF LoopType
      <4>4. CASE left > 0
        <5>1. /\ loops' = [loops EXCEPT ![Len(loops)].counter = left]
              /\ tape_file' = [tape_file EXCEPT !.fptr = top.fptr]
          BY <2>5, <3>2, <4>4 DEF RepeatLoop
        <5> HIDE DEF left
        <5> DEFINE frame == [top EXCEPT !.counter = left]
        <5>2. frame \in LoopType /\ frame.fptr = top.fptr
          BY <4>2, <4>3 DEF LoopType
        <5>3. loops' = [loops EXCEPT ![Len(loops)] = frame]
          BY <5>1
        <5> HIDE DEF frame
        <5>4. /\ loops' \in Seq(LoopType) /\ Len(loops') = Len(loops)
              /\ \A i \in 1 .. Len(loops) :
                   loops'[i] = IF i = Len(loops) THEN frame ELSE loops[i]
          BY <1>9, <4>1, <5>2, <5>3, ExceptSeq
        <5>5. \A i \in 1 .. Len(loops') : loops'[i].fptr <= size
          BY <1>9, <4>2, <5>2, <5>4
        <5> QED
          BY <1>9, <2>5, <4>2, <4>3, <5>1, <5>4, <5>5, FileMoves DEF size
      <4>5. CASE ~(left > 0)
        <5>1. /\ loops' = SubSeq(loops, 1, Len(loops) - 1)
              /\ tape_file' = [tape_file EXCEPT !.fptr = next]
          BY <2>5, <3>2, <4>5 DEF RepeatLoop
        <5> HIDE DEF left, top
        <5>2. Len(loops) - 1 \in 0 .. Len(loops)
          BY <4>1
        <5>3. /\ loops' \in Seq(LoopType) /\ Len(loops') = Len(loops) - 1
              /\ \A i \in 1 .. Len(loops) - 1 : loops'[i] = loops[i]
          BY <1>9, <5>1, <5>2, FrontOfSeq
        <5>4. \A i \in 1 .. Len(loops') : loops'[i].fptr <= size
          BY <1>9, <5>3
        <5>5. Len(loops') <= LoopsSize
          BY <1>9, <5>3, LoopsAssumption, LenProperties
        <5> QED
          BY <1>4, <1>9, <2>5, <5>1, <5>3, <5>4, <5>5, FileMoves DEF size
      <4> QED
        BY <4>4, <4>5
    <3> QED
      BY <3>1, <3>2
  <2> QED
    BY <1>10, <2>2, <2>3, <2>4, <2>5
<1> QED
  BY <1>11 DEF ReadBlock, ControlOK, FifoOK, DecoderOK, PulsesOK, Filling, decoderVars

-----------------------------------------------------------------------------
(* The decoder. *)

(* What gathering does: nothing while a block is played; otherwise it      *)
(* takes what the header lacks, and parses the header when it is complete. *)
Awaited ==
  IF tape_header = << >> /\ fifo # << >> THEN HeaderSizes(tzx, Value(fifo[1]))
  ELSE {tape_header_size}

Took(hs) == Lower(hs - Len(tape_header), Len(fifo))
Got(hs) == tape_header \o SubSeq(fifo, 1, Took(hs))
Rest(hs) == SubSeq(fifo, Took(hs) + 1, Len(fifo))

LEMMA GatheredCases ==
  ASSUME NEW d \in Gathered
  PROVE  \/ /\ ~Exhausted(current_block)
            /\ d = [block |-> current_block, header |-> tape_header, hs |-> tape_header_size,
                    bit |-> tape_bit, fifo |-> fifo, started |-> started,
                    finished |-> finished]
         \/ /\ Exhausted(current_block)
            /\ \E hs \in Awaited :
                 /\ hs # 0 /\ Len(Got(hs)) = hs
                 /\ d = [block |-> Parse(tzx, Got(hs)), header |-> << >>, hs |-> 0,
                         bit |-> 0, fifo |-> Rest(hs), started |-> started,
                         finished |-> finished]
         \/ /\ Exhausted(current_block)
            /\ \E hs \in Awaited :
                 /\ ~(hs # 0 /\ Len(Got(hs)) = hs)
                 /\ d = [block |-> current_block, header |-> Got(hs), hs |-> hs,
                         bit |-> tape_bit, fifo |-> Rest(hs),
                         started |-> started /\ ~finished, finished |-> FALSE]
<1> DEFINE same == [block |-> current_block, header |-> tape_header, hs |-> tape_header_size,
                    bit |-> tape_bit, fifo |-> fifo, started |-> started,
                    finished |-> finished]
<1>1. CASE ~Exhausted(current_block)
  BY <1>1 DEF Gathered
<1>2. CASE Exhausted(current_block)
  <2>1. PICK hs \in Awaited :
          d = IF hs # 0 /\ Len(Got(hs)) = hs
              THEN [same EXCEPT !.block = Parse(tzx, Got(hs)), !.header = << >>, !.hs = 0,
                                !.bit = 0, !.fifo = Rest(hs)]
              ELSE [same EXCEPT !.header = Got(hs), !.hs = hs, !.fifo = Rest(hs),
                                !.started = started /\ ~finished, !.finished = FALSE]
    BY <1>2 DEF Gathered, Awaited, Took, Got, Rest
  <2> DEFINE full == hs # 0 /\ Len(Got(hs)) = hs
             p == Parse(tzx, Got(hs))
             g == Got(hs)
             r == Rest(hs)
             on == started /\ ~finished
  <2>2. d = IF full
            THEN [same EXCEPT !.block = p, !.header = << >>, !.hs = 0, !.bit = 0, !.fifo = r]
            ELSE [same EXCEPT !.header = g, !.hs = hs, !.fifo = r, !.started = on,
                              !.finished = FALSE]
    BY <2>1
  <2> HIDE DEF full, p, g, r, on
  <2>3. full => d = [block |-> p, header |-> << >>, hs |-> 0, bit |-> 0, fifo |-> r,
                     started |-> started, finished |-> finished]
    BY <2>2
  <2>4. ~full => d = [block |-> current_block, header |-> g, hs |-> hs, bit |-> tape_bit,
                      fifo |-> r, started |-> on, finished |-> FALSE]
    BY <2>2
  <2> QED
    BY <1>2, <2>3, <2>4 DEF full, p, g, r, on
<1> QED
  BY <1>1, <1>2

(* What the decoder holds after it has gathered a header, or part of it.   *)
GatheredOK(d) ==
  /\ d.block \in BlockType /\ EvenSequence(d.block)
  /\ d.header \in Seq(FilePlace) /\ d.hs \in Byte /\ Len(d.header) <= d.hs
  /\ d.bit \in 0 .. 16
  /\ d.fifo \in Seq(FilePlace) /\ Len(d.fifo) <= Depth
  /\ d.started \in BOOLEAN /\ d.finished \in BOOLEAN

LEMMA GatheredType ==
  ASSUME IInv, NEW d \in Gathered
  PROVE  GatheredOK(d)
<1> USE DEF IInv
<1> DEFINE same == [block |-> current_block, header |-> tape_header, hs |-> tape_header_size,
                    bit |-> tape_bit, fifo |-> fifo, started |-> started,
                    finished |-> finished]
           sizes == IF tape_header = << >> /\ fifo # << >>
                    THEN HeaderSizes(tzx, Value(fifo[1]))
                    ELSE {tape_header_size}
           take(n) == Lower(n - Len(tape_header), Len(fifo))
           got(n) == tape_header \o SubSeq(fifo, 1, take(n))
           rest(n) == SubSeq(fifo, take(n) + 1, Len(fifo))
<1>1. CASE ~Exhausted(current_block)
  <2>1. d = same
    BY <1>1 DEF Gathered
  <2> QED
    BY <2>1 DEF GatheredOK, ControlOK, FifoOK, DecoderOK
<1>2. CASE Exhausted(current_block)
  <2>1. PICK hs \in sizes :
          d = IF hs # 0 /\ Len(got(hs)) = hs
              THEN [same EXCEPT !.block = Parse(tzx, got(hs)), !.header = << >>, !.hs = 0,
                                !.bit = 0, !.fifo = rest(hs)]
              ELSE [same EXCEPT !.header = got(hs), !.hs = hs, !.fifo = rest(hs),
                                !.started = started /\ ~finished, !.finished = FALSE]
    BY <1>2 DEF Gathered
  <2>2. /\ Len(tape_header) \in Nat /\ Len(fifo) \in Nat /\ Len(fifo) <= Depth
        /\ tape_header \in Seq(FilePlace) /\ fifo \in Seq(FilePlace)
    BY LenProperties DEF DecoderOK, FifoOK
  <2>3. hs \in 0 .. 255 /\ Len(tape_header) <= hs
    <3>1. CASE tape_header = << >> /\ fifo # << >>
      <4>1. hs \in HeaderSizes(tzx, Value(fifo[1]))
        BY <3>1
      <4>2. hs \in 1 .. 255
        BY <4>1, HeaderSizeType DEF ControlOK
      <4> QED
        BY <3>1, <4>2
    <3>2. CASE ~(tape_header = << >> /\ fifo # << >>)
      <4>1. hs = tape_header_size
        BY <3>2
      <4> QED
        BY <4>1 DEF DecoderOK, Byte
    <3> QED
      BY <3>1, <3>2
  <2> DEFINE n == take(hs)
             g == got(hs)
             r == rest(hs)
  <2>4. n \in 0 .. Len(fifo) /\ Len(tape_header) + n <= hs
    BY <2>2, <2>3 DEF Lower
  <2>5. /\ SubSeq(fifo, 1, n) \in Seq(FilePlace) /\ Len(SubSeq(fifo, 1, n)) = n
        /\ r \in Seq(FilePlace) /\ Len(r) = Len(fifo) - n
    <3> HIDE DEF n
    <3> QED
      BY <2>2, <2>4, FrontOfSeq, RestOfSeq DEF n
  <2>6. g \in Seq(FilePlace) /\ Len(g) = Len(tape_header) + n
    BY <2>2, <2>5, ConcatProperties
  <2>7. d = IF hs # 0 /\ Len(g) = hs
            THEN [same EXCEPT !.block = Parse(tzx, g), !.header = << >>, !.hs = 0,
                              !.bit = 0, !.fifo = r]
            ELSE [same EXCEPT !.header = g, !.hs = hs, !.fifo = r,
                              !.started = started /\ ~finished, !.finished = FALSE]
    BY <2>1
  <2> HIDE DEF n, g, r
  <2>8. Len(r) <= Depth
    BY <2>2, <2>4, <2>5, DepthAssumption
  <2>9. CASE hs # 0 /\ Len(g) = hs
    <3> DEFINE b == Parse(tzx, g)
    <3>1. b \in BlockType /\ EvenSequence(b)
      BY <2>3, <2>6, <2>9, ParseType DEF ControlOK
    <3>2. d = [block |-> b, header |-> << >>, hs |-> 0, bit |-> 0, fifo |-> r,
               started |-> started, finished |-> finished]
      BY <2>7, <2>9
    <3> HIDE DEF b
    <3> QED
      BY <2>5, <2>8, <3>1, <3>2 DEF GatheredOK, ControlOK, Byte
  <2>10. CASE ~(hs # 0 /\ Len(g) = hs)
    <3> DEFINE on == started /\ ~finished
    <3>1. d = [block |-> current_block, header |-> g, hs |-> hs, bit |-> tape_bit, fifo |-> r,
               started |-> on, finished |-> FALSE]
      BY <2>7, <2>10
    <3>2. on \in BOOLEAN
      OBVIOUS
    <3>3. Len(g) <= hs
      BY <2>4, <2>6
    <3> HIDE DEF on
    <3> QED
      BY <2>3, <2>5, <2>6, <2>8, <3>1, <3>2, <3>3 DEF GatheredOK, DecoderOK, Byte
  <2> QED
    BY <2>9, <2>10
<1> QED
  BY <1>1, <1>2

(* Playing a part of a block leaves a block.                               *)
LEMMA BlockCountsDown ==
  ASSUME NEW b \in BlockType, EvenSequence(b)
  PROVE  /\ b.pilot > 0 =>
              LET c == [b EXCEPT !.pilot = @ - 1] IN c \in BlockType /\ EvenSequence(c)
         /\ b.sync > 0 =>
              LET c == [b EXCEPT !.sync = @ - 1] IN c \in BlockType /\ EvenSequence(c)
         /\ b.pause > 0 =>
              LET c == [b EXCEPT !.pause = @ - 1] IN c \in BlockType /\ EvenSequence(c)
         /\ b.kind = BlockData /\ b.size > 0 =>
              LET c == [b EXCEPT !.size = @ - 1] IN c \in BlockType /\ EvenSequence(c)
         /\ b.kind = SequenceData /\ b.size > 0 =>
              LET c == [b EXCEPT !.size = @ - 2] IN c \in BlockType /\ EvenSequence(c)
         /\ b.kind = SkipData => \A n \in 0 .. b.size :
              LET c == [b EXCEPT !.size = @ - n] IN c \in BlockType /\ EvenSequence(c)
<1>1. /\ b.pilot \in Nat /\ b.sync \in 0 .. 2 /\ b.pause \in Nat /\ b.size \in Nat
      /\ SkipData # SequenceData /\ BlockData # SequenceData
  BY DEF BlockType, SkipData, SequenceData, BlockData
<1>2. b.pilot > 0 =>
        LET c == [b EXCEPT !.pilot = @ - 1] IN c \in BlockType /\ EvenSequence(c)
  BY <1>1 DEF BlockType, EvenSequence
<1>3. b.sync > 0 =>
        LET c == [b EXCEPT !.sync = @ - 1] IN c \in BlockType /\ EvenSequence(c)
  BY <1>1 DEF BlockType, EvenSequence
<1>4. b.pause > 0 =>
        LET c == [b EXCEPT !.pause = @ - 1] IN c \in BlockType /\ EvenSequence(c)
  BY <1>1 DEF BlockType, EvenSequence
<1>5. b.kind = BlockData /\ b.size > 0 =>
        LET c == [b EXCEPT !.size = @ - 1] IN c \in BlockType /\ EvenSequence(c)
  BY <1>1 DEF BlockType, EvenSequence
<1>6. ASSUME b.kind = SequenceData, b.size > 0
      PROVE  LET c == [b EXCEPT !.size = @ - 2] IN c \in BlockType /\ EvenSequence(c)
  <2>1. PICK k \in Nat : b.size = 2 * k
    BY <1>6 DEF EvenSequence
  <2>2. k - 1 \in Nat /\ b.size - 2 = 2 * (k - 1) /\ b.size - 2 \in Nat
    BY <1>1, <1>6, <2>1
  <2> QED
    BY <2>2 DEF BlockType, EvenSequence
<1>7. ASSUME b.kind = SkipData, NEW n \in 0 .. b.size
      PROVE  LET c == [b EXCEPT !.size = @ - n] IN c \in BlockType /\ EvenSequence(c)
  <2>1. b.size - n \in Nat
    BY <1>1
  <2> QED
    BY <1>1, <1>7, <2>1 DEF BlockType, EvenSequence
<1> QED
  BY <1>2, <1>3, <1>4, <1>5, <1>6, <1>7

LEMMA DecodingKeepsInvariant == IInv /\ FillBuffer => IInv'
<1> SUFFICES ASSUME IInv, FillBuffer
             PROVE  IInv'
  OBVIOUS
<1> USE DEF IInv
<1>1. PICK d \in Gathered :
        /\ \/ SendPilot(d) \/ SendSync(d) \/ SendHalfBit(d)
           \/ SendSequencePulse(d) \/ SendPause(d) \/ NothingToSend(d)
        /\ tape_header' = d.header /\ tape_header_size' = d.hs
        /\ started' = d.started /\ finished' = d.finished
  BY DEF FillBuffer
<1>2. GatheredOK(d)
  BY GatheredType
<1> DEFINE block == d.block
<1>3. /\ block \in BlockType /\ EvenSequence(block)
      /\ block.pilot \in Nat /\ block.sync \in 0 .. 2 /\ block.pause \in Nat
      /\ block.size \in Nat /\ block.origin \in TapeByte
      /\ d.bit \in 0 .. 16 /\ d.fifo \in Seq(FilePlace) /\ Len(d.fifo) <= Depth
      /\ Len(d.fifo) \in Nat
  BY <1>2, LenProperties DEF GatheredOK, BlockType, TapeByte
<1>4. FilePlace \subseteq TapeByte /\ tape_byte \in TapeByte
  BY DEF FilePlace, DecoderOK
<1>5. ASSUME NEW w \in Words, NEW b \in BlockType, EvenSequence(b), Send(d, w, b)
      PROVE  /\ current_block' = b /\ pc' = "play"
             /\ pulses' \in Seq(Words) /\ Len(pulses') <= PulseDepth
  <2>1. pulses \in Seq(Words) /\ Len(pulses) < PulseDepth /\ Len(pulses) \in Nat
    BY LenProperties DEF FillBuffer, PulsesOK
  <2>2. pulses' = Append(pulses, w)
    BY <1>5 DEF Send
  <2>3. pulses' \in Seq(Words) /\ Len(pulses') = Len(pulses) + 1
    BY <2>1, <2>2, AppendProperties
  <2> QED
    BY <1>5, <2>1, <2>3, DepthAssumption DEF Send
<1> DEFINE Kept ==
             /\ current_block' \in BlockType /\ EvenSequence(current_block')
             /\ pc' \in {"play", "task"}
             /\ pulses' \in Seq(Words) /\ Len(pulses') <= PulseDepth
             /\ tape_bit' \in 0 .. 16 /\ tape_byte' \in TapeByte
             /\ fifo' \in Seq(FilePlace) /\ Len(fifo') <= Depth
<1>6. ASSUME NEW kind \in WordKinds, NEW at \in TapeByte
      PROVE  Word(kind, at) \in Words
  BY DEF Word, Words
<1>7. ASSUME SendPilot(d)
      PROVE  Kept
  <2>1. Word("pilot", block.origin) \in Words
    BY <1>3, <1>6 DEF WordKinds
  <2> QED
    BY <1>3, <1>4, <1>5, <1>7, <2>1, BlockCountsDown DEF SendPilot
<1>8. ASSUME SendSync(d)
      PROVE  Kept
  <2>1. Word(IF block.sync >= 2 THEN "sync1" ELSE "sync2", block.origin) \in Words
    BY <1>3, <1>6 DEF WordKinds
  <2> QED
    BY <1>3, <1>4, <1>5, <1>8, <2>1, BlockCountsDown DEF SendSync
<1>9. ASSUME SendPause(d)
      PROVE  Kept
  <2>1. Word("pause", block.origin) \in Words
    BY <1>3, <1>6 DEF WordKinds
  <2> QED
    BY <1>3, <1>4, <1>5, <1>9, <2>1, BlockCountsDown DEF SendPause
<1>10. ASSUME SendHalfBit(d)
       PROVE  Kept
  <2> DEFINE fetch == d.bit = 0
             byte == IF fetch THEN Head(d.fifo) ELSE tape_byte
             left == (IF fetch THEN 16 ELSE d.bit) - 1
             cut == left # 0 /\ block.size = 1 /\ left = block.lastbit
             after == [block EXCEPT !.size = IF left = 0 \/ cut THEN @ - 1 ELSE @]
  <2>1. /\ block.size > 0 /\ block.kind = BlockData /\ (fetch => d.fifo # << >>)
        /\ Send(d, Word("data", byte), after)
        /\ tape_byte' = byte
        /\ tape_bit' = IF cut THEN 0 ELSE left
        /\ fifo' = IF fetch THEN Tail(d.fifo) ELSE d.fifo
    BY <1>10 DEF SendHalfBit, InData
  <2>2. fetch => Head(d.fifo) \in FilePlace /\ Tail(d.fifo) \in Seq(FilePlace)
                 /\ Len(Tail(d.fifo)) = Len(d.fifo) - 1
    BY <1>3, <2>1, HeadTailProperties
  <2>3. fifo' \in Seq(FilePlace) /\ Len(fifo') <= Depth
    BY <1>3, <2>1, <2>2, DepthAssumption
  <2>4. byte \in TapeByte /\ Word("data", byte) \in Words
    BY <1>4, <1>6, <2>1, <2>2 DEF WordKinds
  <2>5. left \in 0 .. 16
    BY <1>3
  <2>6. after \in BlockType /\ EvenSequence(after)
    <3>1. CASE left = 0 \/ cut
      <4>1. after = [block EXCEPT !.size = @ - 1]
        BY <3>1
      <4> QED
        BY <1>3, <2>1, <4>1, BlockCountsDown
    <3>2. CASE ~(left = 0 \/ cut)
      <4>1. after = block
        BY <1>3, <3>2 DEF BlockType
      <4> QED
        BY <1>3, <4>1
    <3> QED
      BY <3>1, <3>2
  <2> HIDE DEF after, byte, left, cut, fetch
  <2> QED
    BY <1>5, <2>1, <2>3, <2>4, <2>5, <2>6
<1>11. ASSUME SendSequencePulse(d)
       PROVE  Kept
  <2>1. /\ block.size > 0 /\ block.kind = SequenceData /\ Len(d.fifo) >= 2
        /\ Send(d, Word("sequence", Head(d.fifo)), [block EXCEPT !.size = @ - 2])
        /\ fifo' = SubSeq(d.fifo, 3, Len(d.fifo)) /\ tape_bit' = d.bit
        /\ UNCHANGED tape_byte
    BY <1>11 DEF SendSequencePulse, InData
  <2>2. Head(d.fifo) \in FilePlace
    BY <1>3, <2>1, EmptySeq, HeadTailProperties
  <2>3. fifo' \in Seq(FilePlace) /\ Len(fifo') <= Depth
    <3>1. 2 \in 0 .. Len(d.fifo) /\ 2 + 1 = 3
      BY <1>3, <2>1
    <3>2. SubSeq(d.fifo, 2 + 1, Len(d.fifo)) \in Seq(FilePlace)
          /\ Len(SubSeq(d.fifo, 2 + 1, Len(d.fifo))) = Len(d.fifo) - 2
      BY <1>3, <3>1, RestOfSeq
    <3> QED
      BY <1>3, <2>1, <3>1, <3>2, DepthAssumption
  <2>4. Word("sequence", Head(d.fifo)) \in Words
    BY <1>4, <1>6, <2>2 DEF WordKinds
  <2> QED
    BY <1>3, <1>4, <1>5, <2>1, <2>3, <2>4, BlockCountsDown
<1>12. ASSUME NothingToSend(d)
       PROVE  Kept
  <2> DEFINE n == IF InData(d, SkipData) THEN Lower(block.size, Len(d.fifo)) ELSE 0
  <2>1. /\ fifo' = SubSeq(d.fifo, n + 1, Len(d.fifo))
        /\ current_block' = [block EXCEPT !.size = @ - n]
        /\ tape_bit' = d.bit /\ pc' = "task" /\ UNCHANGED <<pulses, tape_byte>>
    BY <1>12 DEF NothingToSend
  <2>2. n \in 0 .. Len(d.fifo) /\ n \in 0 .. block.size
    BY <1>3 DEF Lower
  <2>3. current_block' \in BlockType /\ EvenSequence(current_block')
    <3>1. CASE InData(d, SkipData)
      BY <1>3, <2>1, <2>2, <3>1, BlockCountsDown DEF InData
    <3>2. CASE ~InData(d, SkipData)
      <4>1. n = 0
        BY <3>2
      <4>2. current_block' = block
        BY <1>3, <2>1, <4>1 DEF BlockType
      <4> QED
        BY <1>3, <4>2
    <3> QED
      BY <3>1, <3>2
  <2> HIDE DEF n
  <2>4. fifo' \in Seq(FilePlace) /\ Len(fifo') <= Depth
    BY <1>3, <2>1, <2>2, RestOfSeq, DepthAssumption
  <2>5. pulses' \in Seq(Words) /\ Len(pulses') <= PulseDepth
    BY <2>1 DEF PulsesOK
  <2> QED
    BY <1>3, <1>4, <2>1, <2>3, <2>4, <2>5
<1>13. Kept
  BY <1>1, <1>7, <1>8, <1>9, <1>10, <1>11, <1>12
<1>14. ControlOK'
  BY <1>1, <1>2, <1>13 DEF FillBuffer, GatheredOK, ControlOK, Places, readerVars
<1>15. ReaderOK'
  BY DEF FillBuffer, ReaderOK, readerVars, FileSize
<1>16. DecoderOK'
  BY <1>1, <1>2, <1>13 DEF GatheredOK, DecoderOK
<1> QED
  BY <1>13, <1>14, <1>15, <1>16 DEF FifoOK, PulsesOK

-----------------------------------------------------------------------------
(* The theorems. *)

LEMMA PollAndPlayKeepInvariant == IInv /\ (PollPulseFifo \/ PlayPulse) => IInv'
<1> SUFFICES ASSUME IInv, PollPulseFifo \/ PlayPulse
             PROVE  IInv'
  OBVIOUS
<1> USE DEF IInv
<1>1. CASE PollPulseFifo
  BY <1>1 DEF PollPulseFifo, ControlOK, ReaderOK, FifoOK, DecoderOK, PulsesOK, Places,
              readerVars, decoderVars, FileSize
<1>2. CASE PlayPulse
  <2>1. PulsesOK'
    <3>1. Tail(pulses) \in Seq(Words) /\ Len(Tail(pulses)) = Len(pulses) - 1
          /\ Len(pulses) \in Nat
      BY <1>2, HeadTailProperties, LenProperties DEF PlayPulse, PulsesOK
    <3> QED
      BY <1>2, <3>1, DepthAssumption DEF PlayPulse, PulsesOK
  <2> QED
    BY <1>2, <2>1 DEF PlayPulse, ControlOK, ReaderOK, FifoOK, DecoderOK,
                      readerVars, decoderVars, FileSize
<1> QED
  BY <1>1, <1>2

LEMMA StepKeepsInvariant == IInv /\ [Next]_vars => IInv'
<1> SUFFICES ASSUME IInv, [Next]_vars
             PROVE  IInv'
  OBVIOUS
<1>1. CASE Keys
  BY <1>1, KeysKeepInvariant
<1>2. CASE EnterRoutine
  BY <1>2, OpenKeepsInvariant
<1>3. CASE FillLoop
  BY <1>3, QueueKeepsInvariant, FailuresKeepInvariant, ReadBlockKeepsInvariant DEF FillLoop
<1>4. CASE PollPulseFifo \/ PlayPulse
  BY <1>4, PollAndPlayKeepInvariant
<1>5. CASE FillBuffer
  BY <1>5, DecodingKeepsInvariant
<1>6. CASE UNCHANGED vars
  BY <1>6 DEF vars, readerVars, decoderVars, IInv, ControlOK, ReaderOK, FifoOK, DecoderOK,
              PulsesOK, FileSize
<1> QED
  BY <1>1, <1>2, <1>3, <1>4, <1>5, <1>6 DEF Next, MainLoop

(* The invariant holds in every reachable state, whatever the files hold,  *)
(* whichever keys are pressed and whenever the card fails.                 *)
THEOREM Invariance == Spec => []IInv
  BY InvariantInitially, StepKeepsInvariant, PTL DEF Spec

(* zx_tape.c never leaves the range of a variable: the two FIFOs and the   *)
(* loop stack are never overfilled, the file pointer stays in the file, a  *)
(* byte counter never goes below zero (a pulse of a sequence takes two     *)
(* bytes at once), a header never grows longer than the code it waits for. *)
THEOREM TypeCorrect == Spec => []TypeOK
<1>1. FilePlace \subseteq TapeByte
  BY DEF FilePlace
<1>2. \A s \in Seq(FilePlace) : s \in Seq(TapeByte)
  BY <1>1
<1>3. IInv => TypeOK
  BY <1>2 DEF IInv, ControlOK, ReaderOK, FifoOK, DecoderOK, PulsesOK, TypeOK, Words
<1> QED
  BY <1>3, Invariance, PTL

(* The main loop never writes a word to a full pulse FIFO.                 *)
THEOREM NoOverrun == Spec => []PulseFifoNeverOverrun
<1>1. IInv => PulseFifoNeverOverrun
  BY DEF IInv, PulsesOK, PulseFifoNeverOverrun
<1> QED
  BY <1>1, Invariance, PTL

-----------------------------------------------------------------------------
(* The pulse FIFO of the model is the queue that TapeLogic implements:     *)
(* room has been seen while the decoder makes the next word.               *)
Sending == INSTANCE PulseQueue WITH Depth <- PulseDepth, room <- pc = "decode"

LEMMA AppendedWord ==
  ASSUME NEW s \in Seq(Words), NEW word, Append(s, word) \in Seq(Words)
  PROVE  word \in Words
<1>1. Len(s) \in Nat /\ Append(s, word)[Len(s) + 1] = word /\ Len(Append(s, word)) = Len(s) + 1
  OBVIOUS
<1>2. \A i \in 1 .. Len(Append(s, word)) : Append(s, word)[i] \in Words
  BY ElementOfSeq
<1>3. Len(s) + 1 \in 1 .. Len(Append(s, word))
  BY <1>1
<1> QED
  BY <1>1, <1>2, <1>3

LEMMA DecodingSends ==
  ASSUME IInv, IInv', FillBuffer
  PROVE  Sending!Next
<1>1. PICK d \in Gathered :
        SendPilot(d) \/ SendSync(d) \/ SendHalfBit(d) \/ SendSequencePulse(d) \/ SendPause(d)
        \/ NothingToSend(d)
  BY DEF FillBuffer
<1>2. pc = "decode"
  BY DEF FillBuffer
<1>3. CASE NothingToSend(d)
  BY <1>2, <1>3 DEF NothingToSend, Sending!Next, Sending!GiveUp
<1>4. CASE ~NothingToSend(d)
  <2>1. PICK word, block : Send(d, word, block)
    BY <1>1, <1>4, Zenon DEF SendPilot, SendSync, SendHalfBit, SendSequencePulse, SendPause
  <2>2. pulses' = Append(pulses, word) /\ pc' = "play"
    BY <2>1 DEF Send
  <2>3. word \in Words
    BY <2>2, AppendedWord DEF IInv, PulsesOK
  <2>4. Sending!Send(word)
    BY <1>2, <2>2 DEF Sending!Send
  <2> QED
    BY <2>3, <2>4 DEF Sending!Next
<1> QED
  BY <1>3, <1>4

(* What zx_tape.c does to the pulse FIFO is what that queue allows: a word *)
(* is sent only after a look that found room, one for each look, whatever  *)
(* the keys, the card and the logic do in between.                         *)
THEOREM SendsIntoQueue == Spec => Sending!Spec
<1>1. Init => Sending!Init
  BY DEF Init, Sending!Init
<1>2. IInv /\ IInv' /\ [Next]_vars => [Sending!Next]_(Sending!vars)
  <2> SUFFICES ASSUME IInv, IInv', [Next]_vars PROVE [Sending!Next]_(Sending!vars)
    OBVIOUS
  <2>1. CASE Keys \/ EnterRoutine
    BY <2>1 DEF Keys, zx_tape_select_file, zx_tape_start, zx_tape_stop, EnterRoutine, Sending!vars
  <2>2. CASE FillLoop
    BY <2>2 DEF FillLoop, FillEnds, QueueHeaderByte, QueueDataByte, DataByteFails, NoMoreBlocks, ReadBlock,
       Filling, Sending!vars
  <2>3. CASE PollPulseFifo
    BY <2>3 DEF PollPulseFifo, Sending!Next, Sending!Look, Sending!vars
  <2>4. CASE FillBuffer
    BY <2>4, DecodingSends
  <2>5. CASE PlayPulse
    BY <2>5 DEF PlayPulse, Sending!Next, Sending!Take
  <2>6. CASE UNCHANGED vars
    BY <2>6 DEF vars, Sending!vars
  <2> QED
    BY <2>1, <2>2, <2>3, <2>4, <2>5, <2>6 DEF Next, MainLoop
<1> QED
  BY Invariance, <1>1, <1>2, PTL DEF Spec, Sending!Spec

-----------------------------------------------------------------------------
(* The words on the line, for a card with .tap files (TapeLine): what is   *)
(* left of the block being played follows on from the last word sent.      *)

(* What is left of a block is its end: pulses, then data, then pause.      *)
BlockRuns(b, bit) ==
  /\ b.kind = BlockData /\ b.lastbit = 0
  /\ b.pilot \in 0 .. PilotPulses /\ b.pause \in 0 .. TapPause
  /\ b.pilot > 0 => b.sync = 2
  /\ b.sync > 0 \/ b.size > 0 => b.pause = TapPause
  /\ bit \in 0 .. 15
  /\ bit # 0 => b.pilot = 0 /\ b.sync = 0 /\ b.size > 0

(* The last word is the one before that end.                               *)
LineAgrees(b, bit) ==
  /\ b.pilot > 0 =>
       \/ b.pilot = PilotPulses /\ line.word.kind = "pause" /\ line.count = TapPause
       \/ /\ b.pilot < PilotPulses /\ line.word = Word("pilot", b.origin)
          /\ line.count = PilotPulses - b.pilot
  /\ b.pilot = 0 /\ b.sync = 2 => line.word.kind = "pilot" /\ line.count = PilotPulses
  /\ b.pilot = 0 /\ b.sync = 1 => line.word.kind = "sync1"
  /\ b.pilot = 0 /\ b.sync = 0 /\ b.pause = TapPause =>
       \/ line.word.kind = "sync2" /\ bit = 0
       \/ /\ line.word.kind = "data"
          /\ line.count = IF bit = 0 THEN 0 ELSE 16 - bit
          /\ bit # 0 => line.word.at = tape_byte
  /\ b.pilot = 0 /\ b.sync = 0 /\ b.pause < TapPause =>
       /\ line.word.kind = "pause" /\ line.count = TapPause - b.pause
       /\ b.pause > 0 => line.word = Word("pause", b.origin)

LineInv ==
  /\ tzx = FALSE
  /\ BlockRuns(current_block, tape_bit)
  /\ LineAgrees(current_block, tape_bit)

LEMMA LineInitially ==
  ASSUME OnlyTaps, LineInit
  PROVE  LineInv
<1>1. /\ tzx = FALSE /\ current_block = NoBlock /\ tape_bit = 0
      /\ line.word.kind = "pause" /\ line.count = TapPause
  BY DEF LineInit, Init, Silence, Word
<1>2. PilotPulses \in Nat /\ PilotPulses > 0 /\ TapPause \in Nat /\ TapPause > 0
  BY PulseAssumption DEF OnlyTaps
<1> QED
  BY <1>1, <1>2 DEF LineInv, BlockRuns, LineAgrees, NoBlock

(* A new block is gathered only when the last one is played to its end.    *)
LEMMA GatheredAgrees ==
  ASSUME OnlyTaps, LineInv, NEW d \in Gathered
  PROVE  BlockRuns(d.block, d.bit) /\ LineAgrees(d.block, d.bit)
<1>1. CASE d.block = current_block /\ d.bit = tape_bit
  BY <1>1 DEF LineInv
<1>2. CASE ~(d.block = current_block /\ d.bit = tape_bit)
  <2>1. PICK h : Exhausted(current_block) /\ d.block = Parse(tzx, h) /\ d.bit = 0
    BY <1>2, GatheredCases
  <2>3. d.block = Block(h, BlockData, PilotPulses, 2, TapPause, Read_word(h, 1), 0)
    BY <2>1 DEF LineInv, Parse
  <2>4. /\ d.block.kind = BlockData /\ d.block.lastbit = 0 /\ d.block.pilot = PilotPulses
        /\ d.block.sync = 2 /\ d.block.pause = TapPause
    BY <2>3 DEF Block
  <2>5. PilotPulses \in Nat /\ PilotPulses > 0 /\ TapPause \in Nat /\ TapPause > 0
    BY PulseAssumption DEF OnlyTaps
  <2>6. line.word.kind = "pause" /\ line.count = TapPause
    BY <2>1, <2>5 DEF LineInv, LineAgrees, BlockRuns, Exhausted
  <2> QED
    BY <2>1, <2>4, <2>5, <2>6 DEF BlockRuns, LineAgrees
<1> QED
  BY <1>1, <1>2

LEMMA WordSent ==
  ASSUME IInv, Recorded, NEW w, pulses' = Append(pulses, w)
  PROVE  /\ Sends /\ Last(pulses') = w
         /\ line'.word = w
         /\ w.kind # "data" => line'.count = IF SameRow(w) THEN line.count + 1 ELSE 1
         /\ w.kind = "data" => line'.count = (IF SameRow(w) THEN line.count + 1 ELSE 1) % 16
<1>1. pulses \in Seq(Words)
  BY DEF IInv, PulsesOK
<1>2. Len(pulses) \in Nat /\ Len(pulses') = Len(pulses) + 1 /\ pulses'[Len(pulses) + 1] = w
  BY <1>1
<1>3. Sends /\ Last(pulses') = w
  BY <1>2 DEF Sends, Last
<1>4. line' = [word |-> w, count |-> IF w.kind = "data"
                                     THEN (IF SameRow(w) THEN line.count + 1 ELSE 1) % 16
                                     ELSE IF SameRow(w) THEN line.count + 1 ELSE 1]
  BY <1>3, Zenon DEF Recorded
<1> QED
  BY <1>3, <1>4

LEMMA NothingSent ==
  ASSUME IInv, Recorded, pulses' = pulses \/ (pulses # << >> /\ pulses' = Tail(pulses))
  PROVE  ~Sends /\ line' = line
<1>1. pulses \in Seq(Words) /\ Len(pulses) \in Nat
  BY LenProperties DEF IInv, PulsesOK
<1>2. ~Sends
  BY <1>1 DEF Sends
<1> QED
  BY <1>2 DEF Recorded

LEMMA WhatMayFollow ==
  ASSUME NEW w
  PROVE  /\ w.kind = "pilot" =>
              (MayFollow(w) <=> \/ SameRow(w) /\ line.count < PilotPulses
                                \/ line.word.kind = "pause" /\ line.count = TapPause)
         /\ w.kind = "sync1" =>
              (MayFollow(w) <=> line.word.kind = "pilot" /\ line.count = PilotPulses)
         /\ w.kind = "sync2" => (MayFollow(w) <=> line.word.kind = "sync1")
         /\ w.kind = "data" =>
              (MayFollow(w) <=> \/ line.word.kind = "sync2"
                                \/ /\ line.word.kind = "data"
                                   /\ w.at # line.word.at => line.count = 0)
         /\ w.kind = "pause" =>
              (MayFollow(w) <=> \/ SameRow(w) /\ line.count < TapPause
                                \/ line.word.kind = "sync2"
                                \/ line.word.kind = "data" /\ line.count = 0)
<1>1. CASE w.kind = "pilot"
  BY <1>1 DEF MayFollow, SameRow
<1>2. CASE w.kind = "sync1"
  BY <1>2 DEF MayFollow
<1>3. CASE w.kind = "sync2"
  BY <1>3 DEF MayFollow
<1>4. CASE w.kind = "data"
  BY <1>4 DEF MayFollow
<1>5. CASE w.kind = "pause"
  BY <1>5 DEF MayFollow, SameRow
<1> QED
  BY <1>1, <1>2, <1>3, <1>4, <1>5

LEMMA DecodingAgrees ==
  ASSUME OnlyTaps, IInv, LineInv, Recorded, FillBuffer
  PROVE  LineInv' /\ (Sends => MayFollow(Last(pulses')))
<1>1. PICK d \in Gathered : SendPilot(d) \/ SendSync(d) \/ SendHalfBit(d)
                            \/ SendSequencePulse(d) \/ SendPause(d) \/ NothingToSend(d)
  BY DEF FillBuffer
<1> DEFINE b == d.block
           c == current_block'
           w == Last(pulses')
<1>2. b \in BlockType /\ GatheredOK(d)
  BY GatheredType DEF GatheredOK
<1>3. /\ b.pilot \in Nat /\ b.sync \in 0 .. 2 /\ b.pause \in Nat /\ b.size \in Nat
      /\ d.bit \in 0 .. 15
      /\ PilotPulses \in Nat /\ PilotPulses > 0 /\ TapPause \in Nat /\ TapPause > 0
  BY <1>2, GatheredAgrees, PulseAssumption DEF BlockType, BlockRuns, OnlyTaps
<1>4. BlockRuns(b, d.bit) /\ LineAgrees(b, d.bit)
  BY GatheredAgrees
<1>5. tzx' = FALSE
  BY DEF FillBuffer, readerVars, LineInv
<1>6. ASSUME NEW word, NEW left, Send(d, word, left)
      PROVE  /\ c = left /\ w = word /\ line'.word = word
             /\ word.kind # "data" => line'.count = IF SameRow(word) THEN line.count + 1 ELSE 1
             /\ word.kind = "data" => line'.count = (IF SameRow(word) THEN line.count + 1 ELSE 1) % 16
  BY <1>6, WordSent DEF Send
<1>7. CASE SendPilot(d)
  <2> DEFINE word == Word("pilot", b.origin)
  <2>1. /\ b.pilot > 0 /\ tape_bit' = d.bit /\ tape_byte' = tape_byte
        /\ Send(d, word, [b EXCEPT !.pilot = @ - 1])
    BY <1>7 DEF SendPilot
  <2>2. /\ c = [b EXCEPT !.pilot = @ - 1] /\ w = word /\ line'.word = word
        /\ line'.count = IF SameRow(word) THEN line.count + 1 ELSE 1
    BY <1>6, <2>1 DEF Word
  <2>3. /\ c.pilot = b.pilot - 1 /\ c.sync = b.sync /\ c.pause = b.pause /\ c.size = b.size
        /\ c.kind = b.kind /\ c.lastbit = b.lastbit /\ c.origin = b.origin
    BY <1>2, <2>2 DEF BlockType
  <2>4. word.kind = "pilot" /\ word.at = b.origin
    BY DEF Word
  <2>5. line'.count = PilotPulses - c.pilot /\ MayFollow(w)
    <3>1. MayFollow(word) <=> \/ SameRow(word) /\ line.count < PilotPulses
                              \/ line.word.kind = "pause" /\ line.count = TapPause
      BY <2>4, WhatMayFollow, Zenon
    <3>2. SameRow(word) <=> line.word.kind = "pilot" /\ line.word.at = b.origin
      BY <2>4 DEF SameRow
    <3>3. \/ b.pilot = PilotPulses /\ line.word.kind = "pause" /\ line.count = TapPause
          \/ /\ b.pilot < PilotPulses /\ line.word = word
             /\ line.count = PilotPulses - b.pilot
      BY <1>4, <2>1 DEF LineAgrees
    <3> HIDE DEF word, w
    <3> QED
      BY <1>3, <2>1, <2>2, <2>3, <2>4, <3>1, <3>2, <3>3
  <2>6. BlockRuns(c, tape_bit')
    BY <1>3, <1>4, <2>1, <2>3 DEF BlockRuns
  <2>7. LineAgrees(current_block, tape_bit)'
    <3>1. line'.word.kind = "pilot" /\ line'.word = Word("pilot", c.origin)
      BY <2>2, <2>3, <2>4
    <3>2. b.sync = 2
      BY <1>4, <2>1 DEF BlockRuns
    <3> HIDE DEF w, word
    <3> QED
      BY <1>3, <1>4, <2>1, <2>3, <2>5, <3>1, <3>2 DEF LineAgrees, BlockRuns
  <2> QED
    BY <1>5, <2>5, <2>6, <2>7 DEF LineInv
<1>8. CASE SendSync(d)
  <2> DEFINE word == Word(IF b.sync >= 2 THEN "sync1" ELSE "sync2", b.origin)
  <2>1. /\ b.pilot = 0 /\ b.sync > 0 /\ tape_bit' = d.bit /\ tape_byte' = tape_byte
        /\ Send(d, word, [b EXCEPT !.sync = @ - 1])
    BY <1>8 DEF SendSync
  <2>2. word.kind = IF b.sync = 2 THEN "sync1" ELSE "sync2"
    BY <1>3 DEF Word
  <2>3. c = [b EXCEPT !.sync = @ - 1] /\ w = word /\ line'.word = word
    BY <1>6, <2>1
  <2>4. /\ c.sync = b.sync - 1 /\ c.pilot = b.pilot /\ c.pause = b.pause /\ c.size = b.size
        /\ c.kind = b.kind /\ c.lastbit = b.lastbit
    BY <1>2, <2>3 DEF BlockType
  <2>5. MayFollow(w)
    BY <1>3, <1>4, <2>1, <2>2, <2>3, WhatMayFollow DEF LineAgrees
  <2>6. BlockRuns(c, tape_bit')
    BY <1>3, <1>4, <2>1, <2>4 DEF BlockRuns
  <2>7. LineAgrees(current_block, tape_bit)'
    BY <1>3, <1>4, <2>1, <2>2, <2>3, <2>4 DEF LineAgrees, BlockRuns
  <2> QED
    BY <1>5, <2>5, <2>6, <2>7 DEF LineInv
<1>9. CASE SendHalfBit(d)
  <2> DEFINE fetch == d.bit = 0
             byte == IF fetch THEN Head(d.fifo) ELSE tape_byte
             left == (IF fetch THEN 16 ELSE d.bit) - 1
             cut == left # 0 /\ b.size = 1 /\ left = b.lastbit
             word == Word("data", byte)
             after == [b EXCEPT !.size = IF left = 0 \/ cut THEN @ - 1 ELSE @]
  <2>1. /\ b.pilot = 0 /\ b.sync = 0 /\ b.size > 0
        /\ Send(d, word, after)
        /\ tape_byte' = byte
        /\ tape_bit' = IF cut THEN 0 ELSE left
    BY <1>9 DEF SendHalfBit, InData
  <2>2. word.kind = "data" /\ word.at = byte
    BY DEF Word
  <2>3. c = after /\ w = word /\ line'.word = word
        /\ line'.count = (IF SameRow(word) THEN line.count + 1 ELSE 1) % 16
    BY <1>6, <2>1, <2>2
  <2>4. ~cut /\ left \in 0 .. 15 /\ tape_bit' = left
    BY <1>3, <1>4, <2>1 DEF BlockRuns
  <2>5. /\ c.sync = 0 /\ c.pilot = 0 /\ c.pause = b.pause
        /\ c.size = (IF left = 0 THEN b.size - 1 ELSE b.size)
        /\ c.kind = b.kind /\ c.lastbit = b.lastbit
    BY <1>2, <2>1, <2>3, <2>4 DEF BlockType
  <2>6. b.pause = TapPause
    BY <1>4, <2>1 DEF BlockRuns
  <2>7. \/ line.word.kind = "sync2" /\ d.bit = 0
        \/ /\ line.word.kind = "data"
           /\ line.count = IF d.bit = 0 THEN 0 ELSE 16 - d.bit
           /\ d.bit # 0 => line.word.at = tape_byte
    BY <1>4, <2>1, <2>6 DEF LineAgrees
  <2>8. SameRow(word) <=> line.word.kind = "data"
    BY <2>2 DEF SameRow
  <2>9. MayFollow(w)
    BY <2>2, <2>3, <2>7, WhatMayFollow
  <2>10. line'.count = IF left = 0 THEN 0 ELSE 16 - left
    <3> DEFINE n == IF SameRow(word) THEN line.count + 1 ELSE 1
    <3>1. n = 16 - left
      BY <1>3, <2>7, <2>8
    <3> HIDE DEF n, left, word
    <3>2. line'.count = n % 16
      BY <2>3 DEF n
    <3> QED
      BY <2>4, <3>1, <3>2
  <2> HIDE DEF left, cut, after, word, byte
  <2>11. BlockRuns(c, tape_bit')
    BY <1>3, <1>4, <2>1, <2>4, <2>5, <2>6 DEF BlockRuns
  <2>12. LineAgrees(current_block, tape_bit)'
    BY <1>3, <2>1, <2>2, <2>3, <2>4, <2>5, <2>6, <2>10 DEF LineAgrees
  <2> QED
    BY <1>5, <2>9, <2>11, <2>12 DEF LineInv
<1>10. CASE SendPause(d)
  <2> DEFINE word == Word("pause", b.origin)
  <2>1. /\ b.pilot = 0 /\ b.sync = 0 /\ b.size = 0 /\ b.pause > 0
        /\ tape_bit' = d.bit /\ tape_byte' = tape_byte
        /\ Send(d, word, [b EXCEPT !.pause = @ - 1])
    BY <1>10 DEF SendPause
  <2>2. word.kind = "pause" /\ word.at = b.origin
    BY DEF Word
  <2>3. /\ c = [b EXCEPT !.pause = @ - 1] /\ w = word /\ line'.word = word
        /\ line'.count = IF SameRow(word) THEN line.count + 1 ELSE 1
    BY <1>6, <2>1, <2>2
  <2>4. /\ c.pause = b.pause - 1 /\ c.pilot = b.pilot /\ c.sync = b.sync /\ c.size = b.size
        /\ c.kind = b.kind /\ c.lastbit = b.lastbit /\ c.origin = b.origin
    BY <1>2, <2>3 DEF BlockType
  <2>5. d.bit = 0
    BY <1>4, <2>1 DEF BlockRuns
  <2>6. line'.count = TapPause - c.pause /\ MayFollow(w)
    <3>1. MayFollow(word) <=> \/ SameRow(word) /\ line.count < TapPause
                              \/ line.word.kind = "sync2"
                              \/ line.word.kind = "data" /\ line.count = 0
      BY <2>2, WhatMayFollow, Zenon
    <3>2. SameRow(word) <=> line.word.kind = "pause" /\ line.word.at = b.origin
      BY <2>2 DEF SameRow
    <3>3. b.pause = TapPause =>
            line.word.kind = "sync2" \/ (line.word.kind = "data" /\ line.count = 0)
      BY <1>4, <2>1, <2>5 DEF LineAgrees
    <3>4. b.pause < TapPause => line.word = word /\ line.count = TapPause - b.pause
      BY <1>4, <2>1 DEF LineAgrees
    <3>5. b.pause <= TapPause
      BY <1>3, <1>4 DEF BlockRuns
    <3> HIDE DEF word, w
    <3> QED
      BY <1>3, <2>1, <2>2, <2>3, <2>4, <3>1, <3>2, <3>3, <3>4, <3>5
  <2>7. BlockRuns(c, tape_bit')
    BY <1>3, <1>4, <2>1, <2>4, <2>5 DEF BlockRuns
  <2>8. LineAgrees(current_block, tape_bit)'
    BY <1>3, <1>4, <2>1, <2>2, <2>3, <2>4, <2>5, <2>6 DEF LineAgrees, BlockRuns
  <2> QED
    BY <1>5, <2>6, <2>7, <2>8 DEF LineInv
<1>11. CASE SendSequencePulse(d)
  BY <1>4, <1>11 DEF SendSequencePulse, InData, BlockRuns, BlockData, SequenceData
<1>12. CASE NothingToSend(d)
  <2>1. ~InData(d, SkipData)
    BY <1>4 DEF InData, BlockRuns, BlockData, SkipData
  <2>2. c = [b EXCEPT !.size = @ - 0] /\ tape_bit' = d.bit /\ tape_byte' = tape_byte
        /\ pulses' = pulses
    BY <1>12, <2>1 DEF NothingToSend
  <2>3. c = b
    BY <1>2, <2>2 DEF BlockType
  <2>4. ~Sends /\ line' = line
    BY <2>2, NothingSent
  <2>5. BlockRuns(current_block, tape_bit)' /\ LineAgrees(current_block, tape_bit)'
    BY <1>4, <2>2, <2>3, <2>4 DEF BlockRuns, LineAgrees
  <2> QED
    BY <1>5, <2>4, <2>5 DEF LineInv
<1> QED
  BY <1>1, <1>7, <1>8, <1>9, <1>10, <1>11, <1>12

(* Nothing else sends a word or touches the block being played.            *)
LEMMA OthersAgree ==
  ASSUME OnlyTaps, IInv, LineInv, Recorded, [Next]_vars, ~FillBuffer
  PROVE  LineInv' /\ ~Sends
<1>1. /\ UNCHANGED decoderVars
      /\ pulses' = pulses \/ (pulses # << >> /\ pulses' = Tail(pulses))
  BY DEF Next, vars, Keys, zx_tape_select_file, zx_tape_start, zx_tape_stop, MainLoop, EnterRoutine,
         FillLoop, FillEnds, QueueHeaderByte, QueueDataByte, DataByteFails, NoMoreBlocks, ReadBlock,
         PollPulseFifo, PlayPulse
<1>2. tzx' = FALSE
  <2>1. CASE EnterRoutine
    <3>1. ASSUME OpenFile PROVE tzx' = FALSE
      <4>1. path \in Files
        BY <3>1 DEF OpenFile, IInv, ControlOK
      <4> QED
        BY <3>1, <4>1 DEF OpenFile, OnlyTaps
    <3> QED
      BY <2>1, <3>1 DEF EnterRoutine, OpenFails, readerVars, LineInv
  <2>2. CASE ~EnterRoutine
    BY <2>2 DEF Next, vars, Keys, zx_tape_select_file, zx_tape_start, zx_tape_stop, MainLoop,
           FillLoop, FillEnds, QueueHeaderByte, QueueDataByte, DataByteFails, NoMoreBlocks, ReadBlock,
           PollPulseFifo, PlayPulse, readerVars, LineInv
  <2> QED
    BY <2>1, <2>2
<1>3. ~Sends /\ line' = line
  BY <1>1, NothingSent
<1>4. current_block' = current_block /\ tape_bit' = tape_bit /\ tape_byte' = tape_byte
  BY <1>1 DEF decoderVars
<1> QED
  BY <1>2, <1>3, <1>4 DEF LineInv, BlockRuns, LineAgrees

(* Whatever the .tap files hold, the user presses and the card does, the   *)
(* words of zx_tape_fill_buffer are whole blocks: pilot tone, sync pulses, *)
(* whole bytes and pause, none of them cut or mixed with another block's.  *)
THEOREM LineCarriesWholeBlocks ==
  ASSUME OnlyTaps
  PROVE  LineSpec => WholeBlocks
<1>1. LineInit => IInv /\ LineInv
  BY InvariantInitially, LineInitially DEF LineInit
<1>2. ASSUME IInv, LineInv, [LineNext]_lineVars
      PROVE  IInv' /\ LineInv' /\ [Sends => MayFollow(Last(pulses'))]_lineVars
  <2>1. [Next]_vars
    BY <1>2 DEF LineNext, lineVars
  <2>2. IInv'
    BY <1>2, <2>1, StepKeepsInvariant
  <2>3. CASE UNCHANGED lineVars
    BY <1>2, <2>2, <2>3 DEF lineVars, vars, readerVars, decoderVars, LineInv, BlockRuns, LineAgrees
  <2>4. CASE LineNext
    <3>1. Recorded
      BY <2>4 DEF LineNext
    <3> QED
      BY <1>2, <2>1, <2>2, <3>1, DecodingAgrees, OthersAgree
  <2> QED
    BY <1>2, <2>3, <2>4
<1> QED
  BY <1>1, <1>2, PTL DEF LineSpec, WholeBlocks

-----------------------------------------------------------------------------
(* Reader and decoder on tapes that keep to their format (TapeLayout).     *)

(* A block is known by the place of its header.                            *)
LEMMA ParseOrigin ==
  ASSUME NEW isTzx, NEW h
  PROVE  Parse(isTzx, h).origin = h[1]
  BY SMT DEF Parse, Block, Skip

(* What a well-formed file is where a block starts.                        *)
LEMMA Layout ==
  ASSUME NEW f \in Files, WellFormed(f), NEW s \in Starts[f], s < FileSize(f)
  PROVE  /\ s \in Nat /\ HeaderLength(f, s) \in 1 .. 255
         /\ HeaderSizes(HasTzxSignature(f), Value(ByteAt(f, s))) = {HeaderLength(f, s)}
         /\ HasTzxSignature(f) => KnownCode(Value(ByteAt(f, s)))
         /\ BlockAt(f, s).size \in Nat
         /\ BlockEnd(f, s) \in Starts[f] /\ BlockEnd(f, s) <= FileSize(f)
         /\ BlockEnd(f, s) \in Nat
         /\ s + HeaderLength(f, s) <= FileSize(f)
         /\ BlockEnd(f, s) = s + HeaderLength(f, s) + BlockAt(f, s).size
         /\ \A q \in Starts[f] : q <= s \/ q >= BlockEnd(f, s)
         /\ BlockEnd(f, s) = FileSize(f) /\ Playable(BlockAt(f, s)) => BlockAt(f, s).size > 0
<1> DEFINE code == Value(ByteAt(f, s))
           isTzx == HasTzxSignature(f)
           n == HeaderLength(f, s)
<1>1. s \in Nat /\ isTzx \in BOOLEAN /\ \A p \in Starts[f] : p \in Nat
  BY StartsAssumption DEF HasTzxSignature
<1>2. /\ isTzx => KnownCode(code)
      /\ BlockEnd(f, s) \in Starts[f]
      /\ \A q \in Starts[f] : q <= s \/ q >= BlockEnd(f, s)
      /\ BlockEnd(f, s) = FileSize(f) /\ Playable(BlockAt(f, s)) => BlockAt(f, s).size > 0
      /\ \A p \in Starts[f] : p <= FileSize(f)
      /\ s + n <= FileSize(f)
  BY DEF WellFormed
<1>3. PICK m : HeaderSizes(isTzx, code) = {m}
  BY <1>2 DEF HeaderSizes, KnownCode
<1>4. n = m
  BY <1>3 DEF HeaderLength
<1>5. n \in 1 .. 255
  <2>1. n \in HeaderSizes(isTzx, code)
    BY <1>3, <1>4
  <2> HIDE DEF code, isTzx, n
  <2> QED
    BY <1>1, <2>1, HeaderSizeType
<1>6. BlockAt(f, s).size \in Nat
  <2> DEFINE byte(i) == ByteAt(f, s + i - 1)
             h == [i \in 1 .. n |-> byte(i)]
  <2>1. FileSize(f) \in Nat
    BY SizesAreNat
  <2>2. \A i \in 1 .. n : byte(i) \in FilePlace
    BY <1>1, <1>2, <1>5, <2>1, PlaceInFile
  <2>3. BlockAt(f, s) = Parse(isTzx, h)
    BY DEF BlockAt, HeaderBytes
  <2> HIDE DEF n, byte, isTzx
  <2>4. h \in Seq(FilePlace) /\ Len(h) = n
    BY <1>5, <2>2, IsASeq
  <2> HIDE DEF h
  <2>5. Parse(isTzx, h) \in BlockType
    BY <1>1, <1>5, <2>4, ParseType
  <2> QED
    BY <2>3, <2>5 DEF BlockType
<1> QED
  BY <1>1, <1>2, <1>3, <1>4, <1>5, <1>6 DEF BlockEnd

(* The reader: at the start of a block, or copying one into the FIFO.      *)
NextAt == tape_file.fptr - Len(header)
Copying == header # << >> \/ data_size > 0

Copies(s) ==
  /\ s < FileSize(path) /\ Playable(BlockAt(path, s))
  /\ s <= NextAt /\ tape_file.fptr + data_size = BlockEnd(path, s)
  /\ header # << >> => tape_file.fptr = s + HeaderLength(path, s)

ReaderPlace ==
  /\ tape_file.err = FALSE
  /\ tape_file.name = NoFile =>
       ~Copying /\ fifo = << >> /\ tape_header = << >> /\ Exhausted(current_block)
  /\ tape_file.name # NoFile =>
       /\ tape_file.name = path /\ tzx = HasTzxSignature(path)
       /\ \A i \in 1 .. Len(loops) : loops[i].fptr \in Starts[path]
       /\ IF Copying THEN \E s \in Starts[path] : Copies(s) ELSE tape_file.fptr \in Starts[path]
  /\ \A i \in 1 .. Len(header) : header[i] = ByteAt(path, NextAt + i - 1)

(* The bytes of the FIFO q follow on from each other: those of a block are *)
(* consecutive, a block is followed by the start of one, and what comes    *)
(* after the last byte is what the reader puts there next.                 *)
FifoRuns(q) ==
  /\ \A i \in 1 .. Len(q) : q[i].file = path
  /\ \A i, j \in 1 .. Len(q) :
       /\ i <= j
       /\ \A p \in Starts[path] : p <= q[i].at \/ p > q[i].at + (j - i)
       => q[j].at = q[i].at + (j - i)
  /\ \A i \in 1 .. Len(q) - 1 : q[i].at + 1 \in Starts[path] => q[i + 1].at \in Starts[path]
  /\ q # << >> =>
       LET after == q[Len(q)].at + 1
       IN  IF Copying
           THEN IF after \in Starts[path] THEN NextAt \in Starts[path] ELSE NextAt = after
           ELSE after \in Starts[path]

(* The decoder: gathering the header hdr, or playing what is left of block.*)
DecoderPlace(block, hdr, hs, bit) ==
  /\ hdr # << >> =>
       /\ Exhausted(block)
       /\ hdr[1].file = path /\ hdr[1].at \in Starts[path]
       /\ \A i \in 1 .. Len(hdr) : hdr[i] = ByteAt(path, hdr[1].at + i - 1)
       /\ hs = HeaderLength(path, hdr[1].at) /\ Len(hdr) < hs
  /\ ~Exhausted(block) =>
       /\ block.origin.file = path /\ block.origin.at \in Starts[path]
       /\ block.origin.at < FileSize(path)
       /\ block.size <= BlockAt(path, block.origin.at).size
  /\ bit # 0 => block.size > 0 /\ block.kind = BlockData

Left(block, bit) == block.size - (IF bit = 0 THEN 0 ELSE 1)

AtBoundary(block, hdr, bit) ==
  IF Exhausted(block) THEN hdr = << >> ELSE Left(block, bit) = 0

(* What the decoder takes next, and where the reader or the FIFO has it.   *)
Wants(block, hdr, bit, b) ==
  IF AtBoundary(block, hdr, bit) THEN b.at \in Starts[b.file]
  ELSE IF Exhausted(block) THEN b = ByteAt(hdr[1].file, hdr[1].at + Len(hdr))
  ELSE b = ByteAt(block.origin.file,
                  BlockEnd(block.origin.file, block.origin.at) - Left(block, bit))

Meets(block, hdr, bit, q) ==
  IF q # << >> THEN Wants(block, hdr, bit, q[1])
  ELSE IF Copying THEN Wants(block, hdr, bit, ByteAt(path, NextAt))
  ELSE AtBoundary(block, hdr, bit)

Agree(block, hdr, hs, bit, q) ==
  FifoRuns(q) /\ DecoderPlace(block, hdr, hs, bit) /\ Meets(block, hdr, bit, q)

AgreeInv ==
  /\ ReaderPlace
  /\ Agree(current_block, tape_header, tape_header_size, tape_bit, fifo)
  /\ ~started => fifo = << >>

-----------------------------------------------------------------------------
LEMMA Opened ==
  ASSUME IInv, ReaderPlace, tape_file.name # NoFile
  PROVE  path \in Files /\ path # NoFile /\ tape_file.name = path
<1>1. tape_file.name = path /\ path \in Files \cup {NoFile}
  BY DEF ReaderPlace, IInv, ControlOK
<1> QED
  BY <1>1

(* The decoder takes n bytes of one block from the FIFO, the first at p.   *)
LEMMA Taking ==
  ASSUME IInv, path \in Files, WellFormed(path),
         NEW q \in Seq(FilePlace), FifoRuns(q), q # << >>,
         NEW s \in Starts[path], s < FileSize(path),
         NEW p \in Nat, s <= p, q[1] = ByteAt(path, p),
         NEW n \in 1 .. Len(q), p + n <= BlockEnd(path, s)
  PROVE  LET r == SubSeq(q, n + 1, Len(q))
         IN  /\ \A i \in 1 .. n : q[i] = ByteAt(path, p + i - 1)
             /\ FifoRuns(r)
             /\ p + n < BlockEnd(path, s) =>
                  IF r # << >> THEN r[1] = ByteAt(path, p + n) ELSE Copying /\ NextAt = p + n
             /\ p + n = BlockEnd(path, s) =>
                  IF r # << >> THEN r[1].file = path /\ r[1].at \in Starts[path]
                  ELSE Copying => NextAt \in Starts[path]
<1> DEFINE r == SubSeq(q, n + 1, Len(q))
           e == BlockEnd(path, s)
<1>1. /\ s \in Nat /\ e \in Starts[path] /\ e \in Nat
      /\ \A x \in Starts[path] : x <= s \/ x >= e
      /\ \A x \in Starts[path] : x \in Nat
  BY Layout, StartsAssumption
<1> HIDE DEF e
<1>2. /\ Len(q) \in Nat /\ n \in 0 .. Len(q) /\ n \in Nat
      /\ \A i \in 1 .. Len(q) : q[i].at \in Nat /\ q[i].file = path
                                /\ q[i] = ByteAt(path, q[i].at)
  <2>1. \A i \in 1 .. Len(q) : q[i] \in FilePlace /\ q[i].file = path
    BY ElementOfSeq DEF FifoRuns
  <2> QED
    BY <2>1, LenProperties DEF FilePlace, TapeByte, ByteAt
<1>3. q[1].at = p /\ 1 \in 1 .. Len(q)
  BY <1>2 DEF ByteAt
<1>4. r \in Seq(FilePlace) /\ Len(r) = Len(q) - n
  BY <1>2, RestOfSeq
<1>5. \A i \in 1 .. Len(q) - n : r[i] = q[n + i]
  <2>1. \A i \in n + 1 .. Len(q) : q[i] \in FilePlace
    BY <1>2, ElementOfSeq
  <2>2. r = [i \in 1 .. Len(q) - n |-> q[i + (n + 1) - 1]]
    BY <1>2
  <2> QED
    BY <1>2, <2>2
<1>6. r # << >> <=> n < Len(q)
  <2> HIDE DEF r
  <2>1. r = << >> <=> Len(r) = 0
    BY <1>4, EmptySeq
  <2> QED
    BY <1>2, <1>4, <2>1
<1>7. ASSUME NEW i \in 1 .. n
      PROVE  q[i].at = p + i - 1
  <2>1. i \in 1 .. Len(q) /\ 1 <= i
    BY <1>2
  <2>2. \A x \in Starts[path] : x <= q[1].at \/ x > q[1].at + (i - 1)
    BY <1>1, <1>2, <1>3 DEF e
  <2>3. q[i].at = q[1].at + (i - 1)
    BY <1>3, <2>1, <2>2 DEF FifoRuns
  <2> QED
    BY <1>2, <1>3, <2>1, <2>3
<1>8. \A i \in 1 .. n : q[i] = ByteAt(path, p + i - 1)
  BY <1>2, <1>7
<1>9. FifoRuns(r)
  <2>1. \A i \in 1 .. Len(r) : r[i].file = path /\ r[i].at \in Nat /\ n + i \in 1 .. Len(q)
    BY <1>2, <1>4, <1>5
  <2>2. ASSUME NEW i \in 1 .. Len(r), NEW j \in 1 .. Len(r), i <= j,
               \A x \in Starts[path] : x <= r[i].at \/ x > r[i].at + (j - i)
        PROVE  r[j].at = r[i].at + (j - i)
    <3>1. n + i \in 1 .. Len(q) /\ n + j \in 1 .. Len(q) /\ n + i <= n + j
          /\ (n + j) - (n + i) = j - i
      BY <1>2, <2>1, <2>2
    <3>2. r[i] = q[n + i] /\ r[j] = q[n + j]
      BY <1>4, <1>5
    <3> QED
      BY <2>2, <3>1, <3>2 DEF FifoRuns
  <2>3. ASSUME NEW i \in 1 .. Len(r) - 1, r[i].at + 1 \in Starts[path]
        PROVE  r[i + 1].at \in Starts[path]
    <3>1. n + i \in 1 .. Len(q) - 1 /\ i \in 1 .. Len(q) - n /\ i + 1 \in 1 .. Len(q) - n
          /\ n + (i + 1) = (n + i) + 1
      BY <1>2, <1>4
    <3>2. r[i] = q[n + i] /\ r[i + 1] = q[(n + i) + 1]
      BY <1>5, <3>1
    <3> QED
      BY <2>3, <3>1, <3>2 DEF FifoRuns
  <2>4. r # << >> => r[Len(r)] = q[Len(q)]
    <3> DEFINE m == Len(q) - n
    <3>1. n < Len(q) => m \in 1 .. Len(q) - n /\ n + m = Len(q)
      BY <1>2
    <3>2. n < Len(q) => r[m] = q[n + m]
      BY <1>5, <3>1
    <3> HIDE DEF r
    <3> QED
      BY <1>4, <1>6, <3>1, <3>2
  <2> HIDE DEF r
  <2> QED
    BY <2>1, <2>2, <2>3, <2>4 DEF FifoRuns
<1>10. /\ n < Len(q) => r[1] = q[n + 1] /\ n + 1 \in 1 .. Len(q)
                        /\ q[n + 1] = ByteAt(path, q[n + 1].at)
       /\ n \in 1 .. Len(q) /\ q[n].at = p + n - 1 /\ q[n].at + 1 = p + n
  BY <1>2, <1>5, <1>7
<1>11. ASSUME p + n < e
       PROVE  IF r # << >> THEN r[1] = ByteAt(path, p + n) ELSE Copying /\ NextAt = p + n
  <2>1. p + n \notin Starts[path]
    BY <1>1, <1>2, <1>11
  <2>2. CASE n < Len(q)
    <3>1. \A x \in Starts[path] : x <= q[n].at \/ x > q[n].at + ((n + 1) - n)
      BY <1>1, <1>2, <1>10, <2>1
    <3>2. q[n + 1].at = q[n].at + ((n + 1) - n)
      <4>1. n \in 1 .. Len(q) /\ n + 1 \in 1 .. Len(q) /\ n <= n + 1
        BY <1>2, <1>10, <2>2
      <4> QED
        BY <3>1, <4>1 DEF FifoRuns
    <3>3. q[n + 1].at = p + n
      BY <1>2, <1>10, <3>2
    <3> QED
      BY <1>6, <1>10, <2>2, <3>3
  <2>3. CASE ~(n < Len(q))
    <3>1. n = Len(q)
      BY <1>2, <2>3
    <3> QED
      BY <1>6, <1>10, <2>1, <2>3, <3>1 DEF FifoRuns
  <2> QED
    BY <2>2, <2>3
<1>12. ASSUME p + n = e
       PROVE  IF r # << >> THEN r[1].file = path /\ r[1].at \in Starts[path]
              ELSE Copying => NextAt \in Starts[path]
  <2>1. q[n].at + 1 \in Starts[path]
    BY <1>1, <1>10, <1>12
  <2>2. CASE n < Len(q)
    <3>1. n \in 1 .. Len(q) - 1
      BY <1>2, <2>2
    <3>2. q[n + 1].at \in Starts[path]
      BY <2>1, <3>1 DEF FifoRuns
    <3> QED
      BY <1>2, <1>6, <1>10, <2>2, <3>2
  <2>3. CASE ~(n < Len(q))
    <3>1. n = Len(q)
      BY <1>2, <2>3
    <3> QED
      BY <1>6, <2>1, <2>3, <3>1 DEF FifoRuns
  <2> QED
    BY <2>2, <2>3
<1> QED
  BY <1>8, <1>9, <1>11, <1>12 DEF e

(* The decoder gathers the header of the block that starts next.           *)
LEMMA GatheringAgrees ==
  ASSUME IInv, AgreeInv, \A f \in Files : WellFormed(f), NEW d \in Gathered
  PROVE  Agree(d.block, d.header, d.hs, d.bit, d.fifo) /\ (~d.started => d.fifo = << >>)
<1> DEFINE hdr == tape_header
<1>1. CASE ~Exhausted(current_block)
  <2>1. d = [block |-> current_block, header |-> tape_header, hs |-> tape_header_size,
             bit |-> tape_bit, fifo |-> fifo, started |-> started, finished |-> finished]
    BY <1>1, GatheredCases
  <2> QED
    BY <2>1 DEF AgreeInv
<1>2. CASE Exhausted(current_block)
  <2>1. PICK hs \in Awaited :
          \/ /\ hs # 0 /\ Len(Got(hs)) = hs
             /\ d = [block |-> Parse(tzx, Got(hs)), header |-> << >>, hs |-> 0,
                     bit |-> 0, fifo |-> Rest(hs), started |-> started,
                     finished |-> finished]
          \/ /\ ~(hs # 0 /\ Len(Got(hs)) = hs)
             /\ d = [block |-> current_block, header |-> Got(hs), hs |-> hs,
                     bit |-> tape_bit, fifo |-> Rest(hs),
                     started |-> started /\ ~finished, finished |-> FALSE]
    BY <1>2, GatheredCases
  <2> DEFINE n == Took(hs)
             g == Got(hs)
             r == Rest(hs)
  <2>2. /\ hdr \in Seq(FilePlace) /\ fifo \in Seq(FilePlace)
        /\ Len(hdr) \in Nat /\ Len(fifo) \in Nat /\ Len(hdr) <= tape_header_size
        /\ tape_header_size \in Nat /\ tzx \in BOOLEAN
    BY LenProperties, ByteIsNat DEF IInv, DecoderOK, FifoOK, ControlOK
  <2>3. /\ ReaderPlace /\ FifoRuns(fifo)
        /\ DecoderPlace(current_block, hdr, tape_header_size, tape_bit)
        /\ Meets(current_block, hdr, tape_bit, fifo)
    BY DEF AgreeInv, Agree
  <2>4. CASE fifo = << >>
    <3>1. hs = tape_header_size /\ Len(fifo) = 0
      BY <2>4, EmptySeq DEF Awaited
    <3>2. n = 0
      BY <2>2, <3>1 DEF Took, Lower
    <3>3. SubSeq(fifo, 1, 0) = << >> /\ SubSeq(fifo, 1, Len(fifo)) = << >>
      BY <2>4, <3>1
    <3>4. g = hdr /\ r = << >>
      BY <2>2, <3>2, <3>3 DEF Got, Rest
    <3>5. ~(hs # 0 /\ Len(g) = hs)
      BY <2>2, <2>3, <3>1, <3>4 DEF DecoderPlace
    <3>6. d = [block |-> current_block, header |-> hdr, hs |-> hs, bit |-> tape_bit,
               fifo |-> fifo, started |-> started /\ ~finished, finished |-> FALSE]
      BY <2>1, <2>4, <3>4, <3>5
    <3> QED
      BY <2>3, <2>4, <3>1, <3>6 DEF Agree
  <2>5. CASE fifo # << >>
    <3>1. path \in Files /\ WellFormed(path) /\ tzx = HasTzxSignature(path)
      BY <2>3, <2>5, Opened DEF ReaderPlace
    <3>2. /\ Len(fifo) > 0 /\ 1 \in 1 .. Len(fifo)
          /\ fifo[1] \in FilePlace /\ fifo[1].file = path
      <4>1. Len(fifo) > 0 /\ 1 \in 1 .. Len(fifo)
        BY <2>2, <2>5, EmptySeq
      <4> QED
        BY <2>2, <2>3, <4>1, ElementOfSeq DEF FifoRuns
    <3> DEFINE s == IF hdr = << >> THEN fifo[1].at ELSE hdr[1].at
               e == BlockEnd(path, s)
    <3>3. hdr # << >> => /\ Len(hdr) > 0 /\ 1 \in 1 .. Len(hdr) /\ hdr[1] \in FilePlace
                         /\ hdr[1].file = path
      <4> SUFFICES ASSUME hdr # << >>
                   PROVE  /\ Len(hdr) > 0 /\ 1 \in 1 .. Len(hdr) /\ hdr[1] \in FilePlace
                          /\ hdr[1].file = path
        OBVIOUS
      <4>1. Len(hdr) > 0 /\ 1 \in 1 .. Len(hdr)
        BY <2>2, EmptySeq
      <4> QED
        BY <2>2, <2>3, <4>1, ElementOfSeq DEF DecoderPlace
    <3>4. /\ s \in Starts[path] /\ s < FileSize(path) /\ s \in Nat
          /\ fifo[1] = ByteAt(path, s + Len(hdr))
      <4>1. CASE hdr = << >>
        <5>1. AtBoundary(current_block, hdr, tape_bit)
          BY <1>2, <4>1 DEF AtBoundary
        <5>2. fifo[1].at \in Starts[path]
          BY <2>3, <2>5, <3>2, <5>1 DEF Meets, Wants
        <5>3. Len(hdr) = 0
          BY <4>1, EmptySeq
        <5> QED
          BY <3>2, <4>1, <5>2, <5>3 DEF FilePlace, TapeByte, ByteAt
      <4>2. CASE hdr # << >>
        <5>1. ~AtBoundary(current_block, hdr, tape_bit)
          BY <1>2, <4>2 DEF AtBoundary
        <5>2. fifo[1] = ByteAt(hdr[1].file, hdr[1].at + Len(hdr))
          BY <1>2, <2>3, <2>5, <5>1 DEF Meets, Wants
        <5> QED
          BY <2>3, <3>3, <4>2, <5>2 DEF DecoderPlace, FilePlace, TapeByte
      <4> QED
        BY <4>1, <4>2
    <3> HIDE DEF s, e
    <3>5. /\ HeaderLength(path, s) \in 1 .. 255
          /\ HeaderSizes(HasTzxSignature(path), Value(ByteAt(path, s))) = {HeaderLength(path, s)}
          /\ BlockAt(path, s).size \in Nat /\ e \in Nat /\ e \in Starts[path]
          /\ e = s + HeaderLength(path, s) + BlockAt(path, s).size
      BY <3>1, <3>4, Layout DEF e
    <3>6. hs = HeaderLength(path, s) /\ Len(hdr) < hs
      <4>1. CASE hdr = << >>
        <5>1. Len(hdr) = 0
          BY <4>1, EmptySeq
        <5>2. hs \in HeaderSizes(tzx, Value(fifo[1])) /\ fifo[1] = ByteAt(path, s)
          BY <2>5, <3>4, <4>1, <5>1 DEF Awaited
        <5>3. hs = HeaderLength(path, s)
          BY <3>1, <3>5, <5>2
        <5> QED
          <6>1. HeaderLength(path, s) \in 1 .. 255
            BY <3>5
          <6>2. \A x \in 1 .. 255 : 0 < x
            OBVIOUS
          <6> QED
            BY <5>1, <5>3, <6>1, <6>2
      <4>2. CASE hdr # << >>
        <5>1. hs = tape_header_size
          BY <4>2 DEF Awaited
        <5> QED
          BY <2>3, <4>2, <5>1 DEF DecoderPlace, s
      <4> QED
        BY <4>1, <4>2
    <3> DEFINE p == s + Len(hdr)
    <3>7. /\ n \in 1 .. Len(fifo) /\ p \in Nat /\ s <= p /\ p + n <= s + hs /\ p + n <= e
          /\ Len(hdr) + n <= hs /\ n \in Nat /\ hs \in Nat
          /\ Len(hdr) + n < hs => n = Len(fifo)
      <4> DEFINE m == Len(hdr)
                 k == Len(fifo)
                 z == BlockAt(path, s).size
      <4>1. /\ m \in Nat /\ k \in Nat /\ k > 0 /\ hs \in Nat /\ m < hs /\ z \in Nat /\ s \in Nat
            /\ n = (IF hs - m <= k THEN hs - m ELSE k) /\ e = s + hs + z /\ p = s + m
        <5>1. m \in Nat /\ k \in Nat /\ k > 0
          BY <2>2, <3>2
        <5>2. hs \in 1 .. 255 /\ m < hs /\ z \in Nat /\ s \in Nat /\ e = s + hs + z
          BY <3>4, <3>5, <3>6
        <5>3. n = (IF hs - m <= k THEN hs - m ELSE k)
          BY DEF Took, Lower
        <5>4. p = s + m /\ \A x \in 1 .. 255 : x \in Nat
          OBVIOUS
        <5> QED
          BY <5>1, <5>2, <5>3, <5>4
      <4> HIDE DEF m, k, z, n, p
      <4>2. n \in Nat /\ n >= 1 /\ n <= k /\ n <= hs - m /\ (n < hs - m => n = k)
        BY <4>1
      <4> QED
        <5>1. /\ n \in 1 .. k /\ p \in Nat /\ s <= p /\ p + n <= s + hs /\ p + n <= e
              /\ m + n <= hs /\ (m + n < hs => n = k)
          BY <4>1, <4>2
        <5> QED
          BY <4>1, <4>2, <5>1 DEF m, k
    <3> HIDE DEF n, g, r
    <3>8. /\ \A i \in 1 .. n : fifo[i] = ByteAt(path, p + i - 1)
          /\ FifoRuns(r)
          /\ p + n < e => IF r # << >> THEN r[1] = ByteAt(path, p + n) ELSE Copying /\ NextAt = p + n
          /\ p + n = e => IF r # << >> THEN r[1].file = path /\ r[1].at \in Starts[path]
                          ELSE Copying => NextAt \in Starts[path]
      BY <2>2, <2>3, <2>5, <3>1, <3>4, <3>7, Taking DEF r, n, Rest, e
    <3>9. /\ g \in Seq(FilePlace) /\ Len(g) = Len(hdr) + n
          /\ \A i \in 1 .. Len(g) : g[i] = ByteAt(path, s + i - 1)
      <4> DEFINE front == SubSeq(fifo, 1, n)
      <4>1. /\ front \in Seq(FilePlace) /\ Len(front) = n
            /\ \A i \in 1 .. n : front[i] = fifo[i]
        BY <2>2, <3>7, FrontOfSeq
      <4>2. g = hdr \o front
        BY DEF g, Got, n
      <4> HIDE DEF front
      <4>3. /\ g \in Seq(FilePlace) /\ Len(g) = Len(hdr) + n
            /\ \A i \in 1 .. Len(g) : g[i] = IF i <= Len(hdr) THEN hdr[i] ELSE front[i - Len(hdr)]
        <5>1. /\ hdr \o front \in Seq(FilePlace) /\ Len(hdr \o front) = Len(hdr) + n
              /\ \A i \in 1 .. Len(hdr) + n :
                   (hdr \o front)[i] = IF i <= Len(hdr) THEN hdr[i] ELSE front[i - Len(hdr)]
          BY <2>2, <4>1, ConcatProperties
        <5> QED
          BY <4>2, <5>1
      <4>4. ASSUME NEW i \in 1 .. Len(g)
            PROVE  g[i] = ByteAt(path, s + i - 1)
        <5>1. CASE i <= Len(hdr)
          <6>1. hdr # << >> /\ i \in 1 .. Len(hdr)
            BY <2>2, <5>1, EmptySeq
          <6>2. hdr[i] = ByteAt(path, hdr[1].at + i - 1)
            BY <2>3, <6>1 DEF DecoderPlace
          <6> QED
            BY <4>3, <5>1, <6>1, <6>2 DEF s
        <5>2. CASE ~(i <= Len(hdr))
          <6>1. i - Len(hdr) \in 1 .. n /\ p + (i - Len(hdr)) - 1 = s + i - 1
            BY <2>2, <3>4, <3>7, <4>3, <5>2
          <6>2. fifo[i - Len(hdr)] = ByteAt(path, p + (i - Len(hdr)) - 1)
            BY <3>8, <6>1
          <6> QED
            BY <4>1, <4>3, <5>2, <6>1, <6>2
        <5> QED
          BY <5>1, <5>2
      <4> QED
        BY <4>3, <4>4
    <3>10. CASE hs # 0 /\ Len(g) = hs
      <4> DEFINE block == BlockAt(path, s)
      <4>1. g = HeaderBytes(path, s)
        <5>1. g = [i \in 1 .. hs |-> g[i]]
          BY <3>9, <3>10, LenProperties
        <5> QED
          BY <3>6, <3>9, <3>10, <5>1 DEF HeaderBytes
      <4>2. d = [block |-> block, header |-> << >>, hs |-> 0, bit |-> 0, fifo |-> r,
                 started |-> started, finished |-> finished]
        BY <2>1, <3>1, <3>10, <4>1 DEF BlockAt, g, r
      <4>3. block.origin = ByteAt(path, s) /\ block.size \in Nat
        <5>1. Len(g) >= 1 /\ 1 \in 1 .. Len(g)
          BY <3>5, <3>6, <3>10
        <5>2. Parse(tzx, g).origin = g[1]
          BY ParseOrigin
        <5> QED
          BY <3>1, <3>4, <3>5, <3>9, <4>1, <5>1, <5>2 DEF BlockAt
      <4>4. block.origin.file = path /\ block.origin.at = s
        BY <4>3 DEF ByteAt
      <4>5. DecoderPlace(block, << >>, 0, 0)
        BY <3>4, <4>3, <4>4 DEF DecoderPlace
      <4>6. p + n = s + hs /\ Left(block, 0) = block.size
        <5>1. p + n = s + (Len(hdr) + n) /\ Left(block, 0) = block.size
          BY <2>2, <3>4, <3>7, <4>3 DEF Left
        <5> QED
          BY <3>9, <3>10, <5>1
      <4>7. Meets(block, << >>, 0, r)
        <5>1. CASE block.size = 0
          <6>1. AtBoundary(block, << >>, 0)
            BY <4>6, <5>1 DEF AtBoundary
          <6>2. p + n = e
            <7>1. e = s + hs + block.size /\ s \in Nat /\ hs \in Nat
              <8>1. HeaderLength(path, s) \in 1 .. 255
                BY <3>5
              <8>2. \A x \in 1 .. 255 : x \in Nat
                OBVIOUS
              <8> QED
                BY <3>4, <3>5, <3>6, <8>1, <8>2
            <7> QED
              BY <4>6, <5>1, <7>1
          <6> QED
            BY <3>8, <6>1, <6>2 DEF Meets, Wants, ByteAt
        <5>2. CASE block.size # 0
          <6>1. ~Exhausted(block) /\ ~AtBoundary(block, << >>, 0)
            BY <4>6, <5>2 DEF AtBoundary, Exhausted
          <6>2. p + n < e /\ e - Left(block, 0) = p + n
            <7>1. e = s + hs + block.size /\ s \in Nat /\ hs \in Nat
              <8>1. HeaderLength(path, s) \in 1 .. 255
                BY <3>5
              <8>2. \A x \in 1 .. 255 : x \in Nat
                OBVIOUS
              <8> QED
                BY <3>4, <3>5, <3>6, <8>1, <8>2
            <7> HIDE DEF block
            <7> QED
              BY <4>3, <4>6, <5>2, <7>1
          <6> HIDE DEF block
          <6> QED
            BY <3>8, <4>4, <6>1, <6>2 DEF Meets, Wants, e
        <5> QED
          BY <5>1, <5>2
      <4> HIDE DEF block
      <4> QED
        BY <2>5, <3>8, <4>2, <4>5, <4>7 DEF Agree, AgreeInv
    <3>11. CASE ~(hs # 0 /\ Len(g) = hs)
      <4>1. /\ Len(g) < hs /\ n = Len(fifo) /\ Len(g) > 0 /\ 1 \in 1 .. Len(g)
            /\ p + n < e /\ p + n = s + Len(g)
        <5> DEFINE m == Len(hdr)
                   z == BlockAt(path, s).size
        <5>1. /\ m \in Nat /\ hs \in Nat /\ m < hs /\ z \in Nat /\ s \in Nat
              /\ e = s + hs + z /\ p = s + m /\ Len(g) = m + n /\ m + n <= hs /\ n \in Nat /\ n >= 1
              /\ m + n < hs => n = Len(fifo)
          BY <2>2, <3>4, <3>5, <3>6, <3>7, <3>9
        <5>2. Len(g) # hs
          BY <3>11, <5>1
        <5> HIDE DEF m, z, p
        <5> QED
          BY <5>1, <5>2
      <4>2. r = << >>
        <5>1. r \in Seq(FilePlace) /\ Len(r) = 0
          BY <2>2, <4>1, RestOfSeq DEF r, Rest, n
        <5> QED
          BY <5>1, EmptySeq
      <4>3. d = [block |-> current_block, header |-> g, hs |-> hs, bit |-> tape_bit,
                 fifo |-> << >>, started |-> started /\ ~finished, finished |-> FALSE]
        BY <2>1, <3>11, <4>2 DEF g, r
      <4>4. g[1].file = path /\ g[1].at = s /\ g # << >>
        <5>1. g[1] = ByteAt(path, s)
          BY <3>4, <3>9, <4>1
        <5> QED
          BY <4>1, <5>1, EmptySeq DEF ByteAt
      <4>5. DecoderPlace(current_block, g, hs, tape_bit)
        BY <1>2, <2>3, <3>4, <3>6, <3>9, <4>1, <4>4 DEF DecoderPlace
      <4>6. Meets(current_block, g, tape_bit, << >>)
        <5>1. ~AtBoundary(current_block, g, tape_bit)
          BY <1>2, <4>4 DEF AtBoundary
        <5>2. Copying /\ NextAt = p + n
          BY <3>8, <4>1, <4>2
        <5> QED
          BY <1>2, <4>1, <4>4, <5>1, <5>2 DEF Meets, Wants
      <4> QED
        BY <3>8, <4>2, <4>3, <4>5, <4>6 DEF Agree
    <3> QED
      BY <3>10, <3>11
  <2> QED
    BY <2>4, <2>5
<1> QED
  BY <1>1, <1>2

(* The decoder goes on with a block: it has taken n bytes of its data, and *)
(* c is left of it.                                                        *)
LEMMA PlayingAgrees ==
  ASSUME IInv, \A f \in Files : WellFormed(f),
         NEW b \in BlockType, NEW c \in BlockType, NEW hdr, NEW hs,
         NEW bit \in 0 .. 16, NEW bit2 \in 0 .. 16, NEW q \in Seq(FilePlace),
         Agree(b, hdr, hs, bit, q), ~Exhausted(b),
         NEW n \in 0 .. Len(q), n <= Left(b, bit),
         c.origin = b.origin, c.size <= b.size, Left(c, bit2) = Left(b, bit) - n,
         bit2 # 0 => c.size > 0 /\ c.kind = BlockData
  PROVE  Agree(c, hdr, hs, bit2, SubSeq(q, n + 1, Len(q)))
<1> DEFINE s == b.origin.at
           e == BlockEnd(path, s)
           l == Left(b, bit)
           m == Left(c, bit2)
           r == SubSeq(q, n + 1, Len(q))
           p == e - l
<1>1. FifoRuns(q) /\ DecoderPlace(b, hdr, hs, bit) /\ Meets(b, hdr, bit, q)
  BY DEF Agree
<1>2. /\ hdr = << >>
      /\ b.origin.file = path /\ s \in Starts[path] /\ s < FileSize(path)
      /\ b.size <= BlockAt(path, s).size
      /\ bit # 0 => b.size > 0
  BY <1>1 DEF DecoderPlace
<1>3. path \in Files /\ WellFormed(path)
  <2>1. path \in Files \cup {NoFile}
    BY DEF IInv, ControlOK
  <2>2. s \in Nat
    BY DEF BlockType
  <2>3. path # NoFile
    BY <1>2, <2>2 DEF FileSize
  <2> QED
    BY <2>1, <2>3
<1>4. /\ b.size \in Nat /\ c.size \in Nat
      /\ n \in Nat /\ n <= Len(q) /\ Len(q) \in Nat
  BY LenProperties DEF BlockType
<1>5. l \in Nat /\ l <= b.size /\ m \in Nat /\ m = l - n /\ m <= c.size
      /\ (c.size = 0 => m = 0) /\ (b.size = 0 => l = 0)
  BY <1>2, <1>4 DEF Left
<1>6. /\ s \in Nat /\ e \in Starts[path] /\ e \in Nat
      /\ s <= p /\ p \in Nat /\ p + l = e
  <2>1. /\ s \in Nat /\ e \in Starts[path] /\ e \in Nat
        /\ e = s + HeaderLength(path, s) + BlockAt(path, s).size
    BY <1>2, <1>3, Layout
  <2>2. HeaderLength(path, s) \in 1 .. 255 /\ BlockAt(path, s).size \in Nat
    BY <1>2, <1>3, Layout
  <2>3. \A x \in 1 .. 255 : x \in Nat
    OBVIOUS
  <2> DEFINE hl == HeaderLength(path, s)
             z == BlockAt(path, s).size
  <2>4. hl \in Nat /\ z \in Nat /\ b.size <= z /\ e = s + hl + z /\ s \in Nat /\ e \in Nat
        /\ e \in Starts[path]
    BY <1>2, <2>1, <2>2, <2>3
  <2>5. l \in Nat /\ l <= b.size /\ b.size \in Nat
    BY <1>4, <1>5
  <2> HIDE DEF e, l, s, hl, z
  <2>6. l <= z
    BY <2>4, <2>5
  <2> QED
    BY <2>4, <2>5, <2>6
<1>7. /\ AtBoundary(b, hdr, bit) <=> l = 0
      /\ AtBoundary(c, hdr, bit2) <=> m = 0
      /\ m # 0 => ~Exhausted(c)
  BY <1>2, <1>5 DEF AtBoundary, Exhausted
<1>8. \A x : /\ l # 0 => (Wants(b, hdr, bit, x) <=> x = ByteAt(path, p))
             /\ m # 0 => (Wants(c, hdr, bit2, x) <=> x = ByteAt(path, e - m))
             /\ l = 0 => (Wants(b, hdr, bit, x) <=> x.at \in Starts[x.file])
             /\ m = 0 => (Wants(c, hdr, bit2, x) <=> x.at \in Starts[x.file])
  BY <1>2, <1>7 DEF Wants
<1>9. DecoderPlace(c, hdr, hs, bit2)
  <2>1. c.size <= BlockAt(path, s).size
    <3>1. BlockAt(path, s).size \in Nat
      BY <1>2, <1>3, Layout
    <3> QED
      BY <1>2, <1>4, <3>1
  <2> QED
    BY <1>2, <2>1 DEF DecoderPlace
<1> HIDE DEF e, l, m, s, p
<1>10. CASE n = 0
  <2>1. r = q
    BY <1>10, <1>4
  <2>2. m = l
    BY <1>5, <1>10
  <2>3. l # 0 => e - m = p
    BY <1>5, <1>6, <2>2
  <2>4. Meets(c, hdr, bit2, q)
    <3>1. \A x : Wants(b, hdr, bit, x) <=> Wants(c, hdr, bit2, x)
      BY <1>8, <2>2, <2>3
    <3> QED
      BY <1>1, <1>7, <2>2, <3>1 DEF Meets
  <2> QED
    BY <1>1, <1>9, <2>1, <2>4 DEF Agree
<1>11. CASE n # 0
  <2>1. /\ n \in 1 .. Len(q) /\ q # << >> /\ l # 0 /\ p + n <= e /\ p + n = e - m
        /\ p + n < e <=> m # 0
    <3>1. n \in 1 .. Len(q) /\ l # 0 /\ p + n <= e /\ p + n = e - m /\ (p + n < e <=> m # 0)
      BY <1>4, <1>5, <1>6, <1>11
    <3>2. q # << >>
      BY <1>4, <1>11, EmptySeq
    <3> QED
      BY <3>1, <3>2
  <2>2. q[1] = ByteAt(path, p)
    BY <1>1, <1>8, <2>1 DEF Meets
  <2>3. /\ FifoRuns(r)
        /\ p + n < e => IF r # << >> THEN r[1] = ByteAt(path, p + n) ELSE Copying /\ NextAt = p + n
        /\ p + n = e => IF r # << >> THEN r[1].file = path /\ r[1].at \in Starts[path]
                        ELSE Copying => NextAt \in Starts[path]
    BY <1>1, <1>2, <1>3, <1>6, <2>1, <2>2, Taking DEF e, s
  <2>4. Meets(c, hdr, bit2, r)
    <3>1. CASE m = 0
      <4>1. p + n = e
        BY <1>5, <1>6, <2>1, <3>1
      <4>2. ByteAt(path, NextAt).at = NextAt /\ ByteAt(path, NextAt).file = path
        BY DEF ByteAt
      <4> QED
        BY <1>7, <1>8, <2>3, <3>1, <4>1, <4>2 DEF Meets
    <3>2. CASE m # 0
      BY <1>7, <1>8, <2>1, <2>3, <3>2 DEF Meets
    <3> QED
      BY <3>1, <3>2
  <2> QED
    BY <1>9, <2>3, <2>4 DEF Agree
<1> QED
  BY <1>10, <1>11

(* While the reader rests its place stays, and so does what the decoder    *)
(* and the FIFO have to agree with.                                        *)
LEMMA ReaderRests ==
  ASSUME AgreeInv, UNCHANGED <<path, readerVars>>,
         Agree(current_block', tape_header', tape_header_size', tape_bit', fifo'),
         ~started' => fifo' = << >>,
         tape_file.name = NoFile =>
           fifo' = << >> /\ tape_header' = << >> /\ Exhausted(current_block')
  PROVE  AgreeInv'
<1>1. UNCHANGED <<path, tape_file, tzx, header, data_size, loops>>
  BY DEF readerVars
<1>2. NextAt' = NextAt /\ Copying' = Copying
  BY <1>1 DEF NextAt, Copying
<1>3. ReaderPlace'
  <2>1. ReaderPlace
    BY DEF AgreeInv
  <2>2. \A s : Copies(s)' <=> Copies(s)
    BY <1>1, <1>2 DEF Copies
  <2>3. Exhausted(current_block)' <=> Exhausted(current_block')
    BY DEF Exhausted
  <2> QED
    BY <1>1, <1>2, <2>1, <2>2, <2>3 DEF ReaderPlace
<1>4. FifoRuns(fifo)'
  BY <1>1, <1>2 DEF Agree, FifoRuns
<1>5. DecoderPlace(current_block, tape_header, tape_header_size, tape_bit)'
  BY <1>1 DEF Agree, DecoderPlace, Exhausted
<1>6. Meets(current_block, tape_header, tape_bit, fifo)'
  <2>1. Meets(current_block', tape_header', tape_bit', fifo')
    BY DEF Agree
  <2> QED
    BY <1>1, <1>2, <2>1 DEF Meets, Wants, AtBoundary, Left, Exhausted
<1> QED
  BY <1>3, <1>4, <1>5, <1>6 DEF AgreeInv, Agree

(* The decoder sends a word, or finds nothing to send.                     *)
LEMMA DecoderFollows ==
  ASSUME IInv, AgreeInv, \A f \in Files : WellFormed(f), FillBuffer
  PROVE  AgreeInv'
<1>1. PICK d \in Gathered :
        /\ \/ SendPilot(d) \/ SendSync(d) \/ SendHalfBit(d)
           \/ SendSequencePulse(d) \/ SendPause(d) \/ NothingToSend(d)
        /\ tape_header' = d.header /\ tape_header_size' = d.hs /\ started' = d.started
  BY DEF FillBuffer
<1> DEFINE b == d.block
           c == current_block'
           q == d.fifo
           bit2 == tape_bit'
<1>2. /\ b \in BlockType /\ EvenSequence(b)
      /\ b.pilot \in Nat /\ b.sync \in 0 .. 2 /\ b.pause \in Nat /\ b.size \in Nat
      /\ b.kind \in {BlockData, SequenceData, SkipData}
      /\ d.bit \in 0 .. 16 /\ q \in Seq(FilePlace) /\ Len(q) \in Nat
  BY GatheredType, LenProperties DEF GatheredOK, BlockType
<1>3. Agree(b, d.header, d.hs, d.bit, q) /\ (~d.started => q = << >>)
  BY GatheringAgrees
<1>4. d.bit # 0 => b.size > 0 /\ b.kind = BlockData
  BY <1>3 DEF Agree, DecoderPlace
<1>5. BlockData # SequenceData /\ BlockData # SkipData /\ SequenceData # SkipData
  BY DEF BlockData, SequenceData, SkipData
<1> DEFINE Follows(n) == /\ n \in 0 .. Len(q) /\ fifo' = SubSeq(q, n + 1, Len(q))
                         /\ Agree(c, d.header, d.hs, bit2, fifo')
<1>6. ASSUME ~Exhausted(b), c \in BlockType, bit2 \in 0 .. 16, NEW n \in 0 .. Len(q),
             n <= Left(b, d.bit), c.origin = b.origin, c.size <= b.size,
             Left(c, bit2) = Left(b, d.bit) - n,
             bit2 # 0 => c.size > 0 /\ c.kind = BlockData,
             fifo' = SubSeq(q, n + 1, Len(q))
      PROVE  Follows(n)
  <2> HIDE DEF b, c, q, bit2
  <2> QED
    BY <1>2, <1>3, <1>6, PlayingAgrees
<1>7. q = SubSeq(q, 0 + 1, Len(q)) /\ 0 \in 0 .. Len(q)
  BY <1>2
<1>8. Left(b, d.bit) \in Nat /\ b.size - Left(b, d.bit) \in {0, 1}
      /\ (d.bit = 0 => Left(b, d.bit) = b.size)
      /\ (d.bit # 0 => Left(b, d.bit) = b.size - 1)
  BY <1>2, <1>4 DEF Left
<1>9. ASSUME c \in BlockType, c.origin = b.origin, c.size = b.size, c.kind = b.kind,
             ~Exhausted(b), fifo' = q, bit2 = d.bit
      PROVE  Follows(0)
  <2>1. Left(c, bit2) = Left(b, d.bit) - 0
    BY <1>8, <1>9 DEF Left
  <2> QED
    BY <1>2, <1>4, <1>6, <1>7, <1>8, <1>9, <2>1
<1>10. ASSUME SendPilot(d)
       PROVE  \E n : Follows(n)
  <2>1. c = [b EXCEPT !.pilot = @ - 1] /\ b.pilot > 0 /\ fifo' = q /\ bit2 = d.bit
    BY <1>10 DEF SendPilot, Send
  <2>2. c \in BlockType /\ ~Exhausted(b)
    <3>1. ~Exhausted(b)
      BY <1>2, <2>1 DEF Exhausted
    <3> HIDE DEF b, c
    <3> QED
      BY <1>2, <2>1, <3>1, BlockCountsDown
  <2>3. c.origin = b.origin /\ c.size = b.size /\ c.kind = b.kind
    BY <1>2, <2>1 DEF BlockType
  <2> QED
    BY <1>9, <2>1, <2>2, <2>3
<1>11. ASSUME SendSync(d)
       PROVE  \E n : Follows(n)
  <2>1. c = [b EXCEPT !.sync = @ - 1] /\ b.sync > 0 /\ fifo' = q /\ bit2 = d.bit
    BY <1>11 DEF SendSync, Send
  <2>2. c \in BlockType /\ ~Exhausted(b)
    <3>1. ~Exhausted(b)
      BY <1>2, <2>1 DEF Exhausted
    <3> HIDE DEF b, c
    <3> QED
      BY <1>2, <2>1, <3>1, BlockCountsDown
  <2>3. c.origin = b.origin /\ c.size = b.size /\ c.kind = b.kind
    BY <1>2, <2>1 DEF BlockType
  <2> QED
    BY <1>9, <2>1, <2>2, <2>3
<1>12. ASSUME SendPause(d)
       PROVE  \E n : Follows(n)
  <2>1. c = [b EXCEPT !.pause = @ - 1] /\ b.pause > 0 /\ fifo' = q /\ bit2 = d.bit
    BY <1>12 DEF SendPause, Send
  <2>2. c \in BlockType /\ ~Exhausted(b)
    <3>1. ~Exhausted(b)
      BY <1>2, <2>1 DEF Exhausted
    <3> HIDE DEF b, c
    <3> QED
      BY <1>2, <2>1, <3>1, BlockCountsDown
  <2>3. c.origin = b.origin /\ c.size = b.size /\ c.kind = b.kind
    BY <1>2, <2>1 DEF BlockType
  <2> QED
    BY <1>9, <2>1, <2>2, <2>3
<1>13. ASSUME SendSequencePulse(d)
       PROVE  \E n : Follows(n)
  <2>1. /\ c = [b EXCEPT !.size = @ - 2] /\ b.size > 0 /\ b.kind = SequenceData
        /\ Len(q) >= 2 /\ fifo' = SubSeq(q, 3, Len(q)) /\ bit2 = d.bit
    BY <1>13 DEF SendSequencePulse, Send, InData
  <2>2. c \in BlockType /\ ~Exhausted(b)
    <3>1. ~Exhausted(b)
      BY <1>2, <2>1 DEF Exhausted
    <3> HIDE DEF b, c
    <3> QED
      BY <1>2, <2>1, <3>1, BlockCountsDown
  <2>3. c.origin = b.origin /\ c.size = b.size - 2 /\ c.size \in Nat /\ d.bit = 0
    BY <1>2, <1>4, <1>5, <2>1, <2>2 DEF BlockType
  <2>4. Left(c, bit2) = Left(b, d.bit) - 2
    BY <1>8, <2>1, <2>3 DEF Left
  <2>5. 2 \in 0 .. Len(q) /\ 2 <= Left(b, d.bit) /\ 2 + 1 = 3 /\ c.size <= b.size
    BY <1>2, <1>8, <2>1, <2>3
  <2>6. Follows(2)
    BY <1>2, <1>6, <2>1, <2>2, <2>3, <2>4, <2>5
  <2> QED
    BY <2>6
<1>14. ASSUME SendHalfBit(d)
       PROVE  \E n : Follows(n)
  <2> DEFINE fetch == d.bit = 0
             left == (IF fetch THEN 16 ELSE d.bit) - 1
             cut == left # 0 /\ b.size = 1 /\ left = b.lastbit
             n == IF fetch THEN 1 ELSE 0
  <2>1. /\ c = [b EXCEPT !.size = IF left = 0 \/ cut THEN @ - 1 ELSE @]
        /\ b.size > 0 /\ b.kind = BlockData
        /\ fetch => q # << >>
        /\ fifo' = (IF fetch THEN Tail(q) ELSE q)
        /\ bit2 = (IF cut THEN 0 ELSE left)
    BY <1>14 DEF SendHalfBit, Send, InData
  <2>2. left \in 0 .. 15 /\ (fetch => left # 0) /\ (cut => b.size = 1 /\ left # 0)
    BY <1>2
  <2> HIDE DEF left, cut
  <2>3. ~Exhausted(b)
    BY <2>1 DEF Exhausted
  <2>4. /\ c \in BlockType /\ c.origin = b.origin /\ c.kind = b.kind
        /\ c.size = IF left = 0 \/ cut THEN b.size - 1 ELSE b.size
    <3>1. CASE left = 0 \/ cut
      <4>1. c = [b EXCEPT !.size = @ - 1]
        BY <2>1, <3>1
      <4>2. c \in BlockType
        BY <1>2, <2>1, <4>1, BlockCountsDown
      <4> QED
        BY <1>2, <3>1, <4>1, <4>2 DEF BlockType
    <3>2. CASE ~(left = 0 \/ cut)
      <4>1. c = b
        BY <1>2, <2>1, <3>2 DEF BlockType
      <4> QED
        BY <1>2, <3>2, <4>1
    <3> QED
      BY <3>1, <3>2
  <2>5. n \in 0 .. Len(q) /\ fifo' = SubSeq(q, n + 1, Len(q))
    <3>1. CASE fetch
      <4>1. Len(q) > 0
        BY <1>2, <2>1, <3>1, EmptySeq
      <4>2. Tail(q) = SubSeq(q, 2, Len(q))
        BY <1>2, <4>1
      <4> QED
        BY <1>2, <2>1, <3>1, <4>1, <4>2
    <3>2. CASE ~fetch
      BY <1>7, <2>1, <3>2
    <3> QED
      BY <3>1, <3>2
  <2>6. c.size \in Nat /\ c.size <= b.size
        /\ (bit2 # 0 => c.size > 0 /\ c.kind = BlockData) /\ bit2 \in 0 .. 16
    BY <1>2, <2>1, <2>2, <2>4
  <2>7. n <= Left(b, d.bit) /\ Left(c, bit2) = Left(b, d.bit) - n
    BY <1>2, <1>8, <2>1, <2>2, <2>4 DEF Left
  <2>8. Follows(n)
    BY <1>6, <2>3, <2>4, <2>5, <2>6, <2>7
  <2> QED
    BY <2>8
<1>15. ASSUME NothingToSend(d)
       PROVE  \E n : Follows(n)
  <2> DEFINE n == IF InData(d, SkipData) THEN Lower(b.size, Len(q)) ELSE 0
  <2>1. fifo' = SubSeq(q, n + 1, Len(q)) /\ c = [b EXCEPT !.size = @ - n] /\ bit2 = d.bit
    BY <1>15 DEF NothingToSend
  <2>2. n \in Nat /\ n <= Len(q) /\ n <= b.size /\ n \in 0 .. Len(q)
    BY <1>2 DEF Lower
  <2>3. CASE Exhausted(b)
    <3>1. n = 0
      BY <1>2, <2>2, <2>3 DEF Exhausted
    <3>2. c = b /\ fifo' = q
      BY <1>2, <1>7, <2>1, <3>1 DEF BlockType
    <3>3. Follows(0)
      BY <1>3, <1>7, <2>1, <3>2
    <3> QED
      BY <3>3
  <2>4. CASE ~Exhausted(b)
    <3>1. n # 0 => b.kind = SkipData
      BY DEF InData
    <3> HIDE DEF n
    <3>2. c.origin = b.origin /\ c.size = b.size - n /\ c.kind = b.kind /\ c \in BlockType
          /\ c.size \in Nat /\ c.size <= b.size
      <4>1. c \in BlockType
        <5>1. n = 0 => c = b
          BY <1>2, <2>1 DEF BlockType
        <5>2. n \in 0 .. b.size
          BY <1>2, <2>2
        <5> HIDE DEF b, c
        <5> QED
          BY <1>2, <2>1, <3>1, <5>1, <5>2, BlockCountsDown
      <4> QED
        BY <1>2, <2>1, <2>2, <4>1 DEF BlockType
    <3>3. n # 0 => d.bit = 0
      BY <1>4, <1>5, <3>1
    <3>4. n <= Left(b, d.bit) /\ Left(c, bit2) = Left(b, d.bit) - n
      BY <1>2, <1>8, <2>1, <2>2, <3>2, <3>3 DEF Left
    <3>5. bit2 # 0 => c.size > 0 /\ c.kind = BlockData
      BY <1>2, <1>4, <2>1, <2>2, <3>2, <3>3
    <3>6. bit2 \in 0 .. 16
      BY <1>2, <2>1
    <3>7. Follows(n)
      BY <1>6, <2>1, <2>2, <2>4, <3>2, <3>4, <3>5, <3>6
    <3> QED
      BY <3>7
  <2> QED
    BY <2>3, <2>4
<1>16. PICK n : Follows(n)
  BY <1>1, <1>10, <1>11, <1>12, <1>13, <1>14, <1>15
<1>17. ~started' => fifo' = << >>
  <2> SUFFICES ASSUME ~d.started
               PROVE  fifo' = << >>
    BY <1>1
  <2>1. q = << >> /\ Len(q) = 0
    BY <1>3, EmptySeq
  <2>2. fifo' \in Seq(FilePlace) /\ Len(fifo') = 0
    BY <1>2, <1>16, <2>1, RestOfSeq
  <2> QED
    BY <2>2, EmptySeq
<1>18. Agree(current_block', tape_header', tape_header_size', tape_bit', fifo')
  BY <1>1, <1>16
<1>19. ASSUME tape_file.name = NoFile
       PROVE  fifo' = << >> /\ tape_header' = << >> /\ Exhausted(current_block')
  <2>1. fifo = << >> /\ tape_header = << >> /\ Exhausted(current_block)
    BY <1>19 DEF AgreeInv, ReaderPlace
  <2>2. tape_header_size \in Nat /\ Len(fifo) = 0 /\ Len(tape_header) = 0
        /\ SubSeq(fifo, 1, 0) = << >> /\ tape_header \o << >> = << >>
    BY <2>1, EmptySeq, ByteIsNat DEF IInv, DecoderOK
  <2>3. ASSUME NEW hs \in Awaited
        PROVE  Took(hs) = 0 /\ Got(hs) = << >> /\ Rest(hs) = << >> /\ hs \in Nat
    <3>1. hs = tape_header_size
      BY <2>1, <2>3 DEF Awaited
    <3>2. Took(hs) = 0
      BY <2>2, <3>1 DEF Took, Lower
    <3> QED
      BY <2>1, <2>2, <3>1, <3>2 DEF Got, Rest
  <2>4. b = current_block /\ d.header = << >> /\ q = << >>
    <3>1. PICK hs \in Awaited :
            \/ hs # 0 /\ Len(Got(hs)) = hs
            \/ d = [block |-> current_block, header |-> Got(hs), hs |-> hs,
                    bit |-> tape_bit, fifo |-> Rest(hs),
                    started |-> started /\ ~finished, finished |-> FALSE]
      BY <2>1, GatheredCases
    <3> QED
      BY <2>2, <2>3, <3>1, EmptySeq
  <2>5. NothingToSend(d) /\ ~InData(d, SkipData)
    BY <1>1, <1>2, <2>1, <2>4
       DEF SendPilot, SendSync, SendHalfBit, SendSequencePulse, SendPause, InData, Exhausted
  <2>6. c = [b EXCEPT !.size = @ - 0] /\ fifo' = SubSeq(q, 0 + 1, Len(q))
    BY <2>5 DEF NothingToSend
  <2>7. c = b
    BY <1>2, <2>6 DEF BlockType
  <2> QED
    BY <1>1, <1>7, <2>1, <2>4, <2>6, <2>7
<1> QED
  BY <1>17, <1>18, <1>19, ReaderRests DEF FillBuffer

-----------------------------------------------------------------------------
(* The reader. *)

(* The user selects one tape and lets it play, and the card does not fail. *)
Undisturbed == ~StopAllowed /\ ~CardMayFail /\ \A f \in Files : WellFormed(f)

LEMMA AgreeInitially == Init => AgreeInv
<1> SUFFICES ASSUME Init
             PROVE  AgreeInv
  OBVIOUS
<1>1. ~Copying /\ Exhausted(current_block)
  BY DEF Init, Copying, Exhausted, NoBlock
<1>2. Len(header) = 0 /\ Len(fifo) = 0 /\ Len(loops) = 0
  BY EmptySeq DEF Init
<1>3. ReaderPlace
  BY <1>1, <1>2 DEF Init, ReaderPlace
<1>4. FifoRuns(fifo)
  BY <1>2 DEF Init, FifoRuns
<1>5. DecoderPlace(current_block, tape_header, tape_header_size, tape_bit)
  BY <1>1 DEF Init, DecoderPlace
<1>6. Meets(current_block, tape_header, tape_bit, fifo)
  BY <1>1 DEF Init, Meets, AtBoundary
<1> QED
  BY <1>3, <1>4, <1>5, <1>6 DEF Init, AgreeInv, Agree

(* Before a file is opened nothing is in flight.                           *)
LEMMA NothingInFlight ==
  ASSUME IInv, AgreeInv, tape_file.name = NoFile
  PROVE  /\ fifo = << >> /\ tape_header = << >> /\ Exhausted(current_block)
         /\ ~Copying /\ header = << >> /\ data_size = 0
<1>1. data_size \in Nat
  BY DEF IInv, ReaderOK
<1> QED
  BY <1>1 DEF AgreeInv, ReaderPlace, Copying

(* With nothing in flight the decoder is where any tape can start.         *)
LEMMA NothingToAgreeOn ==
  ASSUME AgreeInv, UNCHANGED decoderVars,
         fifo' = << >>, tape_header = << >>, Exhausted(current_block), ~Copying'
  PROVE  Agree(current_block, tape_header, tape_header_size, tape_bit, fifo)'
<1>1. Len(fifo') = 0
  BY EmptySeq
<1>2. UNCHANGED <<current_block, tape_header, tape_header_size, tape_bit>>
  BY DEF decoderVars
<1>3. FifoRuns(fifo)'
  BY <1>1 DEF FifoRuns
<1>4. DecoderPlace(current_block, tape_header, tape_header_size, tape_bit)'
  BY <1>2 DEF AgreeInv, Agree, DecoderPlace, Exhausted
<1>5. Meets(current_block, tape_header, tape_bit, fifo)'
  BY <1>2 DEF Meets, AtBoundary, Exhausted
<1> QED
  BY <1>3, <1>4, <1>5 DEF Agree

(* The reader moves on between two blocks.                                 *)
LEMMA ReaderMoves ==
  ASSUME AgreeInv, UNCHANGED <<path, fifo, decoderVars>>, ~started' => fifo' = << >>,
         ~Copying, ~Copying', ReaderPlace'
  PROVE  AgreeInv'
<1>1. UNCHANGED <<path, fifo, current_block, tape_header, tape_header_size, tape_bit>>
  BY DEF decoderVars
<1>2. FifoRuns(fifo)'
  BY <1>1 DEF AgreeInv, Agree, FifoRuns
<1>3. DecoderPlace(current_block, tape_header, tape_header_size, tape_bit)'
  BY <1>1 DEF AgreeInv, Agree, DecoderPlace, Exhausted
<1>4. Meets(current_block, tape_header, tape_bit, fifo)'
  BY <1>1 DEF AgreeInv, Agree, Meets, Wants, AtBoundary, Left, Exhausted
<1> QED
  BY <1>1, <1>2, <1>3, <1>4 DEF AgreeInv, Agree

(* Nothing of what has to agree changes.                                   *)
LEMMA NothingMoves ==
  ASSUME AgreeInv, UNCHANGED <<path, fifo, readerVars, decoderVars>>,
         started' = started \/ fifo = << >>
  PROVE  AgreeInv'
<1>1. UNCHANGED <<current_block, tape_header, tape_header_size, tape_bit>>
  BY DEF decoderVars
<1>2. Agree(current_block', tape_header', tape_header_size', tape_bit', fifo')
  BY <1>1 DEF AgreeInv
<1>3. tape_file.name = NoFile =>
        fifo' = << >> /\ tape_header' = << >> /\ Exhausted(current_block')
  BY <1>1 DEF AgreeInv, ReaderPlace
<1> QED
  BY <1>2, <1>3, ReaderRests DEF AgreeInv

LEMMA KeysFollow ==
  ASSUME Undisturbed, IInv, AgreeInv, Keys, SelectsOnce
  PROVE  AgreeInv'
<1>1. ASSUME NEW f \in Files, zx_tape_select_file(f)
      PROVE  AgreeInv'
  <2>1. UNCHANGED <<started, fifo, readerVars, decoderVars>>
    BY <1>1 DEF zx_tape_select_file
  <2>2. CASE path' = path
    BY <2>1, <2>2, NothingMoves
  <2>3. CASE path' # path
    <3>1. path = NoFile
      BY <2>3 DEF SelectsOnce
    <3>2. tape_file.name = NoFile
      BY <3>1, Opened DEF AgreeInv
    <3>3. /\ fifo = << >> /\ tape_header = << >> /\ Exhausted(current_block)
          /\ ~Copying /\ header = << >>
      BY <3>2, NothingInFlight
    <3>4. UNCHANGED <<tape_file, tzx, header, data_size, loops, current_block, tape_header>>
      BY <2>1 DEF readerVars, decoderVars
    <3>5. ~Copying'
      BY <3>3, <3>4 DEF Copying
    <3>6. ReaderPlace'
      <4>1. Len(header) = 0 /\ tape_file.err = FALSE
        BY <3>3, EmptySeq DEF AgreeInv, ReaderPlace
      <4>2. Exhausted(current_block)'
        BY <3>3, <3>4 DEF Exhausted
      <4> QED
        BY <2>1, <3>2, <3>3, <3>4, <3>5, <4>1, <4>2 DEF ReaderPlace
    <3> QED
      BY <2>1, <3>3, <3>5, <3>6, NothingToAgreeOn DEF AgreeInv
  <2> QED
    BY <2>2, <2>3
<1>2. CASE zx_tape_start
  <2>1. fifo = << >> /\ fifo' = << >> /\ UNCHANGED <<path, readerVars, decoderVars>>
    BY <1>2 DEF zx_tape_start, AgreeInv
  <2> QED
    BY <2>1, NothingMoves
<1>3. ~zx_tape_stop
  BY DEF Undisturbed, zx_tape_stop
<1> QED
  BY <1>1, <1>2, <1>3 DEF Keys

(* A byte of the block being copied is queued: the one at NextAt.          *)
LEMMA QueueingAgrees ==
  ASSUME Undisturbed, IInv, AgreeInv, Copying,
         NEW s \in Starts[path], Copies(s),
         fifo' = Append(fifo, ByteAt(path, NextAt)), NextAt' = NextAt + 1, NextAt \in Nat,
         NextAt + 1 <= BlockEnd(path, s),
         Copying' <=> NextAt + 1 < BlockEnd(path, s),
         UNCHANGED <<path, started, decoderVars>>, started
  PROVE  Agree(current_block, tape_header, tape_header_size, tape_bit, fifo)'
<1> DEFINE q == fifo
           k == Len(q)
           x == ByteAt(path, NextAt)
           r == Append(q, x)
           e == BlockEnd(path, s)
<1>1. path \in Files /\ WellFormed(path) /\ s < FileSize(path) /\ s <= NextAt
  BY Opened DEF AgreeInv, ReaderPlace, Copies, Undisturbed
<1>2. /\ s \in Nat /\ e \in Nat /\ e \in Starts[path]
      /\ \A y \in Starts[path] : y \in Nat /\ (y <= s \/ y >= e)
  BY <1>1, Layout, StartsAssumption
<1>3. q \in Seq(FilePlace) /\ k \in Nat /\ FifoRuns(q)
  BY LenProperties DEF IInv, FifoOK, AgreeInv, Agree
<1>4. \A i \in 1 .. k : q[i].at \in Nat /\ q[i].file = path
  <2>1. \A i \in 1 .. k : q[i] \in FilePlace
    BY <1>3, ElementOfSeq
  <2> QED
    BY <1>3, <2>1 DEF FifoRuns, FilePlace, TapeByte
<1>5. /\ Len(r) = k + 1 /\ r # << >>
      /\ r[k + 1] = x /\ \A i \in 1 .. k : r[i] = q[i]
  <2>1. x \in {x} \cup FilePlace /\ q \in Seq({x} \cup FilePlace)
    BY <1>3
  <2>2. Len(r) = k + 1 /\ r[k + 1] = x /\ \A i \in 1 .. k : r[i] = q[i]
    BY <1>3, <2>1, AppendProperties
  <2> QED
    BY <1>3, <2>2, EmptySeq
<1>6. x.at = NextAt /\ x.file = path
  BY DEF ByteAt
<1>7. k = 0 <=> q = << >>
  BY <1>3, EmptySeq
<1>8. k > 0 => IF q[k].at + 1 \in Starts[path] THEN NextAt \in Starts[path]
               ELSE NextAt = q[k].at + 1
  BY <1>3, <1>7 DEF FifoRuns
<1> HIDE DEF q, k, x, r, e
<1>9. \A i \in 1 .. Len(r) : r[i].file = path /\ r[i].at \in Nat
  <2> SUFFICES ASSUME NEW i \in 1 .. Len(r)
               PROVE  r[i].file = path /\ r[i].at \in Nat
    OBVIOUS
  <2>1. i \in 1 .. k \/ i = k + 1
    BY <1>3, <1>5
  <2> QED
    BY <1>4, <1>5, <1>6, <2>1
<1>10. ASSUME NEW i \in 1 .. Len(r), NEW j \in 1 .. Len(r), i <= j,
              \A y \in Starts[path] : y <= r[i].at \/ y > r[i].at + (j - i)
       PROVE  r[j].at = r[i].at + (j - i)
  <2>1. /\ i \in 1 .. k \/ i = k + 1
        /\ j \in 1 .. k \/ j = k + 1
        /\ i \in Nat /\ j \in Nat /\ r[i].at \in Nat
    BY <1>3, <1>5, <1>9
  <2>2. CASE j \in 1 .. k
    <3>1. i \in 1 .. k
      BY <1>3, <1>10, <2>1, <2>2
    <3>2. r[i] = q[i] /\ r[j] = q[j]
      BY <1>5, <2>2, <3>1
    <3> QED
      BY <1>3, <1>10, <2>2, <3>1, <3>2 DEF FifoRuns, k
  <2>3. CASE i = j
    BY <2>1, <2>3
  <2>4. CASE j = k + 1 /\ i # j
    <3>1. i \in 1 .. k /\ k \in 1 .. k /\ k > 0 /\ i <= k /\ j - i = (k - i) + 1
      BY <1>3, <2>1, <2>4
    <3>2. r[i] = q[i] /\ r[j] = x /\ q[i].at \in Nat
      BY <1>4, <1>5, <2>4, <3>1
    <3>3. \A y \in Starts[path] : y <= q[i].at \/ y > q[i].at + (k - i)
      <4> TAKE y \in Starts[path]
      <4>1. y \in Nat /\ (y <= q[i].at \/ y > q[i].at + (j - i))
        BY <1>2, <1>10, <3>2
      <4> DEFINE a == q[i].at
      <4>2. a \in Nat /\ i \in Nat /\ k \in Nat /\ j = k + 1
        BY <1>3, <2>1, <2>4, <3>2
      <4> HIDE DEF a
      <4> QED
        BY <4>1, <4>2 DEF a
    <3>4. q[k].at = q[i].at + (k - i)
      BY <1>3, <3>1, <3>3 DEF FifoRuns, k
    <3>5. q[k].at + 1 = q[i].at + (j - i)
      BY <1>3, <2>1, <3>1, <3>2, <3>4
    <3>6. q[k].at + 1 \notin Starts[path]
      <4>1. \A y \in Starts[path] : y \in Nat /\ (y <= q[i].at \/ y > q[i].at + (j - i))
        BY <1>2, <1>10, <3>2
      <4> DEFINE a == q[i].at
                 b == q[k].at + 1
      <4>2. a \in Nat /\ i \in Nat /\ k \in Nat /\ j = k + 1 /\ i <= k /\ b = a + (j - i)
        BY <1>3, <2>1, <2>4, <3>1, <3>2, <3>5
      <4>3. \A y \in Starts[path] : y <= a \/ y > a + (j - i)
        BY <4>1
      <4> HIDE DEF a, b
      <4>4. ~(b <= a \/ b > a + (j - i))
        BY <4>2
      <4>5. b \notin Starts[path]
        BY <4>3, <4>4
      <4> QED
        BY <4>5 DEF b
    <3> QED
      BY <1>6, <1>8, <3>1, <3>2, <3>5, <3>6
  <2> QED
    BY <2>1, <2>2, <2>3, <2>4
<1>11. ASSUME NEW i \in 1 .. Len(r) - 1, r[i].at + 1 \in Starts[path]
       PROVE  r[i + 1].at \in Starts[path]
  <2>1. i \in 1 .. k /\ r[i] = q[i] /\ i \in Nat /\ (i = k \/ i \in 1 .. k - 1)
    BY <1>3, <1>5
  <2>2. CASE i = k
    <3>1. r[i + 1] = x /\ k > 0
      BY <1>5, <2>1, <2>2
    <3> QED
      BY <1>6, <1>8, <1>11, <2>1, <2>2, <3>1
  <2>3. CASE i \in 1 .. k - 1
    <3>1. i + 1 \in 1 .. k
      BY <1>3, <2>3
    <3>2. r[i + 1] = q[i + 1]
      BY <1>5, <3>1
    <3> QED
      BY <1>3, <1>11, <2>1, <2>3, <3>2 DEF FifoRuns, k
  <2> QED
    BY <2>1, <2>2, <2>3
<1>12. fifo' = r /\ path' = path
  BY DEF r, q, x
<1>13. FifoRuns(fifo)'
  <2>1. r[Len(r)].at + 1 = NextAt + 1
    BY <1>5, <1>6
  <2>2. IF Copying'
        THEN IF NextAt + 1 \in Starts[path] THEN NextAt' \in Starts[path] ELSE NextAt' = NextAt + 1
        ELSE NextAt + 1 \in Starts[path]
    <3>1. ~Copying' => NextAt + 1 = e
      BY <1>2 DEF e
    <3> QED
      BY <1>2, <3>1
  <2> QED
    BY <1>5, <1>9, <1>10, <1>11, <1>12, <2>1, <2>2 DEF FifoRuns
<1>14. UNCHANGED <<current_block, tape_header, tape_header_size, tape_bit>>
  BY DEF decoderVars
<1>15. DecoderPlace(current_block, tape_header, tape_header_size, tape_bit)'
  BY <1>12, <1>14 DEF AgreeInv, Agree, DecoderPlace, Exhausted
<1>16. Meets(current_block, tape_header, tape_bit, fifo)'
  <2>1. Wants(current_block, tape_header, tape_bit, r[1])
    <3>1. Meets(current_block, tape_header, tape_bit, q)
      BY DEF AgreeInv, Agree, q
    <3>2. CASE q = << >>
      <4>1. r[1] = x
        BY <1>5, <1>7, <3>2
      <4> QED
        BY <3>1, <3>2, <4>1 DEF Meets, x
    <3>3. CASE q # << >>
      <4>1. 1 \in 1 .. k
        BY <1>3, <1>7, <3>3
      <4>2. r[1] = q[1]
        BY <1>5, <4>1
      <4> QED
        BY <3>1, <3>3, <4>2 DEF Meets
    <3> QED
      BY <3>2, <3>3
  <2> QED
    BY <1>5, <1>12, <1>14, <2>1 DEF Meets, Wants, AtBoundary, Left, Exhausted
<1> QED
  BY <1>13, <1>15, <1>16 DEF Agree

(* The bytes of a header or of the data are queued.                        *)
LEMMA QueueFollows ==
  ASSUME Undisturbed, IInv, AgreeInv, QueueHeaderByte \/ QueueDataByte
  PROVE  AgreeInv'
<1>1. /\ Copying /\ started
      /\ UNCHANGED <<path, started, tzx, loops, decoderVars>>
  BY DEF QueueHeaderByte, QueueDataByte, Filling, Copying
<1>2. path \in Files /\ tape_file.name = path /\ tape_file.name # NoFile
  <2>1. tape_file.name # NoFile
    BY <1>1, NothingInFlight
  <2> QED
    BY <2>1, Opened DEF AgreeInv
<1>3. PICK s \in Starts[path] : Copies(s)
  BY <1>1, <1>2 DEF AgreeInv, ReaderPlace
<1> DEFINE e == BlockEnd(path, s)
<1>4. /\ tape_file \in [name : Files \cup {NoFile}, fptr : Nat, err : BOOLEAN]
      /\ tape_file.fptr \in Nat /\ data_size \in Nat /\ header \in Seq(FilePlace)
      /\ Len(header) \in Nat /\ (header = << >> <=> Len(header) = 0)
  BY LenProperties, EmptySeq DEF IInv, ReaderOK
<1>5. s \in Nat /\ e \in Nat /\ e = tape_file.fptr + data_size /\ s <= NextAt
  BY <1>2, <1>3, Layout DEF Copies, Undisturbed
<1>6. \A i \in 1 .. Len(header) : header[i] = ByteAt(path, NextAt + i - 1)
  BY DEF AgreeInv, ReaderPlace
<1>7. NextAt \in Int /\ NextAt \in Nat /\ NextAt = tape_file.fptr - Len(header)
  BY <1>4, <1>5 DEF NextAt
<1> HIDE DEF e
<1>8. /\ fifo' = Append(fifo, ByteAt(path, NextAt))
      /\ NextAt' = NextAt + 1
      /\ tape_file'.fptr + data_size' = e
      /\ Copying' <=> NextAt + 1 < e
      /\ NextAt + 1 <= e
      /\ tape_file'.name = path /\ tape_file'.err = tape_file.err
      /\ header' # << >> => header # << >> /\ tape_file' = tape_file
      /\ \A i \in 1 .. Len(header') : header'[i] = ByteAt(path, NextAt' + i - 1)
  <2>1. CASE QueueHeaderByte
    <3>1. /\ header # << >> /\ fifo' = Append(fifo, Head(header)) /\ header' = Tail(header)
          /\ UNCHANGED <<tape_file, data_size>>
      BY <2>1 DEF QueueHeaderByte
    <3>2. /\ Head(header) = header[1] /\ Len(header') = Len(header) - 1
          /\ header' \in Seq(FilePlace)
          /\ \A i \in 1 .. Len(header') : header'[i] = header[i + 1]
      BY <1>4, <3>1, HeadTailProperties
    <3>3. header' = << >> <=> Len(header') = 0
      BY <3>2, EmptySeq
    <3>4. Len(header) > 0 /\ 1 \in 1 .. Len(header) /\ NextAt + 1 - 1 = NextAt
      BY <1>4, <1>7, <3>1
    <3>5. Head(header) = ByteAt(path, NextAt)
      BY <1>6, <3>2, <3>4
    <3>6. NextAt' = tape_file.fptr - (Len(header) - 1) /\ NextAt' = NextAt + 1
      BY <1>4, <1>7, <3>1, <3>2 DEF NextAt
    <3>7. Copying' <=> Len(header) - 1 # 0 \/ data_size > 0
      BY <3>1, <3>2, <3>3 DEF Copying
    <3>8. (Copying' <=> NextAt + 1 < e) /\ NextAt + 1 <= e
      <4> DEFINE m == Len(header)
                 p == tape_file.fptr
                 n == NextAt
      <4>1. m \in Nat /\ m > 0 /\ p \in Nat /\ n = p - m /\ e = p + data_size /\ data_size \in Nat
        BY <1>4, <1>5, <1>7, <3>4
      <4> HIDE DEF m, p, n
      <4>2. (m - 1 # 0 \/ data_size > 0 <=> n + 1 < e) /\ n + 1 <= e
        BY <4>1
      <4> QED
        BY <3>7, <4>2 DEF m, n
    <3>9. \A i \in 1 .. Len(header') : header'[i] = ByteAt(path, NextAt' + i - 1)
      <4> TAKE i \in 1 .. Len(header')
      <4>1. i + 1 \in 1 .. Len(header) /\ NextAt + (i + 1) - 1 = NextAt' + i - 1
        BY <1>4, <1>7, <3>2, <3>6
      <4> QED
        BY <1>6, <3>2, <4>1
    <3> QED
      BY <1>2, <1>5, <3>1, <3>5, <3>6, <3>8, <3>9 DEF e
  <2>2. CASE QueueDataByte
    <3>1. /\ header = << >> /\ data_size > 0 /\ header' = header
          /\ fifo' = Append(fifo, ByteAt(path, tape_file.fptr))
          /\ tape_file' = [tape_file EXCEPT !.fptr = @ + 1]
          /\ data_size' = data_size - 1
      BY <1>2, <2>2 DEF QueueDataByte
    <3>2. Len(header) = 0 /\ NextAt = tape_file.fptr
      BY <1>4, <1>7, <3>1
    <3>3. /\ tape_file'.fptr = tape_file.fptr + 1 /\ tape_file'.name = path
          /\ tape_file'.err = tape_file.err
      BY <1>2, <1>4, <3>1
    <3>4. NextAt' = NextAt + 1
      BY <1>4, <3>1, <3>2, <3>3 DEF NextAt
    <3>5. Copying' <=> data_size - 1 > 0
      BY <3>1 DEF Copying
    <3>6. (Copying' <=> NextAt + 1 < e) /\ NextAt + 1 <= e /\ tape_file'.fptr + data_size' = e
      BY <1>4, <1>5, <3>1, <3>2, <3>3, <3>5
    <3> QED
      BY <3>1, <3>2, <3>3, <3>4, <3>6
  <2> QED
    BY <2>1, <2>2
<1>9. Agree(current_block, tape_header, tape_header_size, tape_bit, fifo)'
  BY <1>1, <1>3, <1>7, <1>8, QueueingAgrees DEF e
<1>10. ReaderPlace'
  <2>1. Copies(s)'
    <3>1. s <= NextAt'
      BY <1>5, <1>7, <1>8
    <3> QED
      BY <1>1, <1>3, <1>8, <3>1 DEF Copies, e
  <2>2. ~Copying' => tape_file'.fptr \in Starts[path]
    <3> SUFFICES ASSUME ~Copying'
                 PROVE  tape_file'.fptr \in Starts[path]
      OBVIOUS
    <3>1. e \in Starts[path]
      BY <1>2, <1>3, Layout DEF e, Copies, Undisturbed
    <3>2. NextAt' = e /\ header' = << >>
      BY <1>5, <1>7, <1>8 DEF Copying
    <3>3. tape_file'.fptr = e
      <4>1. Len(header') = 0 /\ tape_file'.fptr \in Nat
        BY <1>4, <3>2, EmptySeq DEF QueueHeaderByte, QueueDataByte
      <4> QED
        BY <3>2, <4>1 DEF NextAt
    <3> QED
      BY <3>1, <3>3
  <2> QED
    BY <1>1, <1>2, <1>8, <2>1, <2>2 DEF AgreeInv, ReaderPlace
<1> QED
  BY <1>1, <1>9, <1>10 DEF AgreeInv

(* The loop that fills the FIFO ends.                                      *)
LEMMA FillingEnds ==
  ASSUME Undisturbed, IInv, AgreeInv, FillEnds \/ DataByteFails \/ NoMoreBlocks
  PROVE  AgreeInv'
<1>1. tape_file.fptr \in Nat /\ FileSize(tape_file.name) \in Nat /\ tape_file.err = FALSE
      /\ data_size \in Nat
  BY SizesAreNat DEF IInv, ReaderOK, AgreeInv, ReaderPlace
<1>2. CASE FillEnds
  BY <1>2, NothingMoves DEF FillEnds
<1>3. ~DataByteFails
  <2> SUFFICES ASSUME header = << >>, data_size > 0, ReadFails
               PROVE  FALSE
    BY DEF DataByteFails
  <2>1. AtEnd
    BY <1>1 DEF ReadFails, Undisturbed
  <2>2. Copying /\ tape_file.name # NoFile
    BY NothingInFlight DEF Copying
  <2>3. path \in Files /\ tape_file.name = path
    BY <2>2, Opened DEF AgreeInv
  <2>4. PICK s \in Starts[path] : Copies(s)
    BY <2>2 DEF AgreeInv, ReaderPlace
  <2>5. BlockEnd(path, s) <= FileSize(path) /\ tape_file.fptr + data_size = BlockEnd(path, s)
    BY <2>3, <2>4, Layout DEF Copies, Undisturbed
  <2> QED
    BY <1>1, <2>1, <2>3, <2>5 DEF AtEnd
<1>4. CASE NoMoreBlocks
  <2>1. /\ header = << >> /\ data_size = 0
        /\ UNCHANGED <<path, started, fifo, tzx, header, data_size, loops, decoderVars>>
    BY <1>4 DEF NoMoreBlocks
  <2>2. tape_file' = tape_file
    <3>1. CASE ReadFails
      BY <1>1, <3>1 DEF ReadFails, Undisturbed
    <3>2. ASSUME ~AtEnd,
                 NEW hs \in HeaderSizes(tzx, Value(ByteAt(tape_file.name, tape_file.fptr))),
                 tape_file.fptr + hs > FileSize(tape_file.name)
          PROVE  FALSE
      <4>1. tape_file.name # NoFile /\ ~Copying
        BY <1>1, <2>1, <3>2 DEF AtEnd, FileSize, Copying
      <4>2. path \in Files /\ tape_file.name = path
        BY <4>1, Opened DEF AgreeInv
      <4>3. tape_file.fptr \in Starts[path] /\ tape_file.fptr < FileSize(path)
            /\ tzx = HasTzxSignature(path)
        BY <1>1, <3>2, <4>1, <4>2 DEF AtEnd, AgreeInv, ReaderPlace
      <4>4. /\ HeaderSizes(tzx, Value(ByteAt(path, tape_file.fptr)))
                 = {HeaderLength(path, tape_file.fptr)}
            /\ tape_file.fptr + HeaderLength(path, tape_file.fptr) <= FileSize(path)
            /\ HeaderLength(path, tape_file.fptr) \in 1 .. 255
        BY <4>2, <4>3, Layout DEF Undisturbed
      <4>5. hs = HeaderLength(path, tape_file.fptr)
        BY <3>2, <4>2, <4>4
      <4> QED
        BY <1>1, <3>2, <4>2, <4>4, <4>5
    <3> QED
      BY <1>4, <3>1, <3>2 DEF NoMoreBlocks
  <2> QED
    BY <2>1, <2>2, NothingMoves DEF readerVars
<1> QED
  BY <1>2, <1>3, <1>4

(* A file that has been read to its end is opened again.                   *)
LEMMA OpeningFollows ==
  ASSUME Undisturbed, IInv, AgreeInv, EnterRoutine
  PROVE  AgreeInv'
<1>1. UNCHANGED <<path, fifo, decoderVars>>
  BY DEF EnterRoutine
<1>2. CASE UNCHANGED <<started, readerVars>>
  BY <1>1, <1>2, NothingMoves
<1>3. ASSUME OpenFails
      PROVE  AgreeInv'
  <2>1. path = NoFile /\ UNCHANGED readerVars
    BY <1>3 DEF OpenFails, Undisturbed
  <2>2. tape_file.name = NoFile
    BY <2>1, Opened DEF AgreeInv
  <2> QED
    BY <1>1, <2>1, <2>2, NothingInFlight, NothingMoves
<1>4. ASSUME OpenFile, tape_file.fptr = FileSize(tape_file.name)
      PROVE  AgreeInv'
  <2>1. /\ path # NoFile /\ path \in Files
        /\ tzx' = HasTzxSignature(path)
        /\ tape_file' = [name |-> path, fptr |-> IF tzx' THEN 10 ELSE 0, err |-> FALSE]
        /\ header' = << >> /\ data_size' = 0 /\ loops' = << >> /\ UNCHANGED started
    <3>1. PICK failed \in BOOLEAN :
            /\ failed => CardMayFail /\ FileSize(path) >= 10
            /\ tzx' = (HasTzxSignature(path) /\ ~failed)
            /\ tape_file' = [name |-> path, fptr |-> IF tzx' THEN 10 ELSE 0, err |-> failed]
      BY <1>4 DEF OpenFile
    <3>2. failed = FALSE
      BY <3>1 DEF Undisturbed
    <3>3. HasTzxSignature(path) \in BOOLEAN
      BY DEF HasTzxSignature
    <3>4. tzx' = HasTzxSignature(path)
      BY <3>1, <3>2, <3>3
    <3> QED
      BY <1>4, <3>1, <3>2, <3>4 DEF OpenFile, IInv, ControlOK
  <2>2. tape_file'.name = path /\ tape_file'.err = FALSE /\ tape_file'.fptr = First(path)
    BY <2>1 DEF First
  <2>3. First(path) \in Starts[path]
    BY <2>1 DEF Undisturbed, WellFormed
  <2>4. ~Copying'
    BY <2>1 DEF Copying
  <2>5. ReaderPlace'
    <3>1. Len(header') = 0 /\ Len(loops') = 0
      BY <2>1, EmptySeq
    <3> QED
      BY <1>1, <2>1, <2>2, <2>3, <2>4, <3>1 DEF ReaderPlace
  <2>6. ~Copying
    <3>1. CASE tape_file.name = NoFile
      BY <3>1, NothingInFlight
    <3>2. CASE tape_file.name # NoFile
      <4>1. tape_file.name = path
        BY <3>2 DEF AgreeInv, ReaderPlace
      <4> SUFFICES ASSUME Copying
                   PROVE  FALSE
        OBVIOUS
      <4>2. PICK s \in Starts[path] : Copies(s)
        BY <3>2 DEF AgreeInv, ReaderPlace
      <4> DEFINE hl == HeaderLength(path, s)
                 z == BlockAt(path, s).size
                 e == BlockEnd(path, s)
      <4>3. /\ e <= FileSize(path) /\ e = s + hl + z /\ z \in Nat /\ s \in Nat /\ e \in Nat
            /\ e = FileSize(path) => z > 0
            /\ e = tape_file.fptr + data_size
            /\ header # << >> => tape_file.fptr = s + hl
        BY <2>1, <4>2, Layout DEF Copies, Undisturbed
      <4>4. hl \in 1 .. 255 /\ FileSize(path) \in Nat /\ data_size \in Nat
        BY <2>1, <4>2, Layout, SizesAreNat DEF Copies, Undisturbed, IInv, ReaderOK
      <4>5. header # << >> \/ data_size > 0
        BY DEF Copying
      <4> HIDE DEF hl, z, e
      <4>6. data_size = 0 /\ e = FileSize(path)
        BY <1>4, <4>1, <4>3, <4>4
      <4> QED
        BY <1>4, <4>1, <4>3, <4>4, <4>5, <4>6
    <3> QED
      BY <3>1, <3>2
  <2> QED
    BY <1>1, <2>1, <2>4, <2>5, <2>6, ReaderMoves DEF AgreeInv
<1> QED
  BY <1>2, <1>3, <1>4 DEF EnterRoutine

(* The ends of a loop have no data.                                        *)
LEMMA LoopsHaveNoData ==
  ASSUME NEW isTzx \in BOOLEAN, NEW h \in Seq(FilePlace), Len(h) >= 1,
         ~Playable(Parse(isTzx, h)), LoopStart(h) \/ LoopEnd(h)
  PROVE  Parse(isTzx, h).size = 0
<1>1. At(h, 1) = 36 \/ At(h, 1) = 37
  BY DEF At, LoopStart, LoopEnd
<1>2. CASE ~isTzx
  <2>1. Parse(isTzx, h).pilot = PilotPulses
    BY <1>2, SMT DEF Parse, Block
  <2> QED
    BY <2>1, PulseAssumption DEF Playable
<1>3. CASE isTzx
  BY <1>1, <1>3, SMT DEF Parse, Block
<1> QED
  BY <1>2, <1>3

(* A block header is read.                                                 *)
LEMMA ReadBlockFollows ==
  ASSUME Undisturbed, IInv, AgreeInv, ReadBlock
  PROVE  AgreeInv'
<1>1. /\ started /\ header = << >> /\ data_size = 0 /\ ~AtEnd
      /\ UNCHANGED <<path, started, fifo, tzx, decoderVars>>
  BY DEF ReadBlock, Filling
<1>2. ~Copying
  BY <1>1 DEF Copying
<1>0. PICK s \in Nat : s = tape_file.fptr
  BY DEF IInv, ReaderOK
<1>3. /\ s \in Nat /\ FileSize(tape_file.name) \in Nat /\ s < FileSize(tape_file.name)
      /\ tape_file \in [name : Files \cup {NoFile}, fptr : Nat, err : BOOLEAN]
      /\ loops \in Seq(LoopType) /\ tzx \in BOOLEAN
  BY <1>0, <1>1, SizesAreNat DEF AtEnd, IInv, ReaderOK, ControlOK, LoopType
<1>4. /\ tape_file.name = path /\ path \in Files /\ tape_file.name # NoFile
      /\ s \in Starts[path] /\ s < FileSize(path) /\ tzx = HasTzxSignature(path)
      /\ \A i \in 1 .. Len(loops) : loops[i].fptr \in Starts[path]
      /\ tape_file.err = FALSE
  <2>1. tape_file.name # NoFile
    BY <1>3 DEF FileSize
  <2>2. path \in Files /\ tape_file.name = path
    BY <2>1, Opened DEF AgreeInv
  <2> QED
    BY <1>0, <1>2, <1>3, <2>1, <2>2 DEF AgreeInv, ReaderPlace
<1> DEFINE hl == HeaderLength(path, s)
           h == HeaderBytes(path, s)
           b == BlockAt(path, s)
           next == s + hl
           e == BlockEnd(path, s)
           end == FileSize(path)
<1>5. /\ hl \in 1 .. 255
      /\ HeaderSizes(tzx, Value(ByteAt(path, s))) = {hl}
      /\ b.size \in Nat /\ e \in Starts[path] /\ e \in Nat /\ e <= end
      /\ next <= end /\ e = next + b.size
  BY <1>4, Layout DEF Undisturbed
<1>5a. hl \in Nat /\ hl > 0 /\ next \in Nat /\ next - hl = s /\ s + hl <= end /\ end \in Nat
  <2>1. \A x \in 1 .. 255 : x \in Nat /\ x > 0
    OBVIOUS
  <2>2. hl \in Nat /\ hl > 0 /\ next = s + hl /\ end \in Nat /\ s + hl <= end
    BY <1>3, <1>4, <1>5, <2>1
  <2> HIDE DEF hl, next, end
  <2> QED
    BY <2>2
<1>6. b = Parse(tzx, h) /\ h = [i \in 1 .. hl |-> ByteAt(path, s + i - 1)]
  BY <1>4 DEF BlockAt, HeaderBytes
<1>7. \/ /\ Playable(b)
         /\ header' = h /\ data_size' = b.size
         /\ tape_file' = [tape_file EXCEPT !.fptr = next]
         /\ UNCHANGED loops
      \/ /\ ~Playable(b)
         /\ \/ PushLoop(h, next)
            \/ RepeatLoop(h, next)
            \/ /\ ~LoopStart(h) /\ ~LoopEnd(h)
               /\ tape_file' = [tape_file EXCEPT !.fptr = Lower(next + b.size, end)]
               /\ UNCHANGED loops
         /\ UNCHANGED <<header, data_size>>
  <2> DEFINE G(f, n) == [i \in 1 .. n |-> ByteAt(f, s + i - 1)]
             Reads(f, g, to) ==
               \/ /\ Playable(Parse(tzx, g))
                  /\ header' = g /\ data_size' = Parse(tzx, g).size
                  /\ tape_file' = [tape_file EXCEPT !.fptr = to]
                  /\ UNCHANGED loops
               \/ /\ ~Playable(Parse(tzx, g))
                  /\ \/ PushLoop(g, to)
                     \/ RepeatLoop(g, to)
                     \/ /\ ~LoopStart(g) /\ ~LoopEnd(g)
                        /\ tape_file' = [tape_file EXCEPT
                                           !.fptr = Lower(to + Parse(tzx, g).size, FileSize(f))]
                        /\ UNCHANGED loops
                  /\ UNCHANGED <<header, data_size>>
  <2>1. PICK hs \in HeaderSizes(tzx, Value(ByteAt(tape_file.name, tape_file.fptr))) :
          Reads(tape_file.name, G(tape_file.name, hs), s + hs)
    BY <1>0, Zenon DEF ReadBlock
  <2> HIDE DEF G, Reads
  <2>2. hs = hl
    BY <1>0, <1>4, <1>5, <2>1
  <2>3. Reads(path, G(path, hl), next)
    BY <1>4, <2>1, <2>2
  <2>4. G(path, hl) = h
    BY <1>6 DEF G
  <2> HIDE DEF h, b, hl
  <2> QED
    BY <1>6, <2>3, <2>4 DEF Reads
<1>8. /\ \A i \in 1 .. hl : ByteAt(path, s + i - 1) \in FilePlace
      /\ h \in Seq(FilePlace) /\ Len(h) = hl /\ h # << >>
      /\ \A i \in 1 .. hl : h[i] = ByteAt(path, s + i - 1)
  <2> DEFINE byte(i) == ByteAt(path, s + i - 1)
  <2>1. \A i \in 1 .. hl : byte(i) \in FilePlace
    <3> TAKE i \in 1 .. hl
    <3>1. s + i - 1 \in Nat /\ s + i - 1 < end /\ path \in Files \cup {NoFile}
      BY <1>3, <1>4, <1>5a
    <3> HIDE DEF hl
    <3> QED
      BY <3>1, PlaceInFile
  <2>2. hl \in Nat /\ hl > 0
    BY <1>5a
  <2> HIDE DEF hl, byte
  <2>3. [i \in 1 .. hl |-> byte(i)] \in Seq(FilePlace) /\ Len([i \in 1 .. hl |-> byte(i)]) = hl
    BY <2>1, <2>2, IsASeq
  <2>4. h = [i \in 1 .. hl |-> byte(i)]
    BY <1>6 DEF byte
  <2> HIDE DEF h
  <2>5. h # << >>
    BY <2>2, <2>3, <2>4, EmptySeq
  <2> QED
    BY <2>1, <2>3, <2>4, <2>5 DEF byte
<1> HIDE DEF hl, h, b, next, e, end
<1>9. UNCHANGED <<current_block, tape_header, tape_header_size, tape_bit>>
  BY <1>1 DEF decoderVars
<1>10. CASE Playable(b)
  <2>1. /\ header' = h /\ data_size' = b.size /\ loops' = loops
        /\ tape_file' = [tape_file EXCEPT !.fptr = next]
    BY <1>7, <1>10
  <2>2. tape_file'.fptr = next /\ tape_file'.name = path /\ tape_file'.err = FALSE
    BY <1>3, <1>4, <2>1
  <2>3. NextAt' = s /\ Copying'
    <3>2. next - hl = s
      BY <1>5a
    <3>3. NextAt' = next - hl
      BY <1>8, <2>1, <2>2 DEF NextAt
    <3> QED
      BY <1>8, <2>1, <3>2, <3>3 DEF Copying
  <2>4. ReaderPlace'
    <3>1. s \in Starts[path] /\ s < FileSize(path) /\ s <= s
      BY <1>3, <1>4
    <3>2. Copies(s)'
      BY <1>1, <1>5, <1>10, <2>1, <2>2, <2>3, <3>1 DEF Copies, b, e, next, hl
    <3>3. \A i \in 1 .. Len(header') : header'[i] = ByteAt(path, NextAt' + i - 1)
      BY <1>8, <2>1, <2>3
    <3> QED
      BY <1>1, <1>4, <2>1, <2>2, <2>3, <3>1, <3>2, <3>3 DEF ReaderPlace
  <2>5. FifoRuns(fifo)'
    <3>1. FifoRuns(fifo) /\ s \in Starts[path]
      BY <1>4 DEF AgreeInv, Agree
    <3> QED
      BY <1>1, <1>2, <2>3, <3>1 DEF FifoRuns
  <2>6. DecoderPlace(current_block, tape_header, tape_header_size, tape_bit)'
    BY <1>1, <1>9 DEF AgreeInv, Agree, DecoderPlace, Exhausted
  <2>7. Meets(current_block, tape_header, tape_bit, fifo)'
    <3>1. Meets(current_block, tape_header, tape_bit, fifo)
      BY DEF AgreeInv, Agree
    <3>2. ByteAt(path, s).at \in Starts[ByteAt(path, s).file]
      BY <1>4 DEF ByteAt
    <3>3. IF fifo # << >> THEN Wants(current_block, tape_header, tape_bit, fifo[1])
          ELSE Wants(current_block, tape_header, tape_bit, ByteAt(path, s))
      BY <1>2, <3>1, <3>2 DEF Meets, Wants
    <3> QED
      BY <1>1, <1>9, <2>3, <3>3 DEF Meets, Wants, AtBoundary, Left, Exhausted
  <2> QED
    BY <1>1, <2>4, <2>5, <2>6, <2>7 DEF AgreeInv, Agree
<1>11. CASE ~Playable(b)
  <2>1. /\ UNCHANGED <<header, data_size>>
        /\ \/ PushLoop(h, next)
           \/ RepeatLoop(h, next)
           \/ /\ tape_file' = [tape_file EXCEPT !.fptr = Lower(next + b.size, end)]
              /\ UNCHANGED loops
    BY <1>7, <1>11
  <2>2. ~Copying'
    BY <1>1, <2>1 DEF Copying
  <2>3. LoopStart(h) \/ LoopEnd(h) => next \in Starts[path] /\ next \in Nat
    <3> SUFFICES ASSUME LoopStart(h) \/ LoopEnd(h)
                 PROVE  next \in Starts[path] /\ next \in Nat
      OBVIOUS
    <3>1. Len(h) >= 1
      BY <1>5, <1>8
    <3>2. b.size = 0
      BY <1>3, <1>6, <1>8, <1>11, <3>1, LoopsHaveNoData
    <3>3. next \in Nat
      BY <1>5a
    <3>4. e = next
      BY <1>5, <3>2, <3>3
    <3> QED
      BY <1>5, <3>4
  <2>4. Lower(next + b.size, end) = e
    BY <1>5 DEF Lower, end
  <2>5. \E p \in Starts[path] : tape_file' = [tape_file EXCEPT !.fptr = p]
    <3>1. CASE PushLoop(h, next)
      BY <2>3, <3>1 DEF PushLoop
    <3>2. CASE RepeatLoop(h, next)
      <4>1. CASE loops = << >>
        BY <2>3, <3>2, <4>1 DEF RepeatLoop
      <4>2. CASE loops # << >>
        <5>1. Len(loops) \in 1 .. Len(loops)
          BY <1>3, <4>2, EmptySeq, LenProperties
        <5> QED
          BY <1>4, <2>3, <3>2, <4>2, <5>1 DEF RepeatLoop
      <4> QED
        BY <4>1, <4>2
    <3>3. CASE tape_file' = [tape_file EXCEPT !.fptr = Lower(next + b.size, end)]
      BY <1>5, <2>4, <3>3
    <3> QED
      BY <2>1, <3>1, <3>2, <3>3
  <2>6. \A i \in 1 .. Len(loops') : loops'[i].fptr \in Starts[path]
    <3>1. CASE PushLoop(h, next)
      <4> DEFINE x == [fptr |-> next, counter |-> Read_word(h, 2)]
      <4>1. CASE Len(loops) < LoopsSize
        <5>1. loops' = Append(loops, x) /\ next \in Starts[path]
          BY <2>3, <3>1, <4>1 DEF PushLoop
        <5>2. loops \in Seq(LoopType \cup {x}) /\ x \in LoopType \cup {x}
          BY <1>3
        <5>3. /\ Len(loops') = Len(loops) + 1 /\ Len(loops) \in Nat
              /\ \A i \in 1 .. Len(loops) : loops'[i] = loops[i]
              /\ loops'[Len(loops) + 1] = x
          <6> HIDE DEF x
          <6> QED
            BY <5>1, <5>2, AppendProperties, LenProperties
        <5>4. \A i \in 1 .. Len(loops') : i \in 1 .. Len(loops) \/ i = Len(loops) + 1
          BY <5>3
        <5> QED
          BY <1>4, <5>1, <5>3, <5>4
      <4>2. CASE ~(Len(loops) < LoopsSize)
        <5>1. loops' = loops
          BY <3>1, <4>2 DEF PushLoop
        <5> QED
          BY <1>4, <5>1
      <4> QED
        BY <4>1, <4>2
    <3>2. CASE RepeatLoop(h, next)
      <4> DEFINE n == Len(loops)
                 top == loops[n]
                 left == IF top.counter > 0 THEN top.counter - 1 ELSE 0
      <4>1. CASE loops = << >>
        <5>1. loops' = loops
          BY <3>2, <4>1 DEF RepeatLoop
        <5> QED
          BY <1>4, <5>1
      <4>2. CASE loops # << >> /\ left > 0
        <5>1. loops' = [loops EXCEPT ![n].counter = left]
          BY <3>2, <4>2 DEF RepeatLoop
        <5>2. n \in Nat /\ n \in 1 .. n /\ DOMAIN loops = 1 .. n
              /\ loops \in [1 .. n -> LoopType]
          BY <1>3, <4>2, EmptySeq, LenProperties
        <5> HIDE DEF left
        <5>3. loops' = [loops EXCEPT ![n] = [loops[n] EXCEPT !.counter = left]]
          BY <5>1
        <5>4. Len(loops') = n
          BY <5>2, <5>3, LenProperties
        <5>5. \A i \in 1 .. n : loops'[i].fptr = loops[i].fptr
          <6>1. \A i \in 1 .. n : loops[i] \in LoopType
            BY <5>2
          <6>2. [loops[n] EXCEPT !.counter = left].fptr = loops[n].fptr
            BY <5>2, <6>1 DEF LoopType
          <6>3. \A i \in 1 .. n : loops'[i] = IF i = n THEN [loops[n] EXCEPT !.counter = left]
                                              ELSE loops[i]
            BY <5>2, <5>3
          <6> QED
            BY <6>2, <6>3
        <5> QED
          BY <1>4, <5>4, <5>5
      <4>3. CASE loops # << >> /\ ~(left > 0)
        <5>1. loops' = SubSeq(loops, 1, n - 1)
          BY <3>2, <4>3 DEF RepeatLoop
        <5>2. n - 1 \in 0 .. n /\ n \in Nat
          BY <1>3, <4>3, EmptySeq, LenProperties
        <5>3. Len(loops') = n - 1 /\ \A i \in 1 .. n - 1 : loops'[i] = loops[i]
          BY <1>3, <5>1, <5>2, FrontOfSeq
        <5>4. \A i \in 1 .. n - 1 : i \in 1 .. n
          BY <5>2
        <5> QED
          BY <1>4, <5>3, <5>4
      <4> QED
        BY <4>1, <4>2, <4>3
    <3>3. CASE loops' = loops
      BY <1>4, <3>3
    <3> QED
      BY <2>1, <3>1, <3>2, <3>3
  <2>7. PICK p \in Starts[path] : tape_file' = [tape_file EXCEPT !.fptr = p]
    BY <2>5
  <2>8. tape_file'.fptr = p /\ tape_file'.name = path /\ tape_file'.err = FALSE
    BY <1>3, <1>4, <2>7
  <2>9. ReaderPlace'
    <3>1. header' = << >> /\ Len(header') = 0
      BY <1>1, <2>1, EmptySeq
    <3> QED
      BY <1>1, <1>4, <2>2, <2>6, <2>8, <3>1 DEF ReaderPlace
  <2> QED
    BY <1>1, <1>2, <2>2, <2>9, ReaderMoves DEF AgreeInv
<1> QED
  BY <1>10, <1>11

-----------------------------------------------------------------------------
LEMMA StepKeepsAgreement ==
  ASSUME Undisturbed, IInv, AgreeInv, [Next /\ SelectsOnce]_vars
  PROVE  AgreeInv'
<1>1. CASE Keys /\ SelectsOnce
  BY <1>1, KeysFollow
<1>2. CASE EnterRoutine
  BY <1>2, OpeningFollows
<1>3. CASE FillLoop
  BY <1>3, FillingEnds, QueueFollows, ReadBlockFollows DEF FillLoop
<1>4. CASE PollPulseFifo \/ PlayPulse
  BY <1>4, NothingMoves DEF PollPulseFifo, PlayPulse
<1>5. CASE FillBuffer
  BY <1>5, DecoderFollows DEF Undisturbed
<1>6. CASE UNCHANGED vars
  BY <1>6, NothingMoves DEF vars
<1> QED
  BY <1>1, <1>2, <1>3, <1>4, <1>5, <1>6 DEF Next, MainLoop

LEMMA AgreementHolds ==
  ASSUME ~StopAllowed, ~CardMayFail, \A f \in Files : WellFormed(f)
  PROVE  OneTape => [](IInv /\ AgreeInv)
<1>1. Undisturbed
  BY DEF Undisturbed
<1>2. Init => IInv /\ AgreeInv
  BY InvariantInitially, AgreeInitially
<1>3. IInv /\ AgreeInv /\ [Next /\ SelectsOnce]_vars => (IInv /\ AgreeInv)'
  <2>1. [Next /\ SelectsOnce]_vars => [Next]_vars
    OBVIOUS
  <2> QED
    BY <1>1, <2>1, StepKeepsInvariant, StepKeepsAgreement
<1> QED
  BY <1>2, <1>3, PTL DEF OneTape

(* zx_tape.c on tapes that keep to their format, selected once, played     *)
(* without a stop and from a card that does not fail: whatever the blocks, *)
(* the loops and the FIFO sizes, the byte at the head of the FIFO is the   *)
(* one the decoder is about to take.                                       *)
THEOREM DecoderIsFed ==
  ASSUME ~StopAllowed, ~CardMayFail, \A f \in Files : WellFormed(f)
  PROVE  OneTape => []ReaderFeedsDecoder
<1>1. AgreeInv => ReaderFeedsDecoder
  BY DEF AgreeInv, Agree, Meets, Wants, AtBoundary, Left, ReaderFeedsDecoder, Due, ToTake
<1> QED
  BY <1>1, AgreementHolds, PTL

(* On such tapes neither of the two ever looks up the size of a header     *)
(* with a byte that is not the code of a block.                            *)
THEOREM CodesAreKnown ==
  ASSUME ~StopAllowed, ~CardMayFail, \A f \in Files : WellFormed(f)
  PROVE  OneTape => []HeaderCodesKnown
<1>1. IInv /\ AgreeInv => HeaderCodesKnown
  <2> SUFFICES ASSUME IInv, AgreeInv
               PROVE  HeaderCodesKnown
    OBVIOUS
  <2>1. ASSUME tape_header # << >>, tzx
        PROVE  KnownCode(Value(tape_header[1]))
    <3>1. tape_file.name # NoFile
      BY <2>1, NothingInFlight
    <3>2. path \in Files /\ tzx = HasTzxSignature(path)
      BY <3>1, Opened DEF AgreeInv, ReaderPlace
    <3> DEFINE s == tape_header[1].at
    <3>3. 1 \in 1 .. Len(tape_header) /\ tape_header[1] \in FilePlace
      <4>1. tape_header \in Seq(FilePlace) /\ Len(tape_header) \in Nat
        BY LenProperties DEF IInv, DecoderOK
      <4>2. 1 \in 1 .. Len(tape_header)
        BY <2>1, <4>1, EmptySeq
      <4> QED
        BY <4>1, <4>2, ElementOfSeq
    <3>4. tape_header[1].file = path /\ s \in Starts[path] /\ s < FileSize(path)
      BY <2>1, <3>3 DEF AgreeInv, Agree, DecoderPlace, FilePlace
    <3>5. tape_header[1] = ByteAt(path, s)
      BY <3>3, <3>4 DEF FilePlace, TapeByte, ByteAt
    <3> QED
      BY <2>1, <3>2, <3>4, <3>5, Layout
  <2>2. ASSUME tzx, header = << >>, data_size = 0, ~AtEnd
        PROVE  KnownCode(Value(ByteAt(tape_file.name, tape_file.fptr)))
    <3>1. tape_file.fptr \in Nat /\ FileSize(tape_file.name) \in Nat
      BY SizesAreNat DEF IInv, ReaderOK
    <3>2. tape_file.name # NoFile /\ ~Copying
      BY <2>2, <3>1 DEF AtEnd, FileSize, Copying
    <3>3. path \in Files /\ tape_file.name = path
      BY <3>2, Opened DEF AgreeInv
    <3>4. tape_file.fptr \in Starts[path] /\ tape_file.fptr < FileSize(path)
          /\ tzx = HasTzxSignature(path)
      <4>1. tape_file.fptr < FileSize(path)
        BY <2>2, <3>1, <3>3 DEF AtEnd
      <4> QED
        BY <3>2, <3>3, <4>1 DEF AgreeInv, ReaderPlace
    <3> QED
      BY <2>2, <3>3, <3>4, Layout
  <2> QED
    BY <2>1, <2>2 DEF HeaderCodesKnown
<1> QED
  BY <1>1, AgreementHolds, PTL
=============================================================================
