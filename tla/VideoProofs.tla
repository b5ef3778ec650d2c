----------------------------- MODULE VideoProofs -----------------------------
(***************************************************************************)
(* That a word of pixels is drawn with the colours of its own scan line    *)
(* and that every frame begins with the first one, at any pace of the      *)
(* driver, the memory and the receiver of the picture, through every flush *)
(* and every change of the scaling factor: for any number of scan lines,   *)
(* any burst, FIFOs of any size and all factors the repeaters can count.   *)
(***************************************************************************)
EXTENDS Video, SequenceTheorems, TLAPS

-----------------------------------------------------------------------------
(* The types of the registers. *)

LEMMA WritesTyped ==
  ASSUME NEW w \in RegWrites
  PROVE  /\ w.reg = "control" => w.update \in BOOLEAN
         /\ w.reg = "border_color" => w.val \in Colours
         /\ w.reg \in Addresses => w.val \in Pages
         /\ w.reg \in Geometry => w.val \in Modes
  BY DEF RegWrites, Addresses, Geometry

LEMMA SettingsWritten ==
  ASSUME NEW s \in Settings, NEW w \in RegWrites, w.reg \in Register
  PROVE  [s EXCEPT ![w.reg] = w.val] \in Settings
<1>1. w.val \in IF w.reg \in Addresses THEN Pages ELSE Modes
  BY WritesTyped DEF Register
<1>2. s \in [Register -> Pages \cup Modes]
  BY DEF Settings
<1> DEFINE t == [s EXCEPT ![w.reg] = w.val]
<1>3. t \in [Register -> Pages \cup Modes]
  BY <1>1, <1>2
<1>4. \A r \in Register : t[r] \in IF r \in Addresses THEN Pages ELSE Modes
  BY <1>1, <1>2 DEF Settings
<1> QED
  BY <1>3, <1>4 DEF Settings

LEMMA FlagsKept ==
  ASSUME NEW f \in [When -> BOOLEAN], NEW b \in BOOLEAN
  PROVE  /\ Replaced(f) \in [When -> BOOLEAN]
         /\ [f EXCEPT ![Slot] = b] \in [When -> BOOLEAN]
         /\ [f EXCEPT !["immediate"] = b] \in [When -> BOOLEAN]
<1>1. f["deferred"] \in BOOLEAN /\ When = {"immediate", "deferred"}
  BY DEF When
<1> DEFINE r == [immediate |-> f["deferred"], deferred |-> FALSE]
<1>2. r = [x \in DOMAIN r |-> r[x]] /\ DOMAIN r = {"immediate", "deferred"}
  OBVIOUS
<1>3. r["immediate"] = f["deferred"] /\ r["deferred"] = FALSE
  OBVIOUS
<1>4. Replaced(f) = r
  BY DEF Replaced
<1> HIDE DEF r
<1>5. r \in [When -> BOOLEAN]
  BY <1>1, <1>2, <1>3
<1> QED
  BY <1>4, <1>5

LEMMA CallTyped ==
  ASSUME RegsTypeOK, Calls
  PROVE  todo' \in Seq(RegWrites) /\ Len(todo') <= 5 /\ store' \in BOOLEAN
<1>1. \A update, save \in BOOLEAN : Control(update, save) \in RegWrites
  BY DEF Control, RegWrites
<1>2. CASE ShowPage(ZxPage, TRUE, <<>>)
  <2> DEFINE a == Control(FALSE, TRUE)
             b == Data("bitmap_addr", ZxPage)
             c == Data("color_addr", ZxPage)
             d == Control(TRUE, TRUE)
  <2>1. b \in RegWrites /\ c \in RegWrites
    BY PagesAssumption DEF Data, RegWrites, Addresses
  <2>2. a \in RegWrites /\ d \in RegWrites
    BY <1>1
  <2>3. todo' = <<a>> \o <<b, c>> \o <<d>> \o <<>> /\ store' = TRUE
    BY <1>2 DEF ShowPage, zx_vdma_start_address_set, Begins, Ends
  <2> HIDE DEF a, b, c, d
  <2>4. <<a>> \o <<b, c>> \o <<d>> \o <<>> \in Seq(RegWrites) /\ Len(<<a>> \o <<b, c>> \o <<d>> \o <<>>) = 4
    BY <2>1, <2>2, ConcatProperties
  <2> QED
    BY <2>3, <2>4
<1>3. ASSUME NEW mode \in Modes, SetMode(mode)
      PROVE  todo' \in Seq(RegWrites) /\ Len(todo') <= 5 /\ store' \in BOOLEAN
  <2> DEFINE a == Control(FALSE, store)
             b == Data("active_size", mode)
             c == Data("border_size", mode)
             d == Data("aux_attr", mode)
             e == Control(TRUE, store)
  <2>1. b \in RegWrites /\ c \in RegWrites /\ d \in RegWrites
    BY DEF Data, RegWrites, Geometry
  <2>2. a \in RegWrites /\ e \in RegWrites
    BY <1>1 DEF RegsTypeOK
  <2>3. todo' = <<a>> \o <<b, c, d>> \o <<e>> /\ store' = store
    BY <1>3 DEF SetMode, zx_resolution_set, Begins, Ends
  <2> HIDE DEF a, b, c, d, e
  <2>4. <<a>> \o <<b, c, d>> \o <<e>> \in Seq(RegWrites) /\ Len(<<a>> \o <<b, c, d>> \o <<e>>) = 5
    BY <2>1, <2>2, ConcatProperties
  <2> QED
    BY <2>3, <2>4 DEF RegsTypeOK
<1> QED
  BY <1>2, <1>3 DEF Calls

LEMMA DriverTyped ==
  ASSUME RegsTypeOK, NEW sends \in BOOLEAN, Driver(sends)
  PROVE  /\ todo' \in Seq(RegWrites) /\ Len(todo') <= 5 /\ store' \in BOOLEAN
         /\ sends => Head(todo) \in RegWrites
<1>1. CASE Sending(sends)
  <2>1. todo \in Seq(RegWrites) /\ todo # <<>> /\ todo' = Tail(todo) /\ store' = store
    BY <1>1 DEF Sending, RegsTypeOK
  <2>2. Head(todo) \in RegWrites /\ Tail(todo) \in Seq(RegWrites) /\ Len(Tail(todo)) = Len(todo) - 1
    BY <2>1, HeadTailProperties
  <2>3. Len(todo) \in Nat
    BY <2>1, LenProperties
  <2> QED
    BY <2>1, <2>2, <2>3 DEF RegsTypeOK
<1>2. CASE Resting(sends)
  BY <1>2 DEF Resting, RegsTypeOK
<1>3. CASE ~sends /\ Calls
  BY <1>3, CallTyped
<1> QED
  BY <1>1, <1>2, <1>3 DEF Driver

LEMMA RegsTyped ==
  ASSUME RegsTypeOK, NEW sends \in BOOLEAN, Driver(sends), NEW idle \in BOOLEAN,
         RegsClock(sends, idle, FALSE, border)
  PROVE  RegsTypeOK'
<1>1. /\ todo' \in Seq(RegWrites) /\ Len(todo') <= 5 /\ store' \in BOOLEAN
      /\ sends => Head(todo) \in RegWrites
  BY DriverTyped
<1>2. copyOver' \in {"idle", "copy", "end"} /\ active' \in Settings
  BY DEF RegsClock, CopyRegisters, RegsTypeOK
<1>3. /\ latched' \in Settings /\ regUpdate' \in BOOLEAN /\ prevBorder' \in Colours
      /\ pending' \in [When -> BOOLEAN] /\ flush' \in [When -> BOOLEAN]
  <2> DEFINE w == Head(todo)
  <2>1. CASE sends /\ w.reg \in Register /\ WritesData(w)
    <3>1. latched' \in Settings
      BY <1>1, <2>1, SettingsWritten DEF WritesData, RegsTypeOK
    <3>2. pending' \in [When -> BOOLEAN]
      BY <2>1, FlagsKept DEF WritesData, RegsTypeOK
    <3>3. flush' \in [When -> BOOLEAN]
      <4> DEFINE b == flush[Slot] \/ w.reg \in Flushing
      <4>1. flush' = [flush EXCEPT ![Slot] = b]
        BY <2>1 DEF WritesData
      <4>2. b \in BOOLEAN
        OBVIOUS
      <4> HIDE DEF b
      <4> QED
        BY <4>1, <4>2, FlagsKept DEF RegsTypeOK
    <3> QED
      BY <2>1, <3>1, <3>2, <3>3 DEF WritesData, RegsTypeOK
  <2>2. CASE sends /\ w.reg = "control" /\ WritesControl(w)
    <3>1. w.update \in BOOLEAN
      BY <1>1, <2>2, WritesTyped
    <3> QED
      BY <2>2, <3>1, FlagsKept DEF WritesControl, RegsTypeOK
  <2>3. CASE UNCHANGED <<latched, pending, flush, regUpdate, prevBorder>>
    BY <2>3 DEF RegsTypeOK
  <2>4. CASE Acknowledged
    <3> DEFINE done == copyOver # "idle" /\ pending["immediate"]
               p == pending["immediate"] /\ ~done
               f == flush["immediate"] /\ ~done
    <3>1. /\ pending' = [pending EXCEPT !["immediate"] = p]
          /\ flush' = [flush EXCEPT !["immediate"] = f]
          /\ UNCHANGED <<latched, regUpdate, prevBorder>>
      BY <2>4 DEF Acknowledged
    <3>2. p \in BOOLEAN /\ f \in BOOLEAN
      OBVIOUS
    <3> HIDE DEF p, f
    <3> QED
      BY <3>1, <3>2, FlagsKept DEF RegsTypeOK
  <2> QED
    BY <2>1, <2>2, <2>3, <2>4 DEF RegsClock, LatchRegisters
<1>4. border' \in Colours
  BY <1>1, WritesTyped DEF RegsClock, BorderRegister, BorderWritten, RegsTypeOK
<1> QED
  BY <1>1, <1>2, <1>3, <1>4 DEF RegsTypeOK

-----------------------------------------------------------------------------
(* The types of the stream. *)

LEMMA StreamSizes ==
  /\ Lines \in Nat /\ Lines > 0 /\ Beats \in Nat /\ Beats > 1
  /\ Depth \in Nat /\ Depth > 0 /\ Repeats \in Nat /\ Repeats > 0
  BY StreamAssumption

LEMMA Remainders ==
  ASSUME NEW a \in Nat
  PROVE  a % Repeats \in 0 .. Repeats - 1 /\ (a < Repeats => a % Repeats = a)
  BY StreamSizes

(* An offered beat is owed. *)
Offered == rvalid => owed # <<>>

StreamOK == StreamTypeOK /\ Offered

(* The word fetched next. *)
Word(s) == [line |-> line[s], rep |-> repeater[s]]

LEMMA SelectorTyped ==
  ASSUME StreamTypeOK
  PROVE  /\ selector \in Source /\ Other[selector] \in Source /\ Other[selector] # selector
         /\ \A s \in Source : /\ Word(s) \in FifoWord
                              /\ line[s] \in 0 .. Lines - 1 /\ repeater[s] \in 0 .. Repeats - 1
                              /\ NextLine(s) \in 0 .. Lines - 1
                              /\ (repeater[s] + 1) % Repeats \in 0 .. Repeats - 1
<1>1. selector \in Source /\ Other[selector] \in Source /\ Other[selector] # selector
  BY DEF StreamTypeOK, Source, Other
<1>2. ASSUME NEW s \in Source
      PROVE  /\ Word(s) \in FifoWord
             /\ line[s] \in 0 .. Lines - 1 /\ repeater[s] \in 0 .. Repeats - 1
             /\ NextLine(s) \in 0 .. Lines - 1
             /\ (repeater[s] + 1) % Repeats \in 0 .. Repeats - 1
  <2>1. line[s] \in 0 .. Lines - 1 /\ repeater[s] \in 0 .. Repeats - 1
    BY DEF StreamTypeOK
  <2>2. NextLine(s) \in 0 .. Lines - 1
    BY <2>1, StreamSizes DEF NextLine
  <2>3. (repeater[s] + 1) % Repeats \in 0 .. Repeats - 1
    <3>1. repeater[s] + 1 \in Nat
      BY <2>1
    <3> QED
      BY <3>1, Remainders
  <2> QED
    BY <2>1, <2>2, <2>3 DEF Word, FifoWord
<1> QED
  BY <1>1, <1>2

(* The memory. *)
LEMMA OwedTyped ==
  ASSUME StreamOK, NEW ar \in BOOLEAN, Memory(ar)
  PROVE  /\ owed' \in Seq(Burst) /\ Len(owed') <= MaxOwed
         /\ rvalid' \in BOOLEAN /\ Offered'
<1> DEFINE first == Head(owed)
           less == [first EXCEPT !.left = @ - 1]
           rest == IF ~(rvalid /\ RReady) THEN owed
                   ELSE IF first.left = 1 THEN Tail(owed) ELSE <<less>> \o Tail(owed)
           burst == [word |-> [line |-> line[selector], rep |-> repeater[selector]], left |-> Beats]
<1>1. owed' = (IF ArAccepted(ar) THEN Append(rest, burst) ELSE rest) /\ rvalid' \in BOOLEAN /\ Offered'
  BY DEF Memory, Offered
<1>2. owed \in Seq(Burst) /\ Len(owed) <= MaxOwed /\ Len(owed) \in Nat
  BY LenProperties DEF StreamOK, StreamTypeOK
<1>3. burst \in Burst
  <2>1. Word(selector) \in FifoWord
    BY SelectorTyped DEF StreamOK
  <2>2. Beats \in 1 .. Beats
    BY StreamSizes
  <2> QED
    BY <2>1, <2>2 DEF Burst, Word
<1>4. rest \in Seq(Burst) /\ Len(rest) <= Len(owed) /\ Len(rest) \in Nat
  <2>1. CASE ~(rvalid /\ RReady)
    BY <1>2, <2>1
  <2>2. CASE rvalid /\ RReady
    <3>1. /\ first \in Burst /\ Tail(owed) \in Seq(Burst) /\ Len(Tail(owed)) = Len(owed) - 1
          /\ Len(owed) - 1 \in Nat
      <4>1. owed # <<>>
        BY <2>2 DEF StreamOK, Offered
      <4>2. /\ first \in Burst /\ Tail(owed) \in Seq(Burst) /\ Len(Tail(owed)) = Len(owed) - 1
        BY <1>2, <4>1, HeadTailProperties
      <4>3. Len(Tail(owed)) \in Nat
        BY <4>2, LenProperties
      <4> QED
        BY <4>2, <4>3
    <3>2. first.left # 1 => less \in Burst
      <4> HIDE DEF first
      <4> SUFFICES ASSUME first.left # 1 PROVE less \in Burst
        OBVIOUS
      <4>1. first.left \in 1 .. Beats
        BY <3>1 DEF Burst
      <4>2. first.left - 1 \in 1 .. Beats
        BY <4>1, StreamSizes
      <4> QED
        BY <3>1, <4>2 DEF Burst
    <3> HIDE DEF first, less
    <3>3. first.left # 1 => /\ <<less>> \o Tail(owed) \in Seq(Burst)
                            /\ Len(<<less>> \o Tail(owed)) = 1 + Len(Tail(owed))
      <4> SUFFICES ASSUME first.left # 1
                   PROVE  /\ <<less>> \o Tail(owed) \in Seq(Burst)
                          /\ Len(<<less>> \o Tail(owed)) = 1 + Len(Tail(owed))
        OBVIOUS
      <4>1. <<less>> \in Seq(Burst) /\ Len(<<less>>) = 1
        BY <3>2
      <4> QED
        BY <3>1, <4>1, ConcatProperties
    <3> QED
      BY <1>2, <2>2, <3>1, <3>3
  <2> QED
    BY <2>1, <2>2
<1>5. ArAccepted(ar) => Len(owed) < MaxOwed
  BY DEF ArAccepted
<1> HIDE DEF rest, burst
<1>6. Append(rest, burst) \in Seq(Burst) /\ Len(Append(rest, burst)) = Len(rest) + 1
  BY <1>3, <1>4, AppendProperties
<1>7. Len(owed') <= MaxOwed
  <2>1. MaxOwed \in Nat
    BY DEF MaxOwed
  <2> QED
    BY <1>1, <1>2, <1>4, <1>5, <1>6, <2>1
<1> QED
  BY <1>1, <1>4, <1>6, <1>7

(* One FIFO at one clock. *)
Emptied(q, draws) == IF draws /\ q # <<>> THEN Tail(q) ELSE q
Filled(q, writes, w) == IF writes THEN Append(q, w) ELSE q

LEMMA FifoMoves ==
  ASSUME NEW draws, NEW s \in Source, Fifos(FALSE, draws)
  PROVE  fifo'[s] = Filled(Emptied(fifo[s], draws), Writes(s) /\ Len(fifo[s]) < Depth, Head(owed).word)
  BY DEF Fifos, Emptied, Filled

LEMMA FifoFlushed ==
  ASSUME NEW draws, Fifos(TRUE, draws)
  PROVE  fifo' = [s \in Source |-> <<>>]
  BY DEF Fifos

LEMMA QueueTyped ==
  ASSUME NEW q \in Seq(FifoWord), Len(q) <= Depth, NEW draws \in BOOLEAN, NEW writes \in BOOLEAN,
         NEW w, writes => w \in FifoWord /\ Len(q) < Depth
  PROVE  /\ Filled(Emptied(q, draws), writes, w) \in Seq(FifoWord)
         /\ Len(Filled(Emptied(q, draws), writes, w)) <= Depth
         /\ Len(Filled(Emptied(q, draws), writes, w)) =
              Len(q) + (IF writes THEN 1 ELSE 0) - (IF draws /\ q # <<>> THEN 1 ELSE 0)
<1> DEFINE rest == Emptied(q, draws)
           n == Len(q)
           taken == IF draws /\ q # <<>> THEN 1 ELSE 0
           put == IF writes THEN 1 ELSE 0
<1>0. taken \in {0, 1} /\ put \in {0, 1}
  OBVIOUS
<1>1. n \in Nat /\ Depth \in Nat
  BY LenProperties, StreamSizes
<1>2. rest \in Seq(FifoWord) /\ Len(rest) = n - taken
  <2>1. CASE draws /\ q # <<>>
    <3>1. Tail(q) \in Seq(FifoWord) /\ Len(Tail(q)) = Len(q) - 1
      BY <2>1, HeadTailProperties
    <3> QED
      BY <2>1, <3>1 DEF Emptied
  <2>2. CASE ~(draws /\ q # <<>>)
    BY <1>1, <2>2 DEF Emptied
  <2> QED
    BY <2>1, <2>2
<1>3. writes => n < Depth
  OBVIOUS
<1>4. n <= Depth
  OBVIOUS
<1>5. Len(rest) \in Nat
  BY <1>2, LenProperties
<1> HIDE DEF n, rest, taken
<1>6. Filled(rest, writes, w) \in Seq(FifoWord) /\ Len(Filled(rest, writes, w)) <= Depth
      /\ Len(Filled(rest, writes, w)) = n + put - taken
  <2>1. CASE writes
    <3>1. Append(rest, w) \in Seq(FifoWord) /\ Len(Append(rest, w)) = Len(rest) + 1
      BY <1>2, <2>1, AppendProperties
    <3>2. Filled(rest, writes, w) = Append(rest, w) /\ put = 1
      BY <2>1 DEF Filled
    <3>3. Filled(rest, writes, w) \in Seq(FifoWord) /\ Len(Filled(rest, writes, w)) = Len(rest) + 1
      BY <3>1, <3>2
    <3> DEFINE size == Len(rest)
    <3>4. size \in Nat /\ size = n - taken
      BY <1>2, <1>5
    <3> HIDE DEF put, size
    <3>5. size + 1 <= Depth /\ size + 1 = n + put - taken
      BY <1>0, <1>1, <1>3, <2>1, <3>2, <3>4
    <3> QED
      BY <3>3, <3>5 DEF size
  <2>2. CASE ~writes
    <3>1. Filled(rest, writes, w) = rest /\ put = 0
      BY <2>2 DEF Filled
    <3> DEFINE size == Len(rest)
    <3>2. size \in Nat /\ size = n - taken
      BY <1>2, <1>5
    <3> HIDE DEF put, size
    <3>3. size <= Depth /\ size = n + put - taken
      BY <1>0, <1>1, <1>4, <3>1, <3>2
    <3> QED
      BY <1>2, <3>1, <3>3 DEF size
  <2> QED
    BY <2>1, <2>2
<1> QED
  BY <1>6 DEF n, rest, taken

LEMMA FifosTyped ==
  ASSUME StreamOK, NEW flushed \in BOOLEAN, NEW draws \in BOOLEAN, Fifos(flushed, draws)
  PROVE  fifo' \in [Source -> Seq(FifoWord)] /\ \A s \in Source : Len(fifo'[s]) <= Depth
<1>1. CASE flushed = TRUE
  <2>1. fifo' = [s \in Source |-> <<>>]
    BY <1>1, FifoFlushed
  <2> QED
    BY <2>1, EmptySeq, StreamSizes
<1>2. CASE flushed = FALSE
  <2>1. ASSUME NEW s \in Source
        PROVE  fifo'[s] \in Seq(FifoWord) /\ Len(fifo'[s]) <= Depth
    <3> DEFINE writes == Writes(s) /\ Len(fifo[s]) < Depth
               w == Head(owed).word
    <3>1. fifo'[s] = Filled(Emptied(fifo[s], draws), writes, w)
      BY <1>2, FifoMoves
    <3>2. fifo[s] \in Seq(FifoWord) /\ Len(fifo[s]) <= Depth
      BY DEF StreamOK, StreamTypeOK
    <3>3. writes => w \in FifoWord /\ Len(fifo[s]) < Depth
      <4> SUFFICES ASSUME writes PROVE w \in FifoWord
        OBVIOUS
      <4>1. owed \in Seq(Burst) /\ owed # <<>>
        BY DEF StreamOK, StreamTypeOK, Offered, Writes
      <4>2. Head(owed) \in Burst
        BY <4>1, HeadTailProperties
      <4> QED
        BY <4>2 DEF Burst
    <3>4. writes \in BOOLEAN
      OBVIOUS
    <3> HIDE DEF writes, w
    <3> QED
      BY <3>1, <3>2, <3>3, <3>4, QueueTyped
  <2>2. fifo' = [s \in Source |-> fifo'[s]]
    BY DEF Fifos
  <2> QED
    BY <2>1, <2>2
<1> QED
  BY <1>1, <1>2

LEMMA StreamTyped ==
  ASSUME StreamOK, NEW ar \in BOOLEAN, NEW ready \in BOOLEAN, NEW flushed \in BOOLEAN,
         NEW changing, NEW scale, NEW rescaled, StreamClock(ar, ready, flushed, changing, scale, rescaled)
  PROVE  StreamOK'
<1>1. owed' \in Seq(Burst) /\ Len(owed') <= MaxOwed /\ rvalid' \in BOOLEAN /\ Offered'
  BY OwedTyped DEF StreamClock
<1>2. fifo' \in [Source -> Seq(FifoWord)] /\ \A s \in Source : Len(fifo'[s]) <= Depth
  <2>1. Draws(ready) \in BOOLEAN
    BY DEF Draws
  <2> QED
    BY <2>1, FifosTyped DEF StreamClock
<1>3. /\ amba' \in AmbaStates /\ selector' \in Source
      /\ line' \in [Source -> 0 .. Lines - 1] /\ repeater' \in [Source -> 0 .. Repeats - 1]
  <2>0. /\ amba \in AmbaStates /\ selector \in Source
        /\ line \in [Source -> 0 .. Lines - 1] /\ repeater \in [Source -> 0 .. Repeats - 1]
    BY DEF StreamOK, StreamTypeOK
  <2>1. CASE flushed
    <3>1. 0 \in 0 .. Lines - 1 /\ 0 \in 0 .. Repeats - 1
      BY StreamSizes
    <3> QED
      BY <2>1, <3>1 DEF StreamClock, FetchReset, AmbaStates, Source
  <2>2. CASE ~flushed /\ amba # "done"
    <3>1. \E next \in AmbaStates : FetchTo(next)
      BY <2>0, <2>2 DEF StreamClock, Fetch, AmbaStates
    <3> QED
      BY <2>0, <3>1 DEF FetchTo
  <2>3. CASE ~flushed /\ amba = "done"
    <3>1. amba' = "idle" /\ FetchDone(scale)
      BY <2>3 DEF StreamClock, Fetch
    <3>2. /\ Other[selector] \in Source /\ NextLine(selector) \in 0 .. Lines - 1
          /\ (repeater[selector] + 1) % Repeats \in 0 .. Repeats - 1
          /\ line[selector] \in 0 .. Lines - 1 /\ 0 \in 0 .. Repeats - 1
      BY SelectorTyped, StreamSizes DEF StreamOK
    <3>3. /\ repeater' = [repeater EXCEPT ![selector] =
                            IF Repeated(selector, scale) THEN 0 ELSE (repeater[selector] + 1) % Repeats]
          /\ line' = [line EXCEPT ![selector] =
                            IF Repeated(selector, scale) THEN NextLine(selector) ELSE line[selector]]
          /\ selector' = Other[selector]
      BY <3>1 DEF FetchDone
    <3> QED
      BY <2>0, <3>1, <3>2, <3>3 DEF AmbaStates
  <2> QED
    BY <2>1, <2>2, <2>3
<1>4. vs' \in {"idle", "streaming"}
  BY DEF StreamClock, Frames, StreamOK, StreamTypeOK
<1>5. drawn' \in Nat
  BY DEF StreamClock, Frames, StreamOK, StreamTypeOK
<1>6. upset' \subseteq {"cut", "starved", "dropped", "torn"}
  BY DEF StreamClock, Upsets, StreamOK, StreamTypeOK
<1> QED
  BY <1>1, <1>2, <1>3, <1>4, <1>5, <1>6 DEF StreamOK, StreamTypeOK

-----------------------------------------------------------------------------
(* The fetch, as long as no burst has been cut: the memory owes the burst  *)
(* of the word that is fetched and nothing else, and the FIFO has a place  *)
(* for what is to come.                                                    *)

Awaited(left) == <<[word |-> Word(selector), left |-> left]>>

Fetching ==
  /\ amba \in {"idle", "set_addr", "wait_addr_ack", "wait_data_start", "read", "done"}
  /\ amba \in {"idle", "set_addr", "wait_addr_ack", "done"} => owed = <<>>
  /\ amba = "wait_data_start" => owed = Awaited(Beats)
  /\ amba = "read" => \E left \in 1 .. Beats - 1 : owed = Awaited(left)

(* Beats of it that are in the FIFO. *)
Written ==
  IF amba = "done" THEN Beats ELSE IF amba = "read" THEN Beats - Head(owed).left ELSE 0

HasPlace == amba # "idle" => Len(fifo[selector]) <= Depth - Beats + Written

LEMMA OneBurst ==
  ASSUME NEW w, NEW n \in Nat
  PROVE  LET b == [word |-> w, left |-> n] IN
         /\ Head(<<b>>) = b /\ Head(<<b>>).left = n /\ Head(<<b>>).word = w
         /\ Tail(<<b>>) = <<>> /\ Append(<<>>, b) = <<b>> /\ <<b>> # <<>>
         /\ <<[b EXCEPT !.left = @ - 1]>> \o <<>> = <<[word |-> w, left |-> n - 1]>>
<1> DEFINE b == [word |-> w, left |-> n]
           less == [word |-> w, left |-> n - 1]
<1>1. b.left = n /\ b.word = w /\ [b EXCEPT !.left = @ - 1] = less
  OBVIOUS
<1> HIDE DEF b, less
<1>2. /\ Head(<<b>>) = b /\ Tail(<<b>>) = <<>> /\ Append(<<>>, b) = <<b>> /\ <<b>> # <<>>
      /\ <<less>> \o <<>> = <<less>>
  OBVIOUS
<1>3. <<[b EXCEPT !.left = @ - 1]>> \o <<>> = <<less>>
  BY <1>1, <1>2
<1> QED
  BY <1>1, <1>2, <1>3, Zenon DEF b, less

LEMMA BeatTaken ==
  ASSUME StreamOK, NEW ar, Memory(ar), amba \in {"wait_data_start", "read"},
         NEW n \in 1 .. Beats, owed = Awaited(n)
  PROVE  /\ Head(owed).left = n /\ Head(owed).word = Word(selector)
         /\ RLast <=> rvalid /\ n = 1
         /\ ~rvalid => owed' = owed
         /\ rvalid => owed' = IF n = 1 THEN <<>> ELSE Awaited(n - 1)
<1> DEFINE b == [word |-> Word(selector), left |-> n]
<1>1. n \in Nat /\ owed = <<b>>
  BY DEF Awaited
<1>2. /\ Head(owed) = b /\ Head(owed).left = n /\ Head(owed).word = Word(selector) /\ Tail(owed) = <<>>
      /\ <<[b EXCEPT !.left = @ - 1]>> \o <<>> = Awaited(n - 1)
  BY <1>1, OneBurst DEF Awaited
<1>3. ~ArAccepted(ar) /\ RReady
  BY DEF ArAccepted, RReady
<1>4. RLast <=> rvalid /\ n = 1
  BY <1>2 DEF RLast
<1> HIDE DEF b
<1>5. owed' = IF ~rvalid THEN owed
              ELSE IF Head(owed).left = 1 THEN Tail(owed)
              ELSE <<[Head(owed) EXCEPT !.left = @ - 1]>> \o Tail(owed)
  BY <1>3 DEF Memory
<1>6. rvalid => owed' = IF n = 1 THEN <<>> ELSE Awaited(n - 1)
  BY <1>2, <1>5
<1> QED
  BY <1>2, <1>4, <1>5, <1>6

(* A clock of the fetch: it waits, asks, gets a beat or comes to the next  *)
(* word.                                                                   *)
Waiting ==
  /\ ~rvalid /\ Written' = Written /\ UNCHANGED <<selector, line, repeater>>
  /\ amba = "idle" /\ amba' # "idle" => HasRoom
Getting ==
  /\ rvalid /\ Head(owed).word = Word(selector) /\ amba # "idle"
  /\ Written < Beats /\ Written' = Written + 1 /\ UNCHANGED <<selector, line, repeater>>
Turning(scale) ==
  /\ ~rvalid /\ Written = Beats /\ Written' = 0 /\ amba' = "idle" /\ FetchDone(scale)

LEMMA FetchSteps ==
  ASSUME StreamOK, Fetching, NEW ar \in BOOLEAN, NEW scale, Memory(ar), Fetch(ar, scale),
         amba' # "error"
  PROVE  /\ Fetching' /\ Written \in 0 .. Beats /\ Written' \in 0 .. Beats
         /\ Waiting \/ Getting \/ Turning(scale)
<1>1. CASE amba \in {"idle", "set_addr"}
  <2>1. owed = <<>> /\ ~rvalid /\ ~ArAccepted(ar) /\ owed' = <<>>
    BY <1>1 DEF Fetching, StreamOK, Offered, ArAccepted, Memory
  <2>2. /\ amba' \in {"idle", "set_addr", "wait_addr_ack"} /\ UNCHANGED <<selector, line, repeater>>
        /\ amba = "idle" /\ amba' # "idle" => HasRoom
    BY <1>1 DEF Fetch, FetchTo
  <2>3. Written = 0 /\ Written' = 0
    BY <1>1, <2>2 DEF Written
  <2> QED
    BY <2>1, <2>2, <2>3, StreamSizes DEF Fetching, Waiting
<1>2. CASE amba = "wait_addr_ack"
  <2>1. owed = <<>> /\ ~rvalid
    BY <1>2 DEF Fetching, StreamOK, Offered
  <2>2. /\ amba' = IF ArAccepted(ar) THEN "wait_data_start" ELSE "wait_addr_ack"
        /\ UNCHANGED <<selector, line, repeater>>
    BY <1>2 DEF Fetch, FetchTo
  <2>3. Written = 0 /\ Written' = 0
    BY <1>2, <2>2 DEF Written
  <2>4. owed' = IF ArAccepted(ar) THEN Awaited(Beats) ELSE <<>>
    <3> DEFINE b == [word |-> Word(selector), left |-> Beats]
    <3>1. owed' = IF ArAccepted(ar) THEN Append(<<>>, b) ELSE <<>>
      BY <2>1 DEF Memory, Word
    <3>2. Append(<<>>, b) = Awaited(Beats)
      BY OneBurst, StreamSizes DEF Awaited
    <3> QED
      BY <3>1, <3>2
  <2>5. Awaited(Beats)' = Awaited(Beats)
    BY <2>2 DEF Awaited, Word
  <2> QED
    BY <1>2, <2>1, <2>2, <2>3, <2>4, <2>5, StreamSizes DEF Fetching, Waiting
<1>3. CASE amba = "wait_data_start"
  <2>1. owed = Awaited(Beats) /\ Beats \in 1 .. Beats
    BY <1>3, StreamSizes DEF Fetching
  <2>2. /\ Head(owed).word = Word(selector) /\ ~RLast
        /\ ~rvalid => owed' = owed
        /\ rvalid => owed' = Awaited(Beats - 1)
    BY <1>3, <2>1, BeatTaken, StreamSizes
  <2>3. /\ amba' = IF rvalid THEN "read" ELSE "wait_data_start"
        /\ UNCHANGED <<selector, line, repeater>>
    BY <1>3, <2>2 DEF Fetch, FetchTo
  <2>4. \A n : Awaited(n)' = Awaited(n)
    BY <2>3 DEF Awaited, Word
  <2>5. CASE ~rvalid
    BY <1>3, <2>1, <2>2, <2>3, <2>4, <2>5, StreamSizes DEF Fetching, Waiting, Written
  <2>6. CASE rvalid
    <3>1. Beats - 1 \in 1 .. Beats - 1 /\ Beats - 1 \in Nat
      BY StreamSizes
    <3>2. amba' = "read" /\ owed' = Awaited(Beats - 1)'
      BY <2>2, <2>3, <2>4, <2>6
    <3>3. Head(owed').left = Beats - 1
      BY <3>1, <3>2, <2>3, OneBurst DEF Awaited
    <3>4. Written = 0 /\ Written' = 1
      BY <1>3, <3>2, <3>3, StreamSizes DEF Written
    <3> QED
      BY <1>3, <2>2, <2>3, <2>6, <3>1, <3>2, <3>4, StreamSizes DEF Fetching, Getting
  <2> QED
    BY <2>5, <2>6
<1>4. CASE amba = "read"
  <2>1. PICK n \in 1 .. Beats - 1 : owed = Awaited(n)
    BY <1>4 DEF Fetching
  <2>2. n \in 1 .. Beats /\ n \in Nat /\ n < Beats
    BY StreamSizes
  <2>3. /\ Head(owed).left = n /\ Head(owed).word = Word(selector)
        /\ RLast <=> rvalid /\ n = 1
        /\ rvalid => owed' = IF n = 1 THEN <<>> ELSE Awaited(n - 1)
    BY <1>4, <2>1, <2>2, BeatTaken
  <2>4. /\ rvalid /\ amba' = IF n = 1 THEN "done" ELSE "read"
        /\ UNCHANGED <<selector, line, repeater>>
    BY <1>4, <2>3 DEF Fetch, FetchTo
  <2>5. Awaited(n - 1)' = Awaited(n - 1)
    BY <2>4 DEF Awaited, Word
  <2>6. Written = Beats - n
    BY <1>4, <2>3 DEF Written
  <2>7. CASE n = 1
    BY <1>4, <2>2, <2>3, <2>4, <2>6, <2>7, StreamSizes DEF Fetching, Getting, Written
  <2>8. CASE n # 1
    <3>1. n - 1 \in 1 .. Beats - 1 /\ n - 1 \in Nat
      BY <2>2, <2>8, StreamSizes
    <3>2. amba' = "read" /\ owed' = Awaited(n - 1)'
      BY <2>3, <2>4, <2>5, <2>8
    <3>3. Head(owed').left = n - 1
      BY <2>3, <2>4, <2>8, <3>1, OneBurst DEF Awaited
    <3>4. Written' = Beats - n + 1
      BY <2>2, <3>2, <3>3, StreamSizes DEF Written
    <3> QED
      BY <1>4, <2>2, <2>3, <2>4, <2>6, <3>1, <3>2, <3>4, StreamSizes DEF Fetching, Getting
  <2> QED
    BY <2>7, <2>8
<1>5. CASE amba = "done"
  <2>1. owed = <<>> /\ ~rvalid /\ owed' = <<>>
    BY <1>5 DEF Fetching, StreamOK, Offered, ArAccepted, Memory
  <2>2. amba' = "idle" /\ FetchDone(scale)
    BY <1>5 DEF Fetch
  <2>3. Written = Beats /\ Written' = 0
    BY <1>5, <2>2 DEF Written
  <2> QED
    BY <2>1, <2>2, <2>3, StreamSizes DEF Fetching, Turning
<1> QED
  BY <1>1, <1>2, <1>3, <1>4, <1>5 DEF Fetching


-----------------------------------------------------------------------------
(* The two FIFOs, as long as nothing has upset them: the pixels are ahead  *)
(* of the colours by the part of a scan line that is fetched, all of it of *)
(* the scan line and the repetition whose colours come next.               *)

Scale == active["aux_attr"]
AfterRep(s) == IF Repeated(s, Scale) THEN 0 ELSE (repeater[s] + 1) % Repeats
AfterLine(s) == IF Repeated(s, Scale) THEN NextLine(s) ELSE line[s]
Ahead == IF selector = "pixels" THEN Written ELSE Beats - Written

Matches(P, A, d, w) ==
  /\ Len(P) = Len(A) + d
  /\ \A i \in 1 .. Len(A) : P[i] = A[i]
  /\ \A i \in Len(A) + 1 .. Len(P) : P[i] = w

InTurn ==
  /\ selector = "pixels" => Word("pixels") = Word("attributes")
  /\ selector = "attributes" => /\ line["pixels"] = AfterLine("attributes")
                                /\ repeater["pixels"] = AfterRep("attributes")
  /\ Matches(fifo["pixels"], fifo["attributes"], Ahead, Word("attributes"))

(* Both lose their first words. *)
LEMMA BothEmptied ==
  ASSUME NEW P \in Seq(FifoWord), NEW A \in Seq(FifoWord), NEW d \in Nat, NEW w,
         Matches(P, A, d, w), NEW draws \in BOOLEAN, draws => P # <<>> /\ A # <<>>
  PROVE  Matches(Emptied(P, draws), Emptied(A, draws), d, w)
<1>1. CASE ~draws
  BY <1>1 DEF Emptied
<1>2. CASE draws
  <2> DEFINE p == Len(P)
             a == Len(A)
  <2>1. /\ Emptied(P, draws) = Tail(P) /\ Emptied(A, draws) = Tail(A)
        /\ Len(Tail(P)) = p - 1 /\ Len(Tail(A)) = a - 1
        /\ \A i \in 1 .. p - 1 : Tail(P)[i] = P[i + 1]
        /\ \A i \in 1 .. a - 1 : Tail(A)[i] = A[i + 1]
    BY <1>2, HeadTailProperties DEF Emptied
  <2>2. p \in Nat /\ a \in Nat /\ p = a + d
    BY LenProperties DEF Matches
  <2>3. /\ \A i \in 1 .. a : P[i] = A[i]
        /\ \A i \in a + 1 .. p : P[i] = w
    BY DEF Matches
  <2> HIDE DEF p, a
  <2>4. ASSUME NEW i \in 1 .. a - 1
        PROVE  Tail(P)[i] = Tail(A)[i]
    BY <2>1, <2>2, <2>3
  <2>5. ASSUME NEW i \in (a - 1) + 1 .. p - 1
        PROVE  Tail(P)[i] = w
    <3>1. CASE i = 0
      <4>1. a = 0
        BY <2>2, <3>1
      <4> QED
        BY <1>2, <4>1, EmptySeq, LenProperties DEF a
    <3>2. CASE i # 0
      BY <2>1, <2>2, <2>3, <3>2
    <3> QED
      BY <3>1, <3>2
  <2>6. p - 1 = (a - 1) + d
    BY <2>2
  <2> QED
    BY <2>1, <2>4, <2>5, <2>6 DEF Matches
<1> QED
  BY <1>1, <1>2

(* A word of pixels comes. *)
LEMMA PixelsComes ==
  ASSUME NEW P \in Seq(FifoWord), NEW A \in Seq(FifoWord), NEW d \in Nat, NEW w \in FifoWord,
         Matches(P, A, d, w)
  PROVE  Matches(Append(P, w), A, d + 1, w)
<1> DEFINE p == Len(P)
           a == Len(A)
           Q == Append(P, w)
<1>1. Len(Q) = p + 1 /\ (\A i \in 1 .. p : Q[i] = P[i]) /\ Q[p + 1] = w
  BY AppendProperties
<1>2. p \in Nat /\ a \in Nat /\ p = a + d
  BY LenProperties DEF Matches
<1>3. /\ \A i \in 1 .. a : P[i] = A[i]
      /\ \A i \in a + 1 .. p : P[i] = w
  BY DEF Matches
<1> HIDE DEF p, a, Q
<1>4. /\ \A i \in 1 .. a : Q[i] = A[i]
      /\ \A i \in a + 1 .. p + 1 : Q[i] = w
      /\ p + 1 = a + (d + 1)
  BY <1>1, <1>2, <1>3
<1> QED
  BY <1>1, <1>4 DEF Matches, a, Q

(* A word of colours comes. *)
LEMMA ColoursCome ==
  ASSUME NEW P \in Seq(FifoWord), NEW A \in Seq(FifoWord), NEW d \in Nat, NEW w \in FifoWord,
         Matches(P, A, d, w), d > 0
  PROVE  Matches(P, Append(A, w), d - 1, w)
<1> DEFINE p == Len(P)
           a == Len(A)
           B == Append(A, w)
<1>1. Len(B) = a + 1 /\ (\A i \in 1 .. a : B[i] = A[i]) /\ B[a + 1] = w
  BY AppendProperties
<1>2. p \in Nat /\ a \in Nat /\ p = a + d
  BY LenProperties DEF Matches
<1>3. /\ \A i \in 1 .. a : P[i] = A[i]
      /\ \A i \in a + 1 .. p : P[i] = w
  BY DEF Matches
<1> HIDE DEF p, a, B
<1>4. /\ \A i \in 1 .. a + 1 : P[i] = B[i]
      /\ \A i \in a + 2 .. p : P[i] = w
      /\ p = (a + 1) + (d - 1) /\ (a + 1) + 1 = a + 2
  BY <1>1, <1>2, <1>3
<1> QED
  BY <1>1, <1>4 DEF Matches, p, B

(* As many of both: what comes next may be anything. *)
LEMMA EquallyLong ==
  ASSUME NEW P \in Seq(FifoWord), NEW A \in Seq(FifoWord), NEW w, Matches(P, A, 0, w), NEW v
  PROVE  Matches(P, A, 0, v)
<1> DEFINE p == Len(P)
           a == Len(A)
<1>1. p \in Nat /\ a \in Nat /\ p = a + 0
  BY LenProperties DEF Matches
<1>2. \A i \in 1 .. a : P[i] = A[i]
  BY DEF Matches
<1> HIDE DEF p, a
<1>3. \A i \in a + 1 .. p : P[i] = v
  BY <1>1
<1> QED
  BY <1>1, <1>2, <1>3 DEF Matches, p, a

(* What a clock without a flush does when it upsets nothing. *)
LEMMA NothingUpset ==
  ASSUME NEW ready, NEW rescaled, Upsets(FALSE, ready, rescaled), upset' = {}
  PROVE  /\ upset = {} /\ amba' # "error" /\ (amba' = "idle" => owed' = <<>>) /\ ~rescaled
         /\ Draws(ready) => \A s \in Source : fifo[s] # <<>>
<1> DEFINE cut == amba' = "error" \/ (amba' = "idle" /\ owed' # <<>>)
           starved == Draws(ready) /\ \E s \in Source : fifo[s] = <<>>
           holds(u) == CASE u = "cut" -> cut
                         [] u = "starved" -> starved
                         [] u = "torn" -> rescaled
<1>1. upset' = upset \cup {u \in {"cut", "starved", "torn"} : holds(u)}
  BY DEF Upsets
<1>2. (holds("cut") <=> cut) /\ (holds("starved") <=> starved) /\ (holds("torn") <=> rescaled)
  <2>1. "cut" # "starved" /\ "cut" # "torn" /\ "starved" # "torn"
    OBVIOUS
  <2>2. holds("cut") <=> cut
    BY <2>1, Zenon
  <2>3. holds("starved") <=> starved
    BY <2>1, Zenon
  <2>4. holds("torn") <=> rescaled
    BY <2>1, Zenon
  <2> QED
    BY <2>2, <2>3, <2>4
<1> HIDE DEF holds
<1>3. upset = {} /\ ~holds("cut") /\ ~holds("starved") /\ ~holds("torn")
  BY <1>1
<1> HIDE DEF cut, starved
<1>4. upset = {} /\ ~cut /\ ~starved /\ ~rescaled
  BY <1>2, <1>3, Zenon
<1> QED
  BY <1>4 DEF cut, starved

(* What a flush does when it upsets nothing. *)
LEMMA FlushedClean ==
  ASSUME NEW ready, NEW rescaled, Upsets(TRUE, ready, rescaled), upset' = {}, FetchReset,
         vs' \in {"idle", "streaming"}
  PROVE  owed' = <<>> /\ vs' = "idle"
<1> DEFINE cut == amba' = "error" \/ (amba' = "idle" /\ owed' # <<>>)
<1>1. {u \in {"cut", "dropped"} : IF u = "cut" THEN cut ELSE vs' = "streaming"} = {}
  BY DEF Upsets
<1>2. ~cut /\ vs' # "streaming"
  <2> HIDE DEF cut
  <2> QED
    BY <1>1
<1> QED
  BY <1>2 DEF FetchReset

(* What the clock writes to the FIFOs. *)
LEMMA PixelsMove ==
  ASSUME StreamOK, NEW draws \in BOOLEAN, Fifos(FALSE, draws), HasPlace, Waiting \/ Getting \/ ~rvalid,
         NEW s \in Source
  PROVE  fifo'[s] = IF Getting /\ selector = s
                    THEN Append(Emptied(fifo[s], draws), Word(selector))
                    ELSE Emptied(fifo[s], draws)
<1>1. fifo'[s] = Filled(Emptied(fifo[s], draws), Writes(s) /\ Len(fifo[s]) < Depth, Head(owed).word)
  BY FifoMoves
<1>2. CASE Getting /\ selector = s
  <2>1. Len(fifo[s]) \in Nat
    BY LenProperties DEF StreamOK, StreamTypeOK
  <2>2. Written < Beats /\ Len(fifo[s]) <= Depth - Beats + Written /\ Written \in Int
    <3>1. Written < Beats /\ Len(fifo[s]) <= Depth - Beats + Written
      BY <1>2 DEF Getting, HasPlace
    <3>2. amba = "read" => Head(owed).left \in Int
      <4> SUFFICES ASSUME amba = "read" PROVE Head(owed).left \in Int
        OBVIOUS
      <4>1. owed # <<>> /\ owed \in Seq(Burst)
        BY <1>2 DEF Getting, StreamOK, StreamTypeOK, Offered
      <4>2. Head(owed) \in Burst
        BY <4>1, HeadTailProperties
      <4> QED
        BY <4>2 DEF Burst
    <3> QED
      BY <3>1, <3>2, StreamSizes DEF Written
  <2> DEFINE n == Len(fifo[s])
             k == Written
  <2>3. n \in Nat /\ k \in Int /\ k < Beats /\ n <= Depth - Beats + k
    BY <2>1, <2>2
  <2> HIDE DEF n, k
  <2>4. n < Depth
    BY <2>3, StreamSizes
  <2>5. Writes(s) /\ Len(fifo[s]) < Depth /\ Head(owed).word = Word(selector)
    BY <1>2, <2>4 DEF n, Getting, Writes
  <2> QED
    BY <1>1, <1>2, <2>5 DEF Filled
<1>3. CASE ~(Getting /\ selector = s)
  <2>1. ~Writes(s)
    BY <1>3 DEF Waiting, Writes
  <2> QED
    BY <1>1, <1>3, <2>1 DEF Filled
<1> QED
  BY <1>2, <1>3

-----------------------------------------------------------------------------
(* The words of a frame are numbered in the order in which they are drawn: *)
(* scan line by scan line, each as often as the factor says, beat by beat. *)

Num(l, r, b, scale) == (l * scale + r) * Beats + b

(* n is the number of a beat of that scan line and repetition, counted on  *)
(* from frame to frame or back.                                            *)
OnTime(n, l, r, b, scale) == \E m \in Int : n = Num(l, r, b, scale) + m * FrameWords(scale)

LEMMA Numbers ==
  ASSUME NEW l \in Nat, NEW r \in Nat, NEW b \in Nat, NEW scale \in Nat
  PROVE  /\ Num(l, r, b, scale) \in Nat /\ FrameWords(scale) \in Nat
         /\ Num(l, r, b + 1, scale) = Num(l, r, b, scale) + 1
<1> DEFINE x == l * scale
           y == (l * scale + r) * Beats
           z == Lines * Beats
           f == Lines * Beats * scale
<1>1. x \in Nat
  OBVIOUS
<1>2. x + r \in Nat
  BY <1>1
<1>3. y \in Nat
  <2> HIDE DEF x
  <2>1. (x + r) * Beats \in Nat
    BY <1>2, StreamSizes
  <2> QED
    BY <2>1 DEF x
<1>4. z \in Nat
  BY StreamSizes
<1>5. z * scale \in Nat
  <2> HIDE DEF z
  <2> QED
    BY <1>4
<1>6. y + b \in Nat /\ y + (b + 1) = (y + b) + 1
  <2> HIDE DEF y
  <2> QED
    BY <1>3
<1> QED
  BY <1>5, <1>6 DEF Num, FrameWords

(* The last beat of a repetition is followed by the next repetition, the   *)
(* last repetition by the next scan line, the last scan line by the first  *)
(* of the next frame.                                                      *)
LEMMA NextRepetition ==
  ASSUME NEW l \in Nat, NEW r \in Nat, NEW scale \in Nat
  PROVE  /\ Num(l, r, Beats, scale) = Num(l, r + 1, 0, scale)
         /\ r + 1 = scale => Num(l, r, Beats, scale) = Num(l + 1, 0, 0, scale)
         /\ r + 1 = scale /\ l + 1 = Lines => Num(l, r, Beats, scale) = FrameWords(scale)
<1> DEFINE x == l * scale
<1>1. x \in Nat
  OBVIOUS
<1>2. (x + r) * Beats + Beats = (x + (r + 1)) * Beats + 0
  <2> HIDE DEF x
  <2>1. \A u \in Nat : u * Beats + Beats = (u + 1) * Beats + 0
    BY StreamSizes
  <2>2. x + r \in Nat /\ (x + r) + 1 = x + (r + 1)
    BY <1>1
  <2> QED
    BY <2>1, <2>2
<1>3. r + 1 = scale => x + (r + 1) = (l + 1) * scale
  <2>1. l * scale + scale = (l + 1) * scale
    OBVIOUS
  <2> QED
    BY <2>1
<1>4. (l + 1) * scale + 0 = (l + 1) * scale
  OBVIOUS
<1>5. (Lines * scale) * Beats + 0 = Lines * Beats * scale
  <2>1. \A u, v, t \in Nat : (u * v) * t + 0 = u * t * v
    OBVIOUS
  <2> QED
    BY <2>1, StreamSizes
<1> QED
  BY <1>2, <1>3, <1>4, <1>5 DEF Num, FrameWords

(* Only the first word of a frame has a number that is a multiple of the   *)
(* size of a frame.                                                        *)
LEMMA FirstWord ==
  ASSUME NEW l \in 0 .. Lines - 1, NEW scale \in Nat, NEW r \in 0 .. scale - 1,
         NEW b \in 0 .. Beats - 1, OnTime(0, l, r, b, scale)
  PROVE  l = 0 /\ r = 0
<1> DEFINE n == Num(l, r, b, scale)
           f == FrameWords(scale)
           p == l * scale + r
<1>1. l \in Nat /\ r \in Nat /\ b \in Nat /\ Beats \in Nat /\ Lines \in Nat
  BY StreamSizes
<1>2. n \in Nat /\ f \in Nat
  BY <1>1, Numbers
<1>3. n = p * Beats + b
  BY DEF Num
<1>4. p \in Nat /\ p + 1 <= Lines * scale
  <2>1. l * scale \in Nat
    BY <1>1
  <2>2. (l + 1) * scale <= Lines * scale
    <3>1. \A u, v, t \in Nat : u <= v => u * t <= v * t
      OBVIOUS
    <3>2. l + 1 \in Nat /\ l + 1 <= Lines
      BY <1>1
    <3> QED
      BY <1>1, <3>1, <3>2
  <2>3. (l + 1) * scale = l * scale + scale
    BY <1>1
  <2> DEFINE x == l * scale
             y == Lines * scale
  <2>4. x \in Nat /\ y \in Nat /\ x + scale <= y
    BY <1>1, <2>1, <2>2, <2>3
  <2> HIDE DEF x, y
  <2>5. x + r \in Nat /\ x + r + 1 <= y
    BY <1>1, <2>4
  <2> QED
    BY <2>5 DEF x, y
<1>5. n < f
  <2>1. f = (Lines * scale) * Beats
    <3>1. \A u, v, t \in Nat : u * t * v = (u * v) * t
      OBVIOUS
    <3> QED
      BY <1>1, <3>1 DEF FrameWords
  <2> DEFINE y == Lines * scale
  <2>2. y \in Nat
    BY <1>1
  <2>3. (p + 1) * Beats <= y * Beats
    <3>1. \A u, v, t \in Nat : u <= v => u * t <= v * t
      OBVIOUS
    <3>2. p + 1 \in Nat /\ p + 1 <= y
      BY <1>4
    <3> HIDE DEF p, y
    <3> QED
      BY <1>1, <2>2, <3>1, <3>2
  <2>4. (p + 1) * Beats = p * Beats + Beats
    <3> HIDE DEF p
    <3> QED
      BY <1>1, <1>4
  <2> DEFINE q == p * Beats
             e == y * Beats
  <2>5. q \in Nat /\ e \in Nat
    <3> HIDE DEF p, y
    <3> QED
      BY <1>1, <1>4, <2>2
  <2>6. n = q + b /\ f = e /\ q + Beats <= e
    BY <1>3, <2>1, <2>3, <2>4
  <2> HIDE DEF n, f, q, e
  <2> QED
    BY <1>1, <2>5, <2>6, StreamSizes
<1>6. PICK m \in Int : 0 = n + m * f
  BY DEF OnTime
<1>7. n = 0
  <2>1. \A u, v \in Nat : \A t \in Int : u < v /\ 0 = u + t * v => u = 0
    <3> SUFFICES ASSUME NEW u \in Nat, NEW v \in Nat, NEW t \in Int, u < v, 0 = u + t * v
                 PROVE  u = 0
      OBVIOUS
    <3>1. CASE t >= 0
      <4>1. t * v \in Nat
        BY <3>1
      <4> DEFINE x == t * v
      <4> HIDE DEF x
      <4>2. x \in Nat /\ 0 = u + x
        BY <4>1 DEF x
      <4> QED
        BY <4>2
    <3>2. CASE t < 0
      <4>1. t * v <= -v
        <5>1. (t + 1) * v <= 0
          BY <3>2
        <5>2. (t + 1) * v = t * v + v
          OBVIOUS
        <5> DEFINE x == t * v
        <5>3. x \in Int /\ x + v <= 0
          BY <5>1, <5>2
        <5> HIDE DEF x
        <5>4. x <= -v
          BY <5>3
        <5> QED
          BY <5>4 DEF x
      <4> DEFINE x == t * v
      <4>2. x \in Int /\ x <= -v /\ 0 = u + x
        BY <4>1
      <4> HIDE DEF x
      <4> QED
        BY <4>2
    <3> QED
      BY <3>1, <3>2
  <2> HIDE DEF n, f
  <2> QED
    BY <1>2, <1>5, <1>6, <2>1
<1>8. p = 0
  <2> HIDE DEF p
  <2>1. p > 0 => p * Beats > 0
    BY <1>1, <1>4, StreamSizes
  <2>2. p * Beats \in Nat
    BY <1>1, <1>4
  <2> DEFINE q == p * Beats
  <2>3. q \in Nat /\ 0 = q + b /\ (p > 0 => q > 0)
    BY <1>3, <1>7, <2>1, <2>2
  <2> HIDE DEF q
  <2> QED
    BY <1>1, <1>4, <2>3
<1> DEFINE x == l * scale
<1>9. x \in Nat /\ x + r = 0
  BY <1>1, <1>8
<1>10. x = 0 /\ r = 0
  <2> HIDE DEF x
  <2> QED
    BY <1>1, <1>9
<1>11. l = 0
  <2>1. scale > 0
    BY <1>10
  <2>2. l > 0 => l * scale > 0
    BY <1>1, <2>1
  <2> QED
    BY <1>1, <1>10, <2>2
<1> QED
  BY <1>10, <1>11

(* The pixels that wait and the one fetched next, as long as nothing has   *)
(* upset the FIFOs: their numbers follow on from what is drawn.            *)
Coming == IF selector = "pixels" THEN Written ELSE 0

Marked(n, w, scale) ==
  w.rep < scale /\ \E b \in 0 .. Beats - 1 : OnTime(n, w.line, w.rep, b, scale)

Lined(P, n, scale) == \A i \in 1 .. Len(P) : Marked(n + i - 1, P[i], scale)

Numbered ==
  /\ repeater["pixels"] < Scale
  /\ OnTime(drawn + Len(fifo["pixels"]), line["pixels"], repeater["pixels"], Coming, Scale)
  /\ Lined(fifo["pixels"], drawn, Scale)

LEMMA OneLater ==
  ASSUME NEW n \in Int, NEW l \in Nat, NEW r \in Nat, NEW b \in Nat, NEW scale \in Nat,
         OnTime(n, l, r, b, scale)
  PROVE  OnTime(n + 1, l, r, b + 1, scale)
<1> DEFINE f == FrameWords(scale)
           x == Num(l, r, b, scale)
<1>1. PICK m \in Int : n = x + m * f
  BY DEF OnTime
<1>2. x \in Nat /\ f \in Nat /\ Num(l, r, b + 1, scale) = x + 1
  BY Numbers
<1> HIDE DEF f, x
<1>3. m * f \in Int
  BY <1>2
<1> DEFINE y == m * f
<1>4. n = x + y /\ y \in Int
  BY <1>1, <1>3
<1> HIDE DEF y
<1>5. n + 1 = (x + 1) + y
  BY <1>2, <1>4
<1> QED
  BY <1>2, <1>5 DEF OnTime, f, x, y

LEMMA OneFrameLater ==
  ASSUME NEW n \in Int, NEW l \in Nat, NEW r \in Nat, NEW b \in Nat, NEW scale \in Nat,
         OnTime(n, l, r, b, scale)
  PROVE  OnTime(n - FrameWords(scale), l, r, b, scale)
<1> DEFINE f == FrameWords(scale)
           x == Num(l, r, b, scale)
<1>1. PICK m \in Int : n = x + m * f
  BY DEF OnTime
<1>2. x \in Nat /\ f \in Nat
  BY Numbers
<1> HIDE DEF f, x
<1>3. (m - 1) * f = m * f - f
  BY <1>2
<1> DEFINE y == m * f
<1>4. n = x + y /\ y \in Int
  BY <1>1, <1>2
<1>5. n - f = x + (m - 1) * f
  <2> HIDE DEF y
  <2>1. (m - 1) * f = y - f
    BY <1>3 DEF y
  <2> QED
    BY <1>2, <1>4, <2>1
<1>6. m - 1 \in Int
  OBVIOUS
<1> QED
  BY <1>5, <1>6 DEF OnTime, f, x

(* The place of the fetch when a repetition is complete. *)
LEMMA RepetitionComplete ==
  ASSUME NEW n \in Int, NEW l \in 0 .. Lines - 1, NEW scale \in Nat, NEW r \in 0 .. scale - 1,
         OnTime(n, l, r, Beats, scale)
  PROVE  /\ r + 1 # scale => OnTime(n, l, r + 1, 0, scale)
         /\ r + 1 = scale => OnTime(n, IF l + 1 = Lines THEN 0 ELSE l + 1, 0, 0, scale)
<1> DEFINE f == FrameWords(scale)
           x == Num(l, r, Beats, scale)
<1>0. l \in Nat /\ r \in Nat /\ Beats \in Nat /\ l + 1 \in Nat /\ 0 \in Nat
  BY StreamSizes
<1>1. PICK m \in Int : n = x + m * f
  BY DEF OnTime
<1>2. x \in Nat /\ f \in Nat
  BY <1>0, Numbers
<1>3. /\ x = Num(l, r + 1, 0, scale)
      /\ r + 1 = scale => x = Num(l + 1, 0, 0, scale)
      /\ r + 1 = scale /\ l + 1 = Lines => x = f
  BY <1>0, NextRepetition
<1>4. Num(0, 0, 0, scale) = 0
  BY StreamSizes DEF Num
<1> HIDE DEF f, x
<1>5. OnTime(n, l, r + 1, 0, scale)
  BY <1>1, <1>3 DEF OnTime, f
<1>6. r + 1 = scale => OnTime(n, l + 1, 0, 0, scale)
  BY <1>1, <1>3 DEF OnTime, f
<1>7. r + 1 = scale /\ l + 1 = Lines => OnTime(n, 0, 0, 0, scale)
  <2> SUFFICES ASSUME x = f PROVE OnTime(n, 0, 0, 0, scale)
    BY <1>3
  <2>1. (m + 1) * f = m * f + f
    BY <1>2
  <2> DEFINE y == m * f
  <2>2. n = f + y /\ y \in Int /\ (m + 1) * f = y + f
    BY <1>1, <1>2, <2>1
  <2>3. n = 0 + (m + 1) * f
    <3> HIDE DEF y
    <3> QED
      BY <1>2, <2>2
  <2>4. m + 1 \in Int
    OBVIOUS
  <2> QED
    BY <1>4, <2>3, <2>4 DEF OnTime, f
<1> QED
  BY <1>5, <1>6, <1>7

(* The same for the pixels of the FIFO. *)
LEMMA MarkedOneFrameLater ==
  ASSUME NEW n \in Int, NEW w \in FifoWord, NEW scale \in Nat, Marked(n, w, scale)
  PROVE  Marked(n - FrameWords(scale), w, scale)
<1>1. w.line \in Nat /\ w.rep \in Nat
  BY StreamSizes DEF FifoWord
<1>2. PICK b \in 0 .. Beats - 1 : OnTime(n, w.line, w.rep, b, scale)
  BY DEF Marked
<1>3. b \in Nat
  OBVIOUS
<1>4. OnTime(n - FrameWords(scale), w.line, w.rep, b, scale)
  BY <1>1, <1>2, <1>3, OneFrameLater
<1> QED
  BY <1>4 DEF Marked

LEMMA LinedOneFrameLater ==
  ASSUME NEW n \in Int, NEW P \in Seq(FifoWord), NEW scale \in Nat, Lined(P, n, scale)
  PROVE  Lined(P, n - FrameWords(scale), scale)
<1> DEFINE f == FrameWords(scale)
<1>1. f \in Nat
  BY Numbers
<1>2. ASSUME NEW i \in 1 .. Len(P)
      PROVE  Marked((n - f) + i - 1, P[i], scale)
  <2>1. Len(P) \in Nat /\ P[i] \in FifoWord
    BY LenProperties, ElementOfSeq
  <2>2. Marked(n + i - 1, P[i], scale)
    BY DEF Lined
  <2>3. i \in Int /\ n + i - 1 \in Int
    BY <2>1
  <2>4. Marked((n + i - 1) - f, P[i], scale)
    BY <2>1, <2>2, <2>3, MarkedOneFrameLater
  <2>5. (n + i - 1) - f = (n - f) + i - 1
    <3> HIDE DEF f
    <3> QED
      BY <1>1, <2>3
  <2> QED
    BY <2>4, <2>5
<1> QED
  BY <1>2 DEF Lined

LEMMA LinedTail ==
  ASSUME NEW n \in Int, NEW P \in Seq(FifoWord), P # <<>>, NEW scale, Lined(P, n, scale)
  PROVE  Lined(Tail(P), n + 1, scale)
<1> DEFINE p == Len(P)
<1>1. Len(Tail(P)) = p - 1 /\ \A i \in 1 .. p - 1 : Tail(P)[i] = P[i + 1]
  BY HeadTailProperties
<1>2. p \in Nat
  BY LenProperties
<1>3. ASSUME NEW i \in 1 .. p - 1
      PROVE  Marked((n + 1) + i - 1, Tail(P)[i], scale)
  <2> HIDE DEF p
  <2>1. i + 1 \in 1 .. p /\ n + (i + 1) - 1 = (n + 1) + i - 1
    BY <1>2
  <2>2. Marked(n + (i + 1) - 1, P[i + 1], scale)
    BY <2>1 DEF Lined, p
  <2> QED
    BY <1>1, <2>1, <2>2
<1> QED
  BY <1>1, <1>3 DEF Lined

LEMMA LinedAppend ==
  ASSUME NEW n \in Int, NEW P \in Seq(FifoWord), NEW scale, Lined(P, n, scale),
         NEW w \in FifoWord, Marked(n + Len(P), w, scale)
  PROVE  Lined(Append(P, w), n, scale)
<1> DEFINE p == Len(P)
           Q == Append(P, w)
<1>1. Len(Q) = p + 1 /\ (\A i \in 1 .. p : Q[i] = P[i]) /\ Q[p + 1] = w
  BY AppendProperties
<1>2. p \in Nat
  BY LenProperties
<1>3. ASSUME NEW i \in 1 .. p + 1
      PROVE  Marked(n + i - 1, Q[i], scale)
  <2>1. CASE i \in 1 .. p
    BY <1>1, <2>1 DEF Lined
  <2>2. CASE i \notin 1 .. p
    <3>1. i = p + 1 /\ n + i - 1 = n + p
      <4> HIDE DEF p
      <4> QED
        BY <1>2, <2>2
    <3> QED
      BY <1>1, <3>1
  <2> QED
    BY <2>1, <2>2
<1> QED
  BY <1>1, <1>3 DEF Lined

-----------------------------------------------------------------------------
(* The invariant. *)

InOrder == Fetching /\ HasPlace /\ InTurn /\ Numbered

IInv ==
  /\ RegsTypeOK /\ StreamOK
  /\ vs = "idle" => drawn = 0
  /\ upset = {} => InOrder

LEMMA FactorCounted ==
  ASSUME NEW s \in Settings
  PROVE  s["aux_attr"] \in Nat /\ s["aux_attr"] > 0 /\ s["aux_attr"] < Repeats
<1>1. s["aux_attr"] \in Modes
  BY DEF Settings, Register, Addresses, Geometry
<1> DEFINE x == s["aux_attr"]
<1> HIDE DEF x
<1>2. x \in 1 .. Repeats - 1
  BY <1>1, ScalesAssumption DEF x
<1>3. x \in Nat /\ x > 0 /\ x < Repeats
  BY <1>2, StreamSizes
<1> QED
  BY <1>3 DEF x

LEMMA ScaleTyped ==
  ASSUME RegsTypeOK
  PROVE  Scale \in Nat /\ Scale > 0 /\ Scale < Repeats
  BY FactorCounted DEF Scale, RegsTypeOK

LEMMA EmptiedTyped ==
  ASSUME NEW q \in Seq(FifoWord), Len(q) <= Depth, NEW draws \in BOOLEAN
  PROVE  /\ Emptied(q, draws) \in Seq(FifoWord) /\ Len(Emptied(q, draws)) <= Len(q)
         /\ Len(Emptied(q, draws)) = Len(q) - (IF draws /\ q # <<>> THEN 1 ELSE 0)
<1>1. CASE draws /\ q # <<>>
  <2>1. Tail(q) \in Seq(FifoWord) /\ Len(Tail(q)) = Len(q) - 1 /\ Len(q) \in Nat
    BY <1>1, HeadTailProperties, LenProperties
  <2> QED
    BY <1>1, <2>1 DEF Emptied
<1>2. CASE ~(draws /\ q # <<>>)
  <2>1. Len(q) \in Nat
    BY LenProperties
  <2> QED
    BY <1>2, <2>1 DEF Emptied
<1> QED
  BY <1>1, <1>2

(* The FIFO keeps a place for the beats to come. *)
LEMMA PlaceKept ==
  ASSUME StreamOK, NEW draws \in BOOLEAN, Fifos(FALSE, draws), HasPlace, NEW scale,
         Written \in 0 .. Beats, Written' \in 0 .. Beats, Waiting \/ Getting \/ Turning(scale)
  PROVE  HasPlace'
<1>1. /\ selector \in Source /\ fifo[selector] \in Seq(FifoWord) /\ Len(fifo[selector]) <= Depth
  BY SelectorTyped DEF StreamOK, StreamTypeOK
<1> DEFINE rest == Emptied(fifo[selector], draws)
           n == Len(fifo[selector])
           k == Written
           r == Len(rest)
<1>2. rest \in Seq(FifoWord) /\ r <= n /\ n \in Nat /\ r \in Nat
  BY <1>1, EmptiedTyped, LenProperties
<1>3. fifo'[selector] = IF Getting THEN Append(rest, Word(selector)) ELSE rest
  BY <1>1, PixelsMove DEF Turning
<1>4. CASE Getting
  <2>1. amba # "idle" /\ k < Beats /\ Written' = k + 1 /\ selector' = selector
    BY <1>4 DEF Getting
  <2>2. Word(selector) \in FifoWord
    BY SelectorTyped DEF StreamOK
  <2>3. Len(fifo'[selector]) = r + 1
    BY <1>2, <1>3, <1>4, <2>2, AppendProperties
  <2>4. n <= Depth - Beats + k /\ k \in Nat
    BY <2>1 DEF HasPlace
  <2> HIDE DEF n, k, r
  <2>5. r + 1 <= Depth - Beats + (k + 1)
    BY <1>2, <2>4, StreamSizes
  <2> QED
    BY <2>1, <2>3, <2>5 DEF HasPlace
<1>5. CASE Waiting /\ amba' # "idle"
  <2>1. Written' = k /\ selector' = selector /\ (amba = "idle" => HasRoom)
    BY <1>5 DEF Waiting
  <2>2. k \in Nat
    OBVIOUS
  <2>3. n <= Depth - Beats + k
    <3>1. CASE amba = "idle"
      <4>1. ~(n > Depth - Beats)
        BY <2>1, <3>1 DEF HasRoom, ProgFull
      <4> HIDE DEF n, k
      <4> QED
        BY <1>2, <2>2, <4>1, StreamSizes
    <3>2. CASE amba # "idle"
      BY <3>2 DEF HasPlace
    <3> QED
      BY <3>1, <3>2
  <2>4. fifo'[selector] = rest
    BY <1>3, <1>5 DEF Waiting, Getting
  <2>5. r <= Depth - Beats + k
    <3> HIDE DEF n, k, r
    <3> QED
      BY <1>2, <2>2, <2>3, StreamSizes
  <2> QED
    BY <2>1, <2>4, <2>5 DEF HasPlace
<1>6. CASE amba' = "idle"
  BY <1>6 DEF HasPlace
<1> QED
  BY <1>4, <1>5, <1>6 DEF Turning

(* The two FIFOs stay in turn. *)
LEMMA TurnKept ==
  ASSUME StreamOK, NEW draws \in BOOLEAN, Fifos(FALSE, draws), HasPlace, InTurn,
         draws => \A s \in Source : fifo[s] # <<>>, UNCHANGED Scale,
         Written \in 0 .. Beats, Written' \in 0 .. Beats, Waiting \/ Getting \/ Turning(Scale)
  PROVE  InTurn'
<1> DEFINE P == Emptied(fifo["pixels"], draws)
           A == Emptied(fifo["attributes"], draws)
           w == Word("attributes")
           d == Ahead
<1>1. /\ selector \in Source /\ Source = {"pixels", "attributes"}
      /\ w \in FifoWord /\ Word("pixels") \in FifoWord
      /\ fifo["pixels"] \in Seq(FifoWord) /\ fifo["attributes"] \in Seq(FifoWord)
      /\ Len(fifo["pixels"]) <= Depth /\ Len(fifo["attributes"]) <= Depth
  BY SelectorTyped DEF StreamOK, StreamTypeOK, Source
<1>2. P \in Seq(FifoWord) /\ A \in Seq(FifoWord)
  BY <1>1, EmptiedTyped
<1>3. d \in Nat
  BY StreamSizes DEF Ahead
<1>4. Matches(P, A, d, w)
  <2>1. Matches(fifo["pixels"], fifo["attributes"], d, w)
    BY DEF InTurn
  <2>2. draws => fifo["pixels"] # <<>> /\ fifo["attributes"] # <<>>
    BY <1>1
  <2> HIDE DEF w, d
  <2> QED
    BY <1>1, <1>3, <2>1, <2>2, BothEmptied
<1>5. \A s \in Source : fifo'[s] = IF Getting /\ selector = s
                                   THEN Append(Emptied(fifo[s], draws), Word(selector))
                                   ELSE Emptied(fifo[s], draws)
  BY PixelsMove DEF Turning
<1>6. CASE Waiting
  <2>1. UNCHANGED <<selector, line, repeater>> /\ Written' = Written /\ ~Getting
    BY <1>6 DEF Waiting, Getting
  <2>2. fifo'["pixels"] = P /\ fifo'["attributes"] = A
    BY <1>1, <1>5, <2>1
  <2>3. Ahead' = d /\ Word("attributes")' = w /\ Word("pixels")' = Word("pixels")
    BY <2>1 DEF Ahead, Word
  <2>4. AfterLine("attributes")' = AfterLine("attributes") /\ AfterRep("attributes")' = AfterRep("attributes")
    BY <2>1 DEF AfterLine, AfterRep, Repeated, NextLine
  <2>5. Matches(fifo["pixels"], fifo["attributes"], Ahead, Word("attributes"))'
    BY <1>4, <2>2, <2>3 DEF Matches
  <2> QED
    BY <2>1, <2>3, <2>4, <2>5 DEF InTurn
<1>7. CASE Getting
  <2>1. UNCHANGED <<selector, line, repeater>> /\ Written' = Written + 1 /\ Written < Beats
    BY <1>7 DEF Getting
  <2>2. Word("attributes")' = w /\ Word("pixels")' = Word("pixels")
    BY <2>1 DEF Word
  <2>3. AfterLine("attributes")' = AfterLine("attributes") /\ AfterRep("attributes")' = AfterRep("attributes")
    BY <2>1 DEF AfterLine, AfterRep, Repeated, NextLine
  <2>4. Matches(fifo'["pixels"], fifo'["attributes"], Ahead', w)
    <3>1. CASE selector = "pixels"
      <4>1. fifo'["pixels"] = Append(P, w) /\ fifo'["attributes"] = A
        BY <1>1, <1>5, <1>7, <3>1 DEF InTurn
      <4>2. Ahead' = d + 1
        BY <2>1, <3>1 DEF Ahead
      <4> HIDE DEF P, A, w, d
      <4>3. Matches(Append(P, w), A, d + 1, w)
        BY <1>1, <1>2, <1>3, <1>4, PixelsComes
      <4> QED
        BY <4>1, <4>2, <4>3
    <3>2. CASE selector = "attributes"
      <4>1. fifo'["pixels"] = P /\ fifo'["attributes"] = Append(A, w)
        BY <1>1, <1>5, <1>7, <3>2
      <4>2. Ahead' = d - 1 /\ d > 0
        BY <2>1, <3>2, StreamSizes DEF Ahead
      <4> HIDE DEF P, A, w, d
      <4>3. Matches(P, Append(A, w), d - 1, w)
        BY <1>1, <1>2, <1>3, <1>4, <4>2, ColoursCome
      <4> QED
        BY <4>1, <4>2, <4>3
    <3> QED
      BY <1>1, <3>1, <3>2
  <2>5. Matches(fifo["pixels"], fifo["attributes"], Ahead, Word("attributes"))'
    BY <2>2, <2>4 DEF Matches
  <2> QED
    BY <2>1, <2>2, <2>3, <2>5 DEF InTurn
<1>8. CASE Turning(Scale)
  <2>1. /\ ~Getting /\ Written = Beats /\ Written' = 0 /\ selector' = Other[selector]
        /\ repeater' = [repeater EXCEPT ![selector] = AfterRep(selector)]
        /\ line' = [line EXCEPT ![selector] = AfterLine(selector)]
    BY <1>8 DEF Turning, Getting, FetchDone, AfterRep, AfterLine
  <2>2. fifo'["pixels"] = P /\ fifo'["attributes"] = A
    BY <1>1, <1>5, <2>1
  <2>3. line \in [Source -> 0 .. Lines - 1] /\ repeater \in [Source -> 0 .. Repeats - 1]
    BY DEF StreamOK, StreamTypeOK
  <2>4. CASE selector = "pixels"
    <3>1. selector' = "attributes" /\ Ahead' = d
      BY <2>1, <2>4, StreamSizes DEF Ahead, Other
    <3>2. /\ line'["attributes"] = line["attributes"] /\ repeater'["attributes"] = repeater["attributes"]
          /\ line'["pixels"] = AfterLine("pixels") /\ repeater'["pixels"] = AfterRep("pixels")
      BY <1>1, <2>1, <2>3, <2>4
    <3>3. Word("attributes")' = w
      BY <3>2 DEF Word
    <3>4. line["pixels"] = line["attributes"] /\ repeater["pixels"] = repeater["attributes"]
      BY <2>4 DEF InTurn, Word
    <3>5. AfterLine("pixels") = AfterLine("attributes")' /\ AfterRep("pixels") = AfterRep("attributes")'
      BY <3>2, <3>4 DEF AfterLine, AfterRep, Repeated, NextLine
    <3>6. Matches(fifo["pixels"], fifo["attributes"], Ahead, Word("attributes"))'
      BY <1>4, <2>2, <3>1, <3>3 DEF Matches
    <3> QED
      BY <3>1, <3>2, <3>5, <3>6 DEF InTurn
  <2>5. CASE selector = "attributes"
    <3>1. selector' = "pixels" /\ Ahead' = 0 /\ d = 0
      BY <2>1, <2>5, StreamSizes DEF Ahead, Other
    <3>2. /\ line'["pixels"] = line["pixels"] /\ repeater'["pixels"] = repeater["pixels"]
          /\ line'["attributes"] = AfterLine("attributes")
          /\ repeater'["attributes"] = AfterRep("attributes")
      BY <1>1, <2>1, <2>3, <2>5
    <3>3. Word("pixels")' = Word("attributes")'
      BY <2>5, <3>2 DEF Word, InTurn
    <3>4. \A v : Matches(P, A, 0, v)
      <4> HIDE DEF P, A, w, d
      <4> QED
        BY <1>2, <1>4, <3>1, EquallyLong
    <3>5. Matches(fifo["pixels"], fifo["attributes"], Ahead, Word("attributes"))'
      BY <2>2, <3>1, <3>4 DEF Matches
    <3> QED
      BY <3>1, <3>3, <3>5 DEF InTurn
  <2> QED
    BY <1>1, <2>4, <2>5
<1> QED
  BY <1>6, <1>7, <1>8

(* A frame goes on by the word that is drawn, or begins anew. *)
LEMMA FrameMoves ==
  ASSUME StreamOK, NEW ready \in BOOLEAN, NEW changing, NEW scale, Frames(ready, changing, scale),
         vs = "idle" => drawn = 0
  PROVE  /\ \/ drawn' = drawn + (IF Draws(ready) THEN 1 ELSE 0)
            \/ drawn' = (drawn + (IF Draws(ready) THEN 1 ELSE 0)) - FrameWords(scale)
         /\ vs' = "idle" => drawn' = 0
<1>1. vs \in {"idle", "streaming"} /\ drawn \in Nat
  BY DEF StreamOK, StreamTypeOK
<1>2. CASE Starts(ready, changing)
  <2>1. vs = "idle" /\ ~Draws(ready)
    BY <1>2 DEF Starts, Draws
  <2> QED
    BY <1>1, <1>2, <2>1 DEF Frames
<1>3. CASE ~Starts(ready, changing) /\ ~Draws(ready)
  BY <1>1, <1>3 DEF Frames
<1>4. CASE ~Starts(ready, changing) /\ Draws(ready)
  <2>1. vs = "streaming"
    BY <1>4 DEF Draws
  <2>2. vs' = (IF drawn + 1 = FrameWords(scale) THEN "idle" ELSE "streaming")
    BY <1>4, <2>1 DEF Frames
  <2>3. drawn' = IF vs' = "streaming" THEN drawn + 1 ELSE 0
    BY <1>4 DEF Frames
  <2>4. CASE drawn + 1 = FrameWords(scale)
    <3>1. vs' = "idle" /\ drawn' = 0
      BY <2>2, <2>3, <2>4
    <3>2. (drawn + 1) - FrameWords(scale) = 0
      BY <1>1, <2>4
    <3> QED
      BY <1>4, <3>1, <3>2
  <2>5. CASE drawn + 1 # FrameWords(scale)
    BY <1>4, <2>2, <2>3, <2>5
  <2> QED
    BY <2>4, <2>5
<1> QED
  BY <1>2, <1>3, <1>4

(* The pixels keep their numbers. *)
LEMMA NumbersKept ==
  ASSUME StreamOK, RegsTypeOK, NEW ready \in BOOLEAN, NEW changing, Frames(ready, changing, Scale),
         Fifos(FALSE, Draws(ready)), HasPlace, Numbered, vs = "idle" => drawn = 0,
         Draws(ready) => fifo["pixels"] # <<>>, UNCHANGED Scale, StreamOK',
         Written \in 0 .. Beats, Written' \in 0 .. Beats, Waiting \/ Getting \/ Turning(Scale)
  PROVE  Numbered'
<1> DEFINE old == fifo["pixels"]
           draws == Draws(ready)
           P == Emptied(old, draws)
           n == drawn + (IF draws THEN 1 ELSE 0)
           l == line["pixels"]
           r == repeater["pixels"]
<1>0. draws \in BOOLEAN
  BY DEF Draws
<1>1. /\ selector \in Source /\ "pixels" \in Source /\ "attributes" \in Source
      /\ Source = {"pixels", "attributes"} /\ Word("pixels") \in FifoWord
      /\ old \in Seq(FifoWord) /\ Len(old) <= Depth /\ drawn \in Nat /\ drawn' \in Nat
      /\ l \in 0 .. Lines - 1 /\ r \in 0 .. Repeats - 1 /\ l \in Nat /\ r \in Nat
  BY SelectorTyped, StreamSizes DEF StreamOK, StreamTypeOK, Source
<1>2. /\ P \in Seq(FifoWord) /\ Len(P) = Len(old) - (IF draws THEN 1 ELSE 0)
      /\ Len(P) \in Nat /\ Len(old) \in Nat /\ n \in Nat /\ n + Len(P) = drawn + Len(old)
  <2>1. P \in Seq(FifoWord) /\ Len(P) = Len(old) - (IF draws THEN 1 ELSE 0)
    <3> HIDE DEF draws
    <3>1. draws => old # <<>>
      BY DEF draws
    <3> QED
      BY <1>0, <1>1, <3>1, EmptiedTyped
  <2>2. Len(P) \in Nat /\ Len(old) \in Nat
    BY <1>1, <2>1, LenProperties
  <2> DEFINE p == Len(P)
             o == Len(old)
  <2>3. p \in Nat /\ o \in Nat /\ p = o - (IF draws THEN 1 ELSE 0)
    BY <2>1, <2>2
  <2> HIDE DEF p, o
  <2>4. n \in Nat /\ n + p = drawn + o
    BY <1>1, <2>3
  <2> QED
    BY <2>1, <2>2, <2>4 DEF p, o
<1>3. Scale \in Nat /\ Scale > 0 /\ Scale < Repeats /\ r < Scale /\ r \in 0 .. Scale - 1
  <2>1. Scale \in Nat /\ Scale > 0 /\ Scale < Repeats /\ r < Scale
    BY ScaleTyped DEF Numbered
  <2> HIDE DEF r
  <2> QED
    BY <1>1, <2>1
<1>4. drawn' = n \/ drawn' = n - FrameWords(Scale)
  <2>1. \/ drawn' = drawn + (IF Draws(ready) THEN 1 ELSE 0)
        \/ drawn' = (drawn + (IF Draws(ready) THEN 1 ELSE 0)) - FrameWords(Scale)
    BY FrameMoves
  <2> QED
    BY <2>1
<1>5. Coming \in Nat
  BY DEF Coming
<1>6. Lined(P, drawn', Scale)
  <2>1. Lined(P, n, Scale)
    <3>1. CASE draws
      <4>1. P = Tail(old) /\ n = drawn + 1 /\ Lined(old, drawn, Scale)
        BY <3>1 DEF Emptied, Numbered
      <4>2. drawn \in Int
        BY <1>1
      <4> HIDE DEF P, n
      <4> QED
        BY <1>1, <3>1, <4>1, <4>2, LinedTail
    <3>2. CASE ~draws
      <4>1. P = old /\ n = drawn /\ Lined(old, drawn, Scale)
        BY <1>1, <3>2 DEF Emptied, Numbered
      <4> QED
        BY <4>1
    <3> QED
      BY <3>1, <3>2
  <2> HIDE DEF P, n
  <2>2. n \in Int
    BY <1>2
  <2>3. Lined(P, n - FrameWords(Scale), Scale)
    BY <1>2, <1>3, <2>1, <2>2, LinedOneFrameLater
  <2> QED
    BY <1>4, <2>1, <2>3
<1> DEFINE m == drawn' + Len(P)
<1>7. OnTime(m, l, r, Coming, Scale) /\ m \in Int
  <2>1. OnTime(n + Len(P), l, r, Coming, Scale)
    BY <1>2 DEF Numbered
  <2> DEFINE q == n + Len(P)
             p == Len(P)
             f == FrameWords(Scale)
  <2>2. q \in Int /\ m \in Int
    <3>1. n \in Nat /\ p \in Nat /\ drawn' \in Nat
      BY <1>1, <1>2
    <3> HIDE DEF n, p
    <3> QED
      BY <3>1 DEF p
  <2>3. OnTime(q - f, l, r, Coming, Scale)
    <3> HIDE DEF q, l, r
    <3> QED
      BY <1>1, <1>3, <1>5, <2>1, <2>2, OneFrameLater DEF q
  <2>4. f \in Nat
    BY <1>3, Numbers
  <2>5. m = q \/ m = q - f
    <3>1. p \in Nat /\ n \in Nat /\ drawn' \in Nat /\ (drawn' = n \/ drawn' = n - f)
      BY <1>1, <1>2, <1>4
    <3> HIDE DEF p, n, f
    <3>2. drawn' + p = n + p \/ drawn' + p = (n + p) - f
      <4>1. CASE drawn' = n
        BY <4>1
      <4>2. CASE drawn' = n - f
        <5>1. \A u, v, w \in Int : (u - v) + w = (u + w) - v
          OBVIOUS
        <5>2. n \in Int /\ f \in Int /\ p \in Int
          BY <2>4, <3>1
        <5> QED
          BY <4>2, <5>1, <5>2
      <4> QED
        BY <3>1, <4>1, <4>2
    <3>3. m = drawn' + p /\ q = n + p
      BY DEF p
    <3> HIDE DEF m, q
    <3> QED
      BY <3>2, <3>3
  <2> QED
    BY <2>1, <2>2, <2>3, <2>5
<1>8. \A s \in Source : fifo'[s] = IF Getting /\ selector = s
                                   THEN Append(Emptied(fifo[s], draws), Word(selector))
                                   ELSE Emptied(fifo[s], draws)
  BY <1>0, PixelsMove DEF Turning
<1>9. CASE Getting /\ selector = "pixels"
  <2>1. fifo'["pixels"] = Append(P, Word("pixels"))
    BY <1>1, <1>8, <1>9
  <2>2. line' = line /\ repeater' = repeater /\ selector' = selector
    BY <1>9 DEF Getting
  <2>3. Coming = Written /\ Coming' = Written + 1 /\ Written \in 0 .. Beats - 1 /\ Written \in Nat
    <3>1. Written < Beats /\ Written' = Written + 1
      BY <1>9 DEF Getting
    <3> DEFINE k == Written
    <3>2. k \in 0 .. Beats /\ k < Beats
      BY <3>1
    <3> HIDE DEF k
    <3>3. k \in 0 .. Beats - 1 /\ k \in Nat
      BY <3>2, StreamSizes
    <3> QED
      BY <1>9, <2>2, <3>1, <3>3 DEF Coming, k
  <2>4. Marked(m, Word("pixels"), Scale)
    <3>1. OnTime(m, l, r, Written, Scale)
      BY <1>7, <2>3
    <3>2. Word("pixels").line = l /\ Word("pixels").rep = r
      BY DEF Word
    <3> QED
      BY <1>3, <2>3, <3>1, <3>2 DEF Marked
  <2>5. Lined(Append(P, Word("pixels")), drawn', Scale)
    <3> HIDE DEF P
    <3>1. drawn' \in Int
      BY <1>1
    <3> QED
      BY <1>1, <1>2, <1>6, <2>4, <3>1, LinedAppend DEF m
  <2>6. OnTime(m + 1, l, r, Written + 1, Scale)
    <3>1. OnTime(m, l, r, Written, Scale)
      BY <1>7, <2>3
    <3> HIDE DEF m, l, r
    <3> QED
      BY <1>1, <1>3, <1>7, <2>3, <3>1, OneLater
  <2>7. drawn' + Len(fifo'["pixels"]) = m + 1
    <3>1. Len(fifo'["pixels"]) = Len(P) + 1
      BY <1>1, <1>2, <2>1, AppendProperties
    <3> DEFINE p == Len(P)
               s == Len(fifo'["pixels"])
    <3>2. s = p + 1 /\ p \in Nat /\ drawn' \in Nat /\ m = drawn' + p
      BY <1>1, <1>2, <3>1
    <3> HIDE DEF p, s, m
    <3>3. drawn' + s = m + 1
      BY <3>2
    <3> QED
      BY <3>3 DEF s
  <2> HIDE DEF m
  <2> QED
    BY <1>3, <2>1, <2>2, <2>3, <2>5, <2>6, <2>7 DEF Numbered
<1>10. CASE ~(Getting /\ selector = "pixels")
  <2>1. fifo'["pixels"] = P
    BY <1>1, <1>8, <1>10
  <2>2. CASE ~(Turning(Scale) /\ selector = "pixels")
    <3>1. line'["pixels"] = l /\ repeater'["pixels"] = r /\ Coming' = Coming
      <4>1. CASE Waiting
        BY <4>1 DEF Waiting, Coming
      <4>2. CASE Getting
        BY <1>10, <4>2 DEF Getting, Coming
      <4>3. CASE Turning(Scale)
        <5>1. selector = "attributes"
          BY <1>1, <2>2, <4>3
        <5>2. line'["pixels"] = l /\ repeater'["pixels"] = r
          BY <1>1, <4>3, <5>1 DEF Turning, FetchDone, StreamOK, StreamTypeOK
        <5> QED
          BY <4>3, <5>1, <5>2 DEF Turning, Coming
      <4> QED
        BY <4>1, <4>2, <4>3
    <3> QED
      BY <1>3, <1>6, <1>7, <2>1, <3>1 DEF Numbered
  <2>3. CASE Turning(Scale) /\ selector = "pixels"
    <3>1. /\ Coming = Beats /\ Coming' = 0
          /\ line'["pixels"] = IF Repeated("pixels", Scale) THEN NextLine("pixels") ELSE l
          /\ repeater'["pixels"] = IF Repeated("pixels", Scale) THEN 0 ELSE (r + 1) % Repeats
      BY <1>1, <2>3 DEF Turning, FetchDone, Coming, StreamOK, StreamTypeOK
    <3>2. (r + 1) % Repeats = r + 1 /\ Scale % Repeats = Scale
      <4>1. r + 1 \in Nat /\ r + 1 < Repeats
        <5> HIDE DEF r
        <5> QED
          BY <1>1, <1>3, StreamSizes
      <4> QED
        BY <1>3, <4>1, Remainders
    <3>3. Repeated("pixels", Scale) <=> r + 1 = Scale
      BY <3>2 DEF Repeated
    <3>4. NextLine("pixels") = IF l + 1 = Lines THEN 0 ELSE l + 1
      BY DEF NextLine
    <3>5. OnTime(m, l, r, Beats, Scale)
      BY <1>7, <3>1
    <3>6. /\ r + 1 # Scale => OnTime(m, l, r + 1, 0, Scale)
          /\ r + 1 = Scale => OnTime(m, IF l + 1 = Lines THEN 0 ELSE l + 1, 0, 0, Scale)
      <4> HIDE DEF m, l, r
      <4> QED
        BY <1>1, <1>3, <1>7, <3>5, RepetitionComplete
    <3>7. OnTime(m, line'["pixels"], repeater'["pixels"], 0, Scale)
      <4>1. CASE r + 1 = Scale
        <5>1. line'["pixels"] = (IF l + 1 = Lines THEN 0 ELSE l + 1) /\ repeater'["pixels"] = 0
          BY <3>1, <3>3, <3>4, <4>1
        <5> QED
          BY <3>6, <4>1, <5>1
      <4>2. CASE r + 1 # Scale
        <5>1. line'["pixels"] = l /\ repeater'["pixels"] = r + 1
          BY <3>1, <3>2, <3>3, <4>2
        <5> QED
          BY <3>6, <4>2, <5>1
      <4> QED
        BY <4>1, <4>2
    <3>8. repeater'["pixels"] < Scale
      <4>1. repeater'["pixels"] = IF r + 1 = Scale THEN 0 ELSE r + 1
        BY <3>1, <3>2, <3>3
      <4> HIDE DEF r
      <4> QED
        BY <1>1, <1>3, <4>1
    <3> QED
      BY <1>6, <2>1, <3>1, <3>7, <3>8 DEF Numbered
  <2> QED
    BY <2>2, <2>3
<1> QED
  BY <1>9, <1>10

(* A clock keeps the types. *)
LEMMA ClockTyped ==
  ASSUME RegsTypeOK, StreamOK, vs = "idle" => drawn = 0,
         NEW sends \in BOOLEAN, NEW ar \in BOOLEAN, NEW ready \in BOOLEAN, Clock(sends, ar, ready)
  PROVE  RegsTypeOK' /\ StreamOK' /\ (vs' = "idle" => drawn' = 0)
<1> DEFINE flushed == flush["immediate"]
           changing == pending["immediate"]
           scale == active["aux_attr"]
           rescaled == active'["aux_attr"] # active["aux_attr"]
<1>1. /\ Driver(sends) /\ RegsClock(sends, vs = "idle", FALSE, border)
      /\ StreamClock(ar, ready, flushed, changing, scale, rescaled)
  BY DEF Clock
<1>2. RegsTypeOK'
  <2> DEFINE idle == vs = "idle"
  <2>1. idle \in BOOLEAN /\ RegsClock(sends, idle, FALSE, border)
    BY <1>1
  <2> HIDE DEF idle
  <2> QED
    BY <1>1, <2>1, RegsTyped
<1>3. StreamOK'
  <2>1. flushed \in BOOLEAN
    BY DEF RegsTypeOK, When
  <2> HIDE DEF flushed, changing, scale, rescaled
  <2> QED
    BY <1>1, <2>1, StreamTyped
<1>4. vs' = "idle" => drawn' = 0
  <2>1. Frames(ready, changing, scale)
    BY <1>1 DEF StreamClock
  <2> HIDE DEF changing, scale
  <2> QED
    BY <2>1, FrameMoves
<1> QED
  BY <1>2, <1>3, <1>4

(* A flush that upsets nothing starts everything over between two frames. *)
LEMMA StartsOver ==
  ASSUME RegsTypeOK', StreamOK', owed' = <<>>, vs' = "idle", vs' = "idle" => drawn' = 0,
         FetchReset, fifo' = [s \in Source |-> <<>>]
  PROVE  InOrder'
<1>1. /\ amba' = "idle" /\ selector' = "pixels" /\ drawn' = 0
      /\ line'["pixels"] = 0 /\ line'["attributes"] = 0
      /\ repeater'["pixels"] = 0 /\ repeater'["attributes"] = 0
      /\ fifo'["pixels"] = <<>> /\ fifo'["attributes"] = <<>>
  BY DEF FetchReset, Source
<1>2. Written' = 0 /\ Ahead' = 0 /\ Coming' = 0 /\ Len(<<>>) = 0
  BY <1>1 DEF Written, Ahead, Coming
<1>3. Fetching' /\ HasPlace'
  BY <1>1 DEF Fetching, HasPlace
<1>4. InTurn'
  <2>1. Matches(<<>>, <<>>, 0, Word("attributes")')
    BY <1>2 DEF Matches
  <2>2. Matches(fifo["pixels"], fifo["attributes"], Ahead, Word("attributes"))'
    BY <1>1, <1>2, <2>1 DEF Matches
  <2>3. Word("pixels")' = Word("attributes")'
    BY <1>1 DEF Word
  <2> QED
    BY <1>1, <2>2, <2>3 DEF InTurn
<1>5. Numbered'
  <2> DEFINE scale == Scale'
  <2>1. scale \in Nat /\ scale > 0
    BY FactorCounted DEF Scale, RegsTypeOK
  <2> HIDE DEF scale
  <2>2. OnTime(0, 0, 0, 0, scale)
    <3> DEFINE f == FrameWords(scale)
    <3>1. Num(0, 0, 0, scale) = 0
      BY <2>1, StreamSizes DEF Num
    <3>2. f \in Nat
      BY <2>1, Numbers
    <3> HIDE DEF f
    <3>3. 0 = 0 + 0 * f /\ 0 \in Int
      BY <3>2
    <3> QED
      BY <3>1, <3>3 DEF OnTime, f
  <2>3. Lined(<<>>, 0, scale)
    BY <1>2 DEF Lined
  <2>4. drawn' + Len(fifo'["pixels"]) = 0
    BY <1>1, <1>2
  <2> QED
    BY <1>1, <1>2, <2>1, <2>2, <2>3, <2>4 DEF Numbered, scale
<1> QED
  BY <1>3, <1>4, <1>5 DEF InOrder

(* A clock that upsets nothing keeps the order. *)
LEMMA OrderKept ==
  ASSUME IInv, RegsTypeOK', StreamOK', vs' = "idle" => drawn' = 0,
         NEW sends \in BOOLEAN, NEW ar \in BOOLEAN, NEW ready \in BOOLEAN, Clock(sends, ar, ready),
         upset' = {}
  PROVE  InOrder'
<1> DEFINE changing == pending["immediate"]
           rescaled == active'["aux_attr"] # active["aux_attr"]
<1>1. StreamClock(ar, ready, flush["immediate"], changing, Scale, rescaled)
  BY DEF Clock, Scale
<1>2. flush["immediate"] \in BOOLEAN
  BY DEF IInv, RegsTypeOK, When
<1> HIDE DEF changing
<1>3. CASE flush["immediate"] = TRUE
  <2>1. FetchReset /\ Fifos(TRUE, Draws(ready)) /\ Upsets(TRUE, ready, rescaled)
    BY <1>1, <1>3 DEF StreamClock
  <2>2. vs' \in {"idle", "streaming"}
    BY DEF StreamOK, StreamTypeOK
  <2>3. owed' = <<>> /\ vs' = "idle"
    <3> HIDE DEF rescaled
    <3> QED
      BY <2>1, <2>2, FlushedClean
  <2>4. fifo' = [s \in Source |-> <<>>]
    BY <2>1, FifoFlushed
  <2> QED
    BY <2>1, <2>3, <2>4, StartsOver
<1>4. CASE flush["immediate"] = FALSE
  <2>1. /\ Memory(ar) /\ Fetch(ar, Scale) /\ Fifos(FALSE, Draws(ready))
        /\ Frames(ready, changing, Scale) /\ Upsets(FALSE, ready, rescaled)
    BY <1>1, <1>4 DEF StreamClock
  <2>2. /\ upset = {} /\ amba' # "error" /\ ~rescaled
        /\ Draws(ready) => \A s \in Source : fifo[s] # <<>>
    <3> HIDE DEF rescaled
    <3> QED
      BY <2>1, NothingUpset
  <2>3. UNCHANGED Scale
    BY <2>2 DEF Scale
  <2>4. RegsTypeOK /\ StreamOK /\ (vs = "idle" => drawn = 0) /\ Fetching /\ HasPlace /\ InTurn /\ Numbered
    BY <2>2 DEF IInv, InOrder
  <2>5. /\ Fetching' /\ Written \in 0 .. Beats /\ Written' \in 0 .. Beats
        /\ Waiting \/ Getting \/ Turning(Scale)
    BY <2>1, <2>2, <2>4, FetchSteps
  <2>6. Draws(ready) \in BOOLEAN
    BY DEF Draws
  <2>7. HasPlace'
    BY <2>1, <2>4, <2>5, <2>6, PlaceKept
  <2>8. InTurn'
    BY <2>1, <2>2, <2>3, <2>4, <2>5, <2>6, TurnKept
  <2>9. Numbered'
    <3>1. Draws(ready) => fifo["pixels"] # <<>>
      BY <2>2 DEF Source
    <3> QED
      BY <2>1, <2>3, <2>4, <2>5, <3>1, NumbersKept
  <2> QED
    BY <2>5, <2>7, <2>8, <2>9 DEF InOrder
<1> QED
  BY <1>2, <1>3, <1>4

LEMMA Initially ==
  ASSUME Init
  PROVE  IInv
<1>1. RegsTypeOK
  <2>1. ResetSettings \in Settings
    <3>1. ZxPage \in Pages /\ ResetMode \in Modes
      BY PagesAssumption, ModesAssumption
    <3> QED
      BY <3>1 DEF ResetSettings, Settings, Register
  <2>2. latched \in Settings /\ active \in Settings
    BY <2>1 DEF Init, RegsInit
  <2>3. todo \in Seq(RegWrites) /\ Len(todo) <= 5
    BY EmptySeq DEF Init, RegsInit
  <2>4. /\ pending \in [When -> BOOLEAN] /\ flush \in [When -> BOOLEAN]
        /\ regUpdate \in BOOLEAN /\ copyOver \in {"idle", "copy", "end"} /\ store \in BOOLEAN
        /\ border \in Colours /\ prevBorder \in Colours
    BY ColoursAssumption DEF Init, RegsInit
  <2> QED
    BY <2>2, <2>3, <2>4 DEF RegsTypeOK
<1>2. StreamOK
  <2>1. <<>> \in Seq(FifoWord) /\ <<>> \in Seq(Burst) /\ Len(<<>>) = 0
    BY EmptySeq
  <2>2. 0 \in 0 .. Lines - 1 /\ 0 \in 0 .. Repeats - 1 /\ 0 <= MaxOwed /\ 0 <= Depth
    BY StreamSizes DEF MaxOwed
  <2> QED
    BY <2>1, <2>2 DEF Init, StreamInit, StreamOK, StreamTypeOK, Offered, AmbaStates, Source
<1>3. vs = "idle" /\ drawn = 0 /\ upset = {} /\ owed = <<>> /\ amba = "idle" /\ selector = "pixels"
  BY DEF Init, StreamInit
<1>4. /\ line["pixels"] = 0 /\ line["attributes"] = 0
      /\ repeater["pixels"] = 0 /\ repeater["attributes"] = 0
      /\ fifo["pixels"] = <<>> /\ fifo["attributes"] = <<>> /\ Len(<<>>) = 0
  BY DEF Init, StreamInit, Source
<1>5. Fetching /\ HasPlace
  BY <1>3 DEF Fetching, HasPlace
<1>6. InTurn
  BY <1>3, <1>4 DEF InTurn, Matches, Ahead, Written, Word
<1>7. Numbered
  <2>1. Scale \in Nat /\ Scale > 0
    BY <1>1, ScaleTyped
  <2> DEFINE scale == Scale
             f == FrameWords(scale)
  <2>2. f \in Nat /\ Num(0, 0, 0, scale) = 0
    <3>1. scale \in Nat
      BY <2>1
    <3> HIDE DEF scale
    <3>2. f \in Nat
      BY <3>1, Numbers
    <3>3. Num(0, 0, 0, scale) = 0
      BY <3>1, StreamSizes DEF Num
    <3> QED
      BY <3>2, <3>3
  <2> HIDE DEF f
  <2>3. 0 = 0 + 0 * f /\ 0 \in Int
    BY <2>2
  <2>4. OnTime(0, 0, 0, 0, Scale)
    BY <2>2, <2>3 DEF OnTime, f
  <2>5. Lined(<<>>, 0, Scale)
    BY <1>4 DEF Lined
  <2>6. drawn + Len(fifo["pixels"]) = 0 /\ Coming = 0
    BY <1>3, <1>4 DEF Coming, Written
  <2> QED
    BY <1>3, <1>4, <2>1, <2>4, <2>5, <2>6 DEF Numbered
<1> QED
  BY <1>1, <1>2, <1>3, <1>5, <1>6, <1>7 DEF IInv, InOrder

LEMMA Stutters ==
  ASSUME IInv, UNCHANGED vars
  PROVE  IInv'
<1>1. UNCHANGED regsVars /\ UNCHANGED streamVars
  BY DEF vars
<1>2. RegsTypeOK'
  BY <1>1 DEF IInv, regsVars, RegsTypeOK
<1>3. StreamOK'
  BY <1>1 DEF IInv, streamVars, StreamOK, StreamTypeOK, Offered
<1>4. UNCHANGED <<vs, drawn, upset, amba, selector, line, repeater, fifo, owed, rvalid, active>>
  BY <1>1 DEF regsVars, streamVars
<1>5. UNCHANGED <<Scale, Written, Word("pixels"), Word("attributes"), Word(selector)>>
  BY <1>4 DEF Scale, Written, Word
<1>6. UNCHANGED <<AfterLine("attributes"), AfterRep("attributes"), Ahead, Coming>>
  BY <1>4, <1>5 DEF AfterLine, AfterRep, Repeated, NextLine, Ahead, Coming
<1>7. Fetching => Fetching'
  BY <1>4, <1>5 DEF Fetching, Awaited
<1>8. (HasPlace => HasPlace') /\ (InTurn => InTurn') /\ (Numbered => Numbered')
  BY <1>4, <1>5, <1>6 DEF HasPlace, InTurn, Matches, Numbered
<1> QED
  BY <1>2, <1>3, <1>4, <1>7, <1>8 DEF IInv, InOrder

LEMMA Steps ==
  ASSUME NEW sends \in BOOLEAN, NEW ar \in MayAccept, NEW ready \in MayDraw
  PROVE  ar \in BOOLEAN /\ ready \in BOOLEAN
  BY DEF MayAccept, MayDraw

LEMMA Inductive ==
  ASSUME IInv, [Next]_vars
  PROVE  IInv'
<1>1. CASE UNCHANGED vars
  BY <1>1, Stutters
<1>2. ASSUME NEW sends \in BOOLEAN, NEW ar \in MayAccept, NEW ready \in MayDraw,
             Clock(sends, ar, ready)
      PROVE  IInv'
  <2>1. ar \in BOOLEAN /\ ready \in BOOLEAN
    BY Steps
  <2>2. RegsTypeOK' /\ StreamOK' /\ (vs' = "idle" => drawn' = 0)
    BY <1>2, <2>1, ClockTyped DEF IInv
  <2>3. upset' = {} => InOrder'
    BY <1>2, <2>1, <2>2, OrderKept
  <2> QED
    BY <2>2, <2>3 DEF IInv
<1> QED
  BY <1>1, <1>2 DEF Next

-----------------------------------------------------------------------------
(* The theorems. *)

(* The invariant holds at any pace of the driver, the memory and the       *)
(* receiver of the picture, also after a burst was cut or a FIFO starved.  *)
THEOREM Invariance == Spec => []IInv
<1>1. Init => IInv
  BY Initially
<1>2. IInv /\ [Next]_vars => IInv'
  BY Inductive
<1> QED
  BY <1>1, <1>2, PTL DEF Spec

(* The FIFOs, the addresses and the repeaters stay within their ranges,    *)
(* the memory owes no more bursts than it accepts, and the registers only  *)
(* hold what the driver may write to them.                                 *)
THEOREM TypeCorrect == Spec => []TypeOK
<1>1. IInv => TypeOK
  BY DEF IInv, StreamOK, TypeOK
<1> QED
  BY <1>1, Invariance, PTL

LEMMA InStepFollows ==
  ASSUME IInv
  PROVE  InStep
<1> SUFFICES ASSUME upset = {}, \A s \in Source : fifo[s] # <<>>
             PROVE  Head(fifo["pixels"]) = Head(fifo["attributes"])
  BY DEF InStep
<1> DEFINE P == fifo["pixels"]
           A == fifo["attributes"]
<1>1. P \in Seq(FifoWord) /\ A \in Seq(FifoWord) /\ P # <<>> /\ A # <<>>
  BY DEF IInv, StreamOK, StreamTypeOK, Source
<1>2. \A i \in 1 .. Len(A) : P[i] = A[i]
  BY DEF IInv, InOrder, InTurn, Matches
<1> HIDE DEF P, A
<1>3. 1 \in 1 .. Len(A)
  BY <1>1, EmptySeq
<1>4. Head(P) = P[1] /\ Head(A) = A[1]
  BY <1>1
<1> QED
  BY <1>2, <1>3, <1>4 DEF P, A

(* A word of pixels is drawn with the colours of its own scan line and of  *)
(* its own repetition as long as nothing has upset the FIFOs, and again    *)
(* after a flush.                                                          *)
THEOREM ColoursFit == Spec => []InStep
<1>1. IInv => InStep
  BY InStepFollows
<1> QED
  BY <1>1, Invariance, PTL

(* A frame that starts while nothing has upset the FIFOs. *)
LEMMA FrameStarts ==
  ASSUME IInv, IInv', NEW sends \in BOOLEAN, NEW ar \in BOOLEAN, NEW ready \in BOOLEAN,
         Clock(sends, ar, ready), vs = "idle", vs' = "streaming", upset' = {}
  PROVE  fifo'["pixels"] # <<>> /\ drawn' = 0
<1> DEFINE changing == pending["immediate"]
           q == fifo["pixels"]
<1>1. /\ Fifos(flush["immediate"], Draws(ready)) /\ Frames(ready, changing, active["aux_attr"])
      /\ Upsets(flush["immediate"], ready, active'["aux_attr"] # active["aux_attr"])
  BY DEF Clock, StreamClock
<1>2. flush["immediate"] = FALSE
  <2>1. flush["immediate"] \in BOOLEAN
    BY DEF IInv, RegsTypeOK, When
  <2>2. CASE flush["immediate"] = TRUE
    <3> DEFINE cut == amba' = "error" \/ (amba' = "idle" /\ owed' # <<>>)
    <3>1. {u \in {"cut", "dropped"} : IF u = "cut" THEN cut ELSE vs' = "streaming"} = {}
      BY <1>1, <2>2 DEF Upsets
    <3> HIDE DEF cut
    <3>2. vs' # "streaming"
      BY <3>1
    <3> QED
      BY <3>2
  <2> QED
    BY <2>1, <2>2
<1>3. ~Draws(ready)
  BY DEF Draws
<1>4. Starts(ready, changing)
  BY <1>1, <1>3 DEF Frames
<1>5. q \in Seq(FifoWord) /\ q # <<>>
  <2>1. q \in Seq(FifoWord) /\ ProgFull("pixels")
    BY <1>4 DEF IInv, StreamOK, StreamTypeOK, Source, Starts
  <2>2. Depth - Beats >= 0
    <3>1. Depth < Beats => Depth % Beats = Depth
      BY StreamSizes
    <3> QED
      BY <3>1, StreamAssumption, StreamSizes
  <2>3. Len(q) > Depth - Beats
    BY <2>1 DEF ProgFull
  <2> HIDE DEF q
  <2>4. Len(<<>>) = 0
    BY EmptySeq
  <2> QED
    BY <2>1, <2>2, <2>3, <2>4, StreamSizes
<1>6. fifo'["pixels"] # <<>>
  <2> DEFINE writes == Writes("pixels") /\ Len(q) < Depth
             w == Head(owed).word
  <2>1. fifo'["pixels"] = IF writes THEN Append(q, w) ELSE q
    BY <1>1, <1>2, <1>3 DEF Fifos, Source
  <2>2. writes => Append(q, w) # <<>>
    <3> SUFFICES ASSUME writes PROVE Append(q, w) # <<>>
      OBVIOUS
    <3>1. owed \in Seq(Burst) /\ owed # <<>>
      BY DEF IInv, StreamOK, StreamTypeOK, Offered, Writes
    <3>2. Head(owed) \in Burst
      BY <3>1, HeadTailProperties
    <3>3. w \in FifoWord
      BY <3>2 DEF Burst
    <3> HIDE DEF q, w
    <3>4. Len(Append(q, w)) = Len(q) + 1 /\ Len(q) \in Nat /\ Len(<<>>) = 0
      BY <1>5, <3>3, AppendProperties, LenProperties, EmptySeq
    <3> QED
      BY <3>4
  <2> QED
    BY <1>5, <2>1, <2>2
<1>7. drawn' = 0
  BY <1>1, <1>4 DEF Frames
<1> QED
  BY <1>6, <1>7

LEMMA FromTheTopFollows ==
  ASSUME IInv, IInv', Next, vs = "idle", vs' = "streaming", upset' = {}
  PROVE  Head(fifo'["pixels"]) = [line |-> 0, rep |-> 0]
<1>1. PICK sends \in BOOLEAN, ar \in MayAccept, ready \in MayDraw : Clock(sends, ar, ready)
  BY DEF Next
<1>2. fifo'["pixels"] # <<>> /\ drawn' = 0
  BY <1>1, Steps, FrameStarts
<1> DEFINE P == fifo'["pixels"]
           w == P[1]
           scale == Scale'
<1>3. P \in Seq(FifoWord) /\ scale \in Nat /\ scale > 0
  BY FactorCounted DEF IInv, StreamOK, StreamTypeOK, Source, RegsTypeOK, Scale
<1>4. Lined(P, 0, scale)
  BY <1>2 DEF IInv, InOrder, Numbered
<1> HIDE DEF P, scale
<1>5. 1 \in 1 .. Len(P) /\ Head(P) = w
  BY <1>2, <1>3, EmptySeq DEF P
<1>6. Marked(0, w, scale)
  BY <1>4, <1>5 DEF Lined
<1>7. w \in FifoWord
  BY <1>3, <1>5, ElementOfSeq
<1> HIDE DEF w
<1>8. PICK b \in 0 .. Beats - 1 : OnTime(0, w.line, w.rep, b, scale)
  BY <1>6 DEF Marked
<1>9. w.line \in 0 .. Lines - 1 /\ w.rep \in 0 .. scale - 1
  <2>1. w.line \in 0 .. Lines - 1 /\ w.rep \in 0 .. Repeats - 1 /\ w.rep < scale
    BY <1>6, <1>7 DEF FifoWord, Marked
  <2> QED
    BY <1>3, <2>1, StreamSizes
<1>10. w.line = 0 /\ w.rep = 0
  BY <1>3, <1>8, <1>9, FirstWord
<1>11. w = [line |-> 0, rep |-> 0]
  BY <1>7, <1>10 DEF FifoWord
<1> QED
  BY <1>5, <1>11 DEF P

(* Every frame that starts while nothing has upset the FIFOs begins with   *)
(* the first scan line, however often the scaling factor changes.          *)
THEOREM TopFirst == Spec => FromTheTop
<1> DEFINE Top == vs = "idle" /\ vs' = "streaming" /\ upset' = {} =>
                    Head(fifo'["pixels"]) = [line |-> 0, rep |-> 0]
<1>1. IInv /\ IInv' /\ [Next]_vars => [Top]_vars
  BY FromTheTopFollows
<1>2. FromTheTop <=> [][Top]_vars
  BY DEF FromTheTop
<1> HIDE DEF Top
<1> QED
  BY <1>1, <1>2, Invariance, PTL DEF Spec

=============================================================================
