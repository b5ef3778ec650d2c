--------------------------- MODULE TapeLogicProofs ---------------------------
(***************************************************************************)
(* That words cross the register interface once and in order, that what is *)
(* read is fresh, that the loop of the tape task never writes to a full    *)
(* FIFO and that the pulses are played in order: for a FIFO of any size,   *)
(* any words and any two clocks of which the logic's is the faster one.    *)
(***************************************************************************)
EXTENDS TapeLogic, SequenceTheorems, TLAPS

-----------------------------------------------------------------------------
(* The pulses. *)

(* What the process has taken and the FIFO has not yet replaced, and how a *)
(* read that comes too much arises: only after a word of length 0.         *)
PulseInv ==
  /\ ~fresh => rdEn /\ fifo # <<>> /\ counter = dout.len
  /\ rdEn /\ fresh => quiet = 0 \/ (quiet = 1 /\ counter > 0)

LEMMA WordsTyped ==
  ASSUME NEW w \in TapeWord
  PROVE  w.len \in 0 .. Idle /\ w.on \in BOOLEAN
<1>1. w \in [len : 0 .. Idle, on : BOOLEAN]
  BY WordsAssumption
<1> QED
  BY <1>1

LEMMA FifoTyped ==
  ASSUME fifo \in Seq(TapeWord), Len(fifo) <= Depth, fifoDin \in TapeWord, dout \in TapeWord,
         fifoWr \in BOOLEAN, NEW tick \in BOOLEAN, NEW waiting \in BOOLEAN, Fifo(tick, waiting)
  PROVE  /\ fifo' \in Seq(TapeWord) /\ Len(fifo') <= Depth
         /\ dout' \in TapeWord
         /\ ~fifoWr => Len(fifo') <= Len(fifo)
<1> DEFINE rest == IF Pops THEN Tail(fifo) ELSE fifo
<1>1. fifo # <<>> => /\ Head(fifo) \in TapeWord /\ Tail(fifo) \in Seq(TapeWord)
                     /\ Len(Tail(fifo)) = Len(fifo) - 1
  BY HeadTailProperties
<1>2. rest \in Seq(TapeWord) /\ Len(rest) <= Len(fifo) /\ Len(rest) \in Nat /\ Len(fifo) \in Nat
  BY <1>1, LenProperties DEF Pops
<1>3. fifo' = IF fifoWr /\ ~Full THEN Append(rest, fifoDin) ELSE rest
  BY DEF Fifo
<1>4. dout' \in TapeWord
  BY <1>1 DEF Fifo, Pops
<1> HIDE DEF rest
<1>5. Append(rest, fifoDin) \in Seq(TapeWord) /\ Len(Append(rest, fifoDin)) = Len(rest) + 1
  BY <1>2, AppendProperties
<1>6. Depth \in Nat /\ (~Full => Len(fifo) < Depth)
  BY <1>2, DepthAssumption DEF Full
<1> QED
  BY <1>2, <1>3, <1>4, <1>5, <1>6

LEMMA PulseTyped ==
  ASSUME PulseTypeOK, NEW tick \in BOOLEAN, NEW waiting \in BOOLEAN, NEW delivered \in BOOLEAN,
         NEW word, delivered => word \in TapeWord, PulseEdge(tick, waiting, delivered, word)
  PROVE  PulseTypeOK'
<1>1. fifo' \in Seq(TapeWord) /\ Len(fifo') <= Depth /\ dout' \in TapeWord
  BY FifoTyped DEF PulseEdge, PulseTypeOK
<1>2. fifoWr' \in BOOLEAN /\ fifoDin' \in TapeWord
  BY DEF PulseEdge, FifoRegister, PulseTypeOK
<1>3. dout.len \in 0 .. Idle /\ dout.on \in BOOLEAN
  BY WordsTyped DEF PulseTypeOK
<1>4. counter' \in 0 .. Idle /\ quiet' \in 0 .. 3
  <2>1. Idle \in Nat \ {0} /\ counter \in 0 .. Idle /\ quiet \in 0 .. 3
    BY WordsAssumption DEF PulseTypeOK
  <2>2. Left(tick, waiting) \in 0 .. Idle
    BY <2>1 DEF Left
  <2>3. 0 \in 0 .. Idle /\ Idle \in 0 .. Idle
    BY <2>1
  <2> QED
    BY <1>3, <2>1, <2>2, <2>3 DEF PulseEdge, PlayTape
<1>5. pulse' \in BOOLEAN /\ level' \in BOOLEAN /\ rdEn' \in BOOLEAN
  BY <1>3 DEF PulseEdge, PlayTape, PulseTypeOK, Takes
<1>6. fresh' \in BOOLEAN /\ event' \in {"none", "missed", "replayed"}
  BY DEF PulseEdge, Fifo
<1> QED
  BY <1>1, <1>2, <1>4, <1>5, <1>6 DEF PulseTypeOK

LEMMA PulseKept ==
  ASSUME PulseTypeOK, PulseInv, NEW tick \in BOOLEAN, NEW waiting \in BOOLEAN, NEW delivered, NEW word,
         PulseEdge(tick, waiting, delivered, word)
  PROVE  PulseInv' /\ PulsesInOrder'
<1> DEFINE takes == Takes(tick, waiting)
           left == Left(tick, waiting)
<1>1. dout.len \in Nat /\ counter \in Nat /\ quiet \in 0 .. 3 /\ rdEn \in BOOLEAN /\ fresh \in BOOLEAN
  BY WordsTyped, WordsAssumption DEF PulseTypeOK
<1>2. rdEn => left = counter
  BY DEF PulseEdge, Left
<1>3. takes <=> left = 0 /\ fifo # <<>>
  BY DEF Takes
<1>4. /\ rdEn' = takes
      /\ takes => counter' = dout.len
      /\ quiet' = IF takes /\ dout.len = 0 THEN 0 ELSE IF quiet < 3 THEN quiet + 1 ELSE 3
  BY DEF PulseEdge, PlayTape
<1>5. /\ fresh' = (Pops \/ (fresh /\ ~takes))
      /\ dout' = IF Pops THEN Head(fifo) ELSE dout
      /\ event' = IF takes /\ ~fresh /\ dout.len # 0 THEN "replayed"
                  ELSE IF Pops /\ fresh /\ ~takes THEN "missed" ELSE "none"
  BY DEF PulseEdge, Fifo
<1>6. takes /\ ~Pops => fifo' # <<>>
  <2> SUFFICES ASSUME takes, ~Pops PROVE fifo' # <<>>
    OBVIOUS
  <2>1. fifo' \in {fifo, Append(fifo, fifoDin)}
    BY DEF PulseEdge, Fifo
  <2>2. fifo \in Seq(TapeWord) /\ fifoDin \in TapeWord
    BY DEF PulseTypeOK
  <2>3. Append(fifo, fifoDin) # <<>>
    BY <2>2, AppendProperties, EmptySeq
  <2> QED
    BY <1>3, <2>1, <2>3
<1>7. Pops <=> rdEn /\ fifo # <<>>
  BY DEF Pops
<1> HIDE DEF takes, left
<1>8. PulseInv'
  <2>1. ASSUME ~fresh'
        PROVE  rdEn' /\ fifo' # <<>> /\ counter' = dout'.len
    BY <1>4, <1>5, <1>6, <1>7, <2>1 DEF PulseInv
  <2>2. ASSUME rdEn', fresh'
        PROVE  quiet' = 0 \/ (quiet' = 1 /\ counter' > 0)
    <3>1. takes /\ rdEn /\ counter = 0
      BY <1>2, <1>3, <1>4, <1>5, <1>7, <2>2
    <3>2. CASE dout.len = 0
      BY <1>4, <3>1, <3>2
    <3>3. CASE dout.len # 0
      <4>1. quiet = 0
        BY <1>1, <3>1, <3>3 DEF PulseInv
      <4> QED
        BY <1>1, <1>4, <3>1, <3>3, <4>1
    <3> QED
      BY <3>2, <3>3
  <2> QED
    BY <2>1, <2>2 DEF PulseInv
<1>9. PulsesInOrder'
  BY <1>1, <1>2, <1>3, <1>4, <1>5, <1>7 DEF PulseInv, PulsesInOrder
<1> QED
  BY <1>8, <1>9

-----------------------------------------------------------------------------
(* One access at a time: what the master does and what the slave answers.  *)

AccessInStep ==
  /\ ready => master = "write" /\ regData = wval
  /\ bvalid <=> master = "response"
  /\ arready => master = "read"
  /\ rvalid # 0 <=> master = "data"
  /\ \A i \in 1 .. 3 : rdenVec[i] <=> rvalid = i
  /\ task = "send" => master = "idle"

LEMMA MasterSteps ==
  ASSUME MasterGoesOn
  PROVE  /\ UNCHANGED <<wreg, wval, sampled>>
         /\ master = "write" /\ ready => master' = "response"
         /\ master = "response" /\ bvalid => master' = "idle"
         /\ master = "read" /\ arready => master' = "data"
         /\ master = "data" /\ rvalid = 3 => master' = "idle"
         /\ /\ ~(master = "write" /\ ready) /\ ~(master = "response" /\ bvalid)
            /\ ~(master = "read" /\ arready) /\ ~(master = "data" /\ rvalid = 3)
            => master' = master
  BY Zenon DEF MasterGoesOn

LEMMA AnswerSteps ==
  ASSUME Slave, rvalid \in 0 .. 3
  PROVE  rvalid' = IF rvalid \in {1, 2} THEN rvalid + 1 ELSE IF rvalid = 0 /\ Rden THEN 1 ELSE 0
<1>1. rvalid \in {1, 2} /\ rvalid # 3 => rvalid' = rvalid + 1
  BY Zenon DEF Slave
<1>2. rvalid \notin {1, 2} /\ rvalid = 3 => rvalid' = 0
  BY Zenon DEF Slave
<1>3. rvalid \notin {1, 2} /\ rvalid # 3 => rvalid' = IF Rden THEN 1 ELSE 0
  BY Zenon DEF Slave
<1> QED
  BY <1>1, <1>2, <1>3

LEMMA Shifting ==
  ASSUME NEW vec \in Shift3, NEW bit \in BOOLEAN
  PROVE  /\ Shifted(vec, bit) \in Shift3
         /\ Shifted(vec, bit)[1] = bit /\ Shifted(vec, bit)[2] = vec[1] /\ Shifted(vec, bit)[3] = vec[2]
  BY DEF Shifted, Shift3

(* The steps of the processor, by the access they belong to. *)
StartsWrite ==
  /\ master = "idle" /\ master' = "write" /\ sampled' = sampled /\ task' = "poll"
  /\ \/ task = "send" /\ wreg' = "tape" /\ wval' \in TapeWord
     \/ task = "poll" /\ wreg' = "other" /\ wval' = wval
StartsRead ==
  /\ master = "idle" /\ master' = "read" /\ sampled' = FALSE
  /\ task = "poll" /\ task' = "poll" /\ UNCHANGED <<wreg, wval>>
EndsRead ==
  /\ master = "data" /\ rvalid = 3 /\ master' = "idle" /\ UNCHANGED <<wreg, wval, sampled>>
  /\ task' = IF rdata.full THEN "poll" ELSE "send"
Continues ==
  /\ UNCHANGED <<wreg, wval, sampled, task>>
  /\ \/ master = "idle" /\ master' = "idle"
     \/ master = "write" /\ ~ready /\ master' = "write"
     \/ master = "write" /\ ready /\ master' = "response"
     \/ master = "response" /\ master' = "idle"
     \/ master = "read" /\ ~arready /\ master' = "read"
     \/ master = "read" /\ arready /\ master' = "data"
     \/ master = "data" /\ rvalid # 3 /\ master' = "data"

LEMMA ProcessorSteps ==
  ASSUME PortTypeOK, AccessInStep, Processor
  PROVE  StartsWrite \/ StartsRead \/ EndsRead \/ Continues
<1>1. CASE Poll
  BY <1>1 DEF Poll, BeginRead, Begin, StartsRead
<1>2. CASE Answer
  BY <1>2, MasterSteps DEF Answer, ReadDone, EndsRead
<1>3. CASE \E word \in TapeWord : zx_tape_send(word)
  BY <1>3 DEF zx_tape_send, BeginWrite, Begin, StartsWrite
<1>4. CASE WriteOther
  BY <1>4 DEF WriteOther, BeginWrite, Begin, StartsWrite
<1>5. CASE Waits
  <2>1. MasterGoesOn /\ ~(master = "data" /\ rvalid = 3) /\ task' = task
    BY <1>5 DEF Waits, ReadDone
  <2> QED
    BY <2>1, MasterSteps DEF PortTypeOK, AccessInStep, Continues
<1> QED
  BY <1>1, <1>2, <1>3, <1>4, <1>5 DEF Processor

(* The answers of the slave, as far as the proofs use them. *)
SlaveAnswers ==
  /\ ready' <=> ~ready /\ master = "write"
  /\ bvalid' <=> master = "write" /\ ready
  /\ arready' <=> ~arready /\ master = "read"
  /\ rvalid' = IF rvalid \in {1, 2} THEN rvalid + 1
               ELSE IF master = "read" /\ arready THEN 1 ELSE 0
  /\ \A i \in 1 .. 3 : rdenVec'[i] <=> rvalid' = i
  /\ rdata' = IF rvalid = 2 THEN flags ELSE rdata
  /\ awaddr' = IF ~ready /\ master = "write" THEN wreg ELSE awaddr
  /\ regData' = IF master = "write" THEN wval ELSE regData
  /\ due' = IF ~ready /\ master = "write" THEN [reg |-> wreg, val |-> wval] ELSE due

LEMMA SlaveSteps ==
  ASSUME PortTypeOK, AccessInStep, Slave
  PROVE  SlaveAnswers
<1>1. /\ rdenVec \in Shift3 /\ rvalid \in 0 .. 3 /\ ready \in BOOLEAN /\ bvalid \in BOOLEAN
      /\ arready \in BOOLEAN /\ Rden \in BOOLEAN
      /\ master \in {"idle", "write", "response", "read", "data"}
  BY DEF PortTypeOK, Rden
<1>2. rvalid' = IF rvalid \in {1, 2} THEN rvalid + 1 ELSE IF rvalid = 0 /\ Rden THEN 1 ELSE 0
  BY <1>1, AnswerSteps
<1>3. Rden <=> master = "read" /\ arready
  BY <1>1 DEF Rden, AccessInStep
<1>4. rvalid' = IF rvalid \in {1, 2} THEN rvalid + 1 ELSE IF master = "read" /\ arready THEN 1 ELSE 0
  BY <1>1, <1>2, <1>3 DEF AccessInStep
<1>5. rdenVec'[1] = Rden /\ rdenVec'[2] = rdenVec[1] /\ rdenVec'[3] = rdenVec[2]
  BY <1>1, Shifting DEF Slave
<1>6. \A i \in 1 .. 3 : rdenVec'[i] <=> rvalid' = i
  <2>1. (rdenVec[1] <=> rvalid = 1) /\ (rdenVec[2] <=> rvalid = 2) /\ (rdenVec[3] <=> rvalid = 3)
    BY DEF AccessInStep
  <2>2. (rdenVec'[1] <=> rvalid' = 1) /\ (rdenVec'[2] <=> rvalid' = 2) /\ (rdenVec'[3] <=> rvalid' = 3)
    BY <1>1, <1>2, <1>3, <1>5, <2>1 DEF AccessInStep
  <2>3. \A i \in 1 .. 3 : i = 1 \/ i = 2 \/ i = 3
    OBVIOUS
  <2> QED
    BY <2>2, <2>3
<1>7. SamplesRead <=> rvalid = 2
  BY <1>1 DEF SamplesRead, Rising, AccessInStep
<1>8. /\ ready' <=> ~ready /\ master = "write"
      /\ bvalid' <=> master = "write" /\ ready
      /\ arready' <=> ~arready /\ master = "read"
  BY <1>1 DEF Slave, Wren, AccessInStep
<1>9. /\ rdata' = IF rvalid = 2 THEN flags ELSE rdata
      /\ awaddr' = IF ~ready /\ master = "write" THEN wreg ELSE awaddr
      /\ regData' = IF master = "write" THEN wval ELSE regData
      /\ due' = IF ~ready /\ master = "write" THEN [reg |-> wreg, val |-> wval] ELSE due
  BY <1>7 DEF Slave, LatchesData
<1> QED
  BY <1>4, <1>6, <1>8, <1>9 DEF SlaveAnswers

LEMMA AccessKept ==
  ASSUME TypeOK, AccessInStep, [Next]_vars
  PROVE  AccessInStep'
<1>1. PortTypeOK
  BY DEF TypeOK
<1>2. CASE ProcessorClock
  <2>1. SlaveAnswers
    BY <1>1, <1>2, SlaveSteps DEF ProcessorClock, SlowEdge
  <2>2. StartsWrite \/ StartsRead \/ EndsRead \/ Continues
    BY <1>1, <1>2, ProcessorSteps DEF ProcessorClock
  <2>3. \A i \in 1 .. 3 : rdenVec'[i] <=> rvalid' = i
    BY <2>1 DEF SlaveAnswers
  <2>4. /\ ready' => master' = "write" /\ regData' = wval'
        /\ bvalid' <=> master' = "response"
        /\ arready' => master' = "read"
        /\ rvalid' # 0 <=> master' = "data"
        /\ task' = "send" => master' = "idle"
    BY <1>1, <2>1, <2>2 DEF SlaveAnswers, StartsWrite, StartsRead, EndsRead, Continues, PortTypeOK,
       AccessInStep
  <2> QED
    BY <2>3, <2>4 DEF AccessInStep
<1>3. CASE LogicClock
  BY <1>3 DEF LogicClock, FastEdge, slowVars, AccessInStep
<1>4. CASE UNCHANGED vars
  BY <1>4 DEF vars, portVars, slowVars, AccessInStep
<1> QED
  BY <1>2, <1>3, <1>4 DEF Next

-----------------------------------------------------------------------------
(* The write that crosses.  Time is counted from the slow edge at which    *)
(* the slave accepts it: Since is the time of now, as far as the state of  *)
(* the master tells, and NextEdge the time of the next edge of the logic.  *)
Since ==
  (IF master = "write" /\ ready THEN 0
   ELSE IF master = "response" THEN SlowPeriod
   ELSE IF master = "idle" THEN 2 * SlowPeriod ELSE 3 * SlowPeriod) + SlowPeriod - slow
NextEdge == Since + fast

c1 == wrenCdc[1]
c2 == wrenCdc[2]
c3 == wrenCdc[3]

(* Not seen by the logic, in the first stage, in the second, being         *)
(* delivered: each one edge of the logic later than the one before.        *)
Unseen == ~c1 /\ ~c2 /\ ~c3 /\ ~wrEn /\ NextEdge <= FastPeriod
FirstStage == c1 /\ ~c2 /\ ~c3 /\ ~wrEn /\ awaddrR1 = awaddr /\ NextEdge <= 2 * FastPeriod
SecondStage ==
  /\ c2 /\ ~c3 /\ ~wrEn /\ (Wren => c1)
  /\ awaddrR1 = awaddr /\ awaddrR2 = awaddr /\ NextEdge <= 3 * FastPeriod
Delivered ==
  /\ c3 /\ wrEn /\ (Wren => c1) /\ (c1 => c2)
  /\ enabled = awaddr /\ NextEdge <= 4 * FastPeriod
Quiet == ~wrEn /\ (Wren => c1) /\ (c1 => c2) /\ (c2 => c3)

(* After the strobe has ended the stages fall one by one. *)
Draining ==
  ~Wren => /\ c1 => NextEdge <= SlowPeriod + FastPeriod
           /\ c2 => NextEdge <= SlowPeriod + 2 * FastPeriod
           /\ c3 => NextEdge <= SlowPeriod + 3 * FastPeriod

WriteStages ==
  /\ due # Nothing => /\ due = [reg |-> awaddr, val |-> regData]
                      /\ Unseen \/ FirstStage \/ SecondStage \/ Delivered
  /\ due = Nothing => Quiet
  /\ Draining

LEMMA Periods ==
  /\ SlowPeriod \in Nat /\ FastPeriod \in Nat /\ 0 < FastPeriod /\ FastPeriod < SlowPeriod
  BY PeriodsAssumption

(* An edge of the slow clock comes before the next one of the logic, and   *)
(* does not bring that closer to the acceptance of the write.              *)
LEMMA SlowTime ==
  ASSUME PortTypeOK, AccessInStep, SlowTick,
         StartsWrite \/ StartsRead \/ EndsRead \/ Continues, SlaveAnswers
  PROVE  /\ Since \in Int /\ NextEdge \in Int /\ Since' \in Int /\ NextEdge' \in Int
         /\ ~(master = "write" /\ ~ready) => NextEdge' <= NextEdge
         /\ master = "write" /\ ~ready => NextEdge' = fast - slow /\ NextEdge >= 4 * SlowPeriod
         /\ master = "read" => NextEdge >= 4 * SlowPeriod
         /\ master = "write" /\ ready => NextEdge' = NextEdge /\ NextEdge' <= SlowPeriod + FastPeriod
                                        /\ NextEdge >= SlowPeriod
         /\ fast' \in 0 .. FastPeriod
<1>1. /\ slow \in Int /\ fast \in Int /\ 0 <= slow /\ slow <= SlowPeriod /\ 0 <= fast /\ fast <= FastPeriod
      /\ slow <= fast /\ slow' = SlowPeriod /\ fast' = fast - slow
  BY Periods DEF PortTypeOK, SlowTick
<1>2. /\ master = "write" /\ ready => master' = "response"
      /\ master = "write" /\ ~ready => master' = "write" /\ ready'
      /\ master = "response" => master' = "idle"
      /\ master = "idle" => (master' = "write" /\ ~ready') \/ master' \in {"read", "idle"}
      /\ master = "read" => master' \in {"read", "data"}
      /\ master = "data" => master' \in {"data", "idle"}
      /\ master \in {"idle", "write", "response", "read", "data"}
  BY DEF StartsWrite, StartsRead, EndsRead, Continues, SlaveAnswers, PortTypeOK
<1> QED
  BY <1>1, <1>2, Periods DEF Since, NextEdge

LEMMA FastTime ==
  ASSUME PortTypeOK, FastTick, UNCHANGED slowVars
  PROVE  /\ Since \in Int /\ NextEdge \in Int /\ Since' \in Int /\ NextEdge' \in Int
         /\ NextEdge' = NextEdge + FastPeriod
         /\ NextEdge <= FastPeriod => Wren
<1>1. /\ slow \in Int /\ fast \in Int /\ 0 <= slow /\ slow <= SlowPeriod /\ 0 <= fast /\ fast <= FastPeriod
      /\ fast <= slow /\ fast' = FastPeriod /\ slow' = slow - fast
  BY Periods DEF PortTypeOK, FastTick
<1>2. UNCHANGED <<master, ready>>
  BY DEF slowVars
<1> QED
  BY <1>1, <1>2, Periods DEF Since, NextEdge, Wren

LEMMA SlowKeepsStages ==
  ASSUME TypeOK, AccessInStep, WriteStages, ProcessorClock
  PROVE  WriteStages'
<1>1. PortTypeOK /\ SlowTick /\ UNCHANGED fastVars /\ SlaveAnswers
  BY SlaveSteps DEF TypeOK, ProcessorClock, SlowEdge
<1>2. StartsWrite \/ StartsRead \/ EndsRead \/ Continues
  BY <1>1, ProcessorSteps DEF ProcessorClock
<1>3. UNCHANGED <<c1, c2, c3, wrEn, enabled, awaddrR1, awaddrR2>>
  BY <1>1 DEF fastVars, c1, c2, c3
<1>4. /\ NextEdge \in Int /\ NextEdge' \in Int
      /\ ~(master = "write" /\ ~ready) => NextEdge' <= NextEdge
      /\ master = "write" /\ ~ready => NextEdge' = fast - slow /\ NextEdge >= 4 * SlowPeriod
      /\ master = "write" /\ ready => /\ NextEdge' = NextEdge /\ NextEdge' <= SlowPeriod + FastPeriod
                                     /\ NextEdge >= SlowPeriod
  BY <1>1, <1>2, SlowTime
<1>5. fast - slow <= FastPeriod
  BY <1>1, Periods DEF PortTypeOK
<1>6. CASE master = "write" /\ ~ready
  <2>1. due = Nothing
    BY <1>4, <1>6, Periods DEF WriteStages, Unseen, FirstStage, SecondStage, Delivered
  <2>2. ~wrEn /\ ~c1 /\ ~c2 /\ ~c3
    BY <1>4, <1>6, <2>1, Periods DEF WriteStages, Quiet, Draining, Wren
  <2>3. /\ due' = [reg |-> wreg, val |-> wval] /\ awaddr' = wreg /\ regData' = wval
        /\ ready' /\ master' = "write"
    BY <1>1, <1>2, <1>6 DEF SlaveAnswers, StartsWrite, StartsRead, EndsRead, Continues
  <2>4. due' # Nothing
    <3>1. wreg # "none"
      BY <1>1, RegistersAssumption DEF PortTypeOK
    <3> QED
      BY <2>3, <3>1 DEF Nothing
  <2>5. Unseen'
    BY <1>3, <1>4, <1>5, <1>6, <2>2 DEF Unseen
  <2>6. Wren'
    BY <2>3 DEF Wren
  <2> QED
    BY <2>3, <2>4, <2>5, <2>6 DEF WriteStages, Draining
<1>7. CASE ~(master = "write" /\ ~ready)
  <2>1. due' = due /\ awaddr' = awaddr /\ regData' = regData /\ ~ready'
    BY <1>1, <1>7 DEF SlaveAnswers, AccessInStep
  <2>2. ~Wren'
    BY <2>1 DEF Wren
  <2>3. NextEdge' <= NextEdge
    BY <1>4, <1>7
  <2>4. due # Nothing => Unseen' \/ FirstStage' \/ SecondStage' \/ Delivered'
    <3>1. Unseen => Unseen'
      BY <1>3, <1>4, <2>3, Periods DEF Unseen
    <3>2. FirstStage => FirstStage'
      BY <1>3, <1>4, <2>1, <2>3, Periods DEF FirstStage
    <3>3. SecondStage => SecondStage'
      BY <1>3, <1>4, <2>1, <2>2, <2>3, Periods DEF SecondStage
    <3>4. Delivered => Delivered'
      BY <1>3, <1>4, <2>1, <2>2, <2>3, Periods DEF Delivered
    <3> QED
      BY <3>1, <3>2, <3>3, <3>4 DEF WriteStages
  <2>5. due = Nothing => Quiet'
    BY <1>3, <2>2 DEF WriteStages, Quiet
  <2>6. Draining'
    <3>1. CASE Wren
      <4>1. NextEdge' <= SlowPeriod + FastPeriod
        BY <1>4, <1>7, <3>1 DEF Wren
      <4> QED
        BY <1>4, <4>1, Periods DEF Draining
    <3>2. CASE ~Wren
      BY <1>3, <1>4, <2>3, <3>2, Periods DEF WriteStages, Draining
    <3> QED
      BY <3>1, <3>2
  <2>7. Nothing' = Nothing
    BY DEF Nothing
  <2> QED
    BY <2>1, <2>4, <2>5, <2>6, <2>7 DEF WriteStages
<1> QED
  BY <1>6, <1>7

(* The stages of the logic after an edge of it. *)
LEMMA CrossingSteps ==
  ASSUME PortTypeOK, NEW now, FastEdge(now)
  PROVE  /\ c1' = Wren /\ c2' = c1 /\ c3' = c2 /\ wrEn' = (c2 /\ ~c3)
         /\ awaddrR1' = awaddr /\ awaddrR2' = awaddrR1
         /\ enabled' = IF c2 /\ ~c3 THEN awaddrR2 ELSE "none"
         /\ due' = IF wrEn THEN Nothing ELSE due
         /\ UNCHANGED <<awaddr, regData, ready, master>> /\ Wren' = Wren
<1>1. wrenCdc \in Shift3 /\ Wren \in BOOLEAN
  BY DEF PortTypeOK, Wren
<1>2. wrenCdc'[1] = Wren /\ wrenCdc'[2] = wrenCdc[1] /\ wrenCdc'[3] = wrenCdc[2]
  BY <1>1, Shifting DEF FastEdge, CrossWrites
<1> QED
  BY <1>2 DEF FastEdge, CrossWrites, slowVars, Wren, Rising, c1, c2, c3

LEMMA FastKeepsStages ==
  ASSUME TypeOK, WriteStages, LogicClock
  PROVE  WriteStages'
<1>1. PortTypeOK /\ FastEdge(FlagsNow) /\ FastTick /\ UNCHANGED slowVars
  BY DEF TypeOK, LogicClock, FastEdge
<1>2. /\ NextEdge \in Int /\ NextEdge' = NextEdge + FastPeriod
      /\ NextEdge <= FastPeriod => Wren
  BY <1>1, FastTime
<1>3. /\ c1' = Wren /\ c2' = c1 /\ c3' = c2 /\ wrEn' = (c2 /\ ~c3)
      /\ awaddrR1' = awaddr /\ awaddrR2' = awaddrR1
      /\ enabled' = IF c2 /\ ~c3 THEN awaddrR2 ELSE "none"
      /\ due' = IF wrEn THEN Nothing ELSE due
      /\ UNCHANGED <<awaddr, regData, ready, master>> /\ Wren' = Wren
  BY <1>1, CrossingSteps
<1>4. Wren \in BOOLEAN /\ c1 \in BOOLEAN /\ c2 \in BOOLEAN /\ c3 \in BOOLEAN
  BY <1>1 DEF PortTypeOK, Wren, Shift3, c1, c2, c3
<1>5. Draining'
  BY <1>2, <1>3, <1>4, Periods DEF WriteStages, Draining
<1>6. CASE due = Nothing
  BY <1>3, <1>4, <1>5, <1>6 DEF WriteStages, Quiet
<1>7. CASE due # Nothing /\ Delivered
  BY <1>3, <1>4, <1>5, <1>7 DEF WriteStages, Delivered, Quiet
<1>8. CASE due # Nothing /\ ~Delivered
  <2>1. due' = due /\ due' = [reg |-> awaddr', val |-> regData'] /\ due' # Nothing
    <3>1. ~wrEn
      BY <1>8 DEF WriteStages, Unseen, FirstStage, SecondStage
    <3> QED
      BY <1>3, <1>8, <3>1 DEF WriteStages
  <2>2. Unseen => FirstStage'
    BY <1>2, <1>3, <1>4, Periods DEF Unseen, FirstStage
  <2>3. FirstStage => SecondStage'
    BY <1>2, <1>3, <1>4, Periods DEF FirstStage, SecondStage
  <2>4. SecondStage => Delivered'
    <3> SUFFICES ASSUME SecondStage PROVE Delivered'
      OBVIOUS
    <3>1. NextEdge' <= 4 * FastPeriod
      BY <1>2, Periods DEF SecondStage
    <3>2. c2 /\ ~c3 /\ (Wren => c1) /\ awaddrR2 = awaddr
      BY DEF SecondStage
    <3>3. enabled' = awaddr' /\ wrEn'
      BY <1>3, <3>2
    <3> QED
      BY <1>3, <3>1, <3>2, <3>3 DEF Delivered
  <2> QED
    BY <1>5, <1>8, <2>1, <2>2, <2>3, <2>4 DEF WriteStages
<1> QED
  BY <1>6, <1>7, <1>8

-----------------------------------------------------------------------------
(* The read that crosses, in the same way: a read is under way from the    *)
(* slow edge at which the slave accepts it until the master has the data.  *)
Reading == (master = "read" /\ arready) \/ master = "data"

SinceRead ==
  (IF master = "read" THEN 0
   ELSE IF rvalid = 1 THEN SlowPeriod
   ELSE IF rvalid = 2 THEN 2 * SlowPeriod ELSE 3 * SlowPeriod) + SlowPeriod - slow
NextEdgeRead == SinceRead + fast

d1 == rdenCdc[1]
d2 == rdenCdc[2]
d3 == rdenCdc[3]

NotSampled ==
  \/ ~d1 /\ ~d2 /\ ~d3 /\ NextEdgeRead <= FastPeriod
  \/ d1 /\ ~d2 /\ ~d3 /\ NextEdgeRead <= 2 * FastPeriod
  \/ d2 /\ ~d3 /\ NextEdgeRead <= 3 * FastPeriod

ReadStages ==
  /\ ~Reading => ~d1 /\ ~d2 /\ ~d3
  /\ master = "read" /\ ~arready => ~sampled
  /\ Reading /\ ~sampled => NotSampled
  /\ master = "data" => /\ d1 => NextEdgeRead <= SlowPeriod + FastPeriod
                        /\ d2 => NextEdgeRead <= SlowPeriod + 2 * FastPeriod
                        /\ d3 => NextEdgeRead <= SlowPeriod + 3 * FastPeriod
  /\ rvalid = 3 => sampled

LEMMA SlowReadTime ==
  ASSUME PortTypeOK, AccessInStep, SlowTick,
         StartsWrite \/ StartsRead \/ EndsRead \/ Continues, SlaveAnswers
  PROVE  /\ NextEdgeRead \in Int /\ NextEdgeRead' \in Int
         /\ master = "read" /\ ~arready => NextEdgeRead' <= FastPeriod
         /\ Reading /\ Reading' => NextEdgeRead' = NextEdgeRead
         /\ master = "read" /\ arready => NextEdgeRead <= SlowPeriod + FastPeriod
         /\ rvalid = 2 => NextEdgeRead >= 3 * SlowPeriod
         /\ rvalid = 3 => NextEdgeRead >= 4 * SlowPeriod
<1>1. /\ slow \in Int /\ fast \in Int /\ 0 <= slow /\ slow <= SlowPeriod /\ 0 <= fast /\ fast <= FastPeriod
      /\ slow <= fast /\ slow' = SlowPeriod /\ fast' = fast - slow /\ rvalid \in 0 .. 3
  BY Periods DEF PortTypeOK, SlowTick
<1>2. /\ master = "read" /\ ~arready => master' = "read"
      /\ master = "read" /\ arready => master' = "data" /\ rvalid' = 1 /\ ~arready'
      /\ master = "data" /\ rvalid # 3 => master' = "data" /\ rvalid' = rvalid + 1 /\ rvalid \in {1, 2}
      /\ master = "data" /\ rvalid = 3 => master' = "idle"
      /\ rvalid \in {2, 3} => master = "data"
  BY <1>1 DEF StartsWrite, StartsRead, EndsRead, Continues, SlaveAnswers, AccessInStep
<1> QED
  BY <1>1, <1>2, Periods DEF SinceRead, NextEdgeRead, Reading

LEMMA FastReadTime ==
  ASSUME PortTypeOK, AccessInStep, FastTick, UNCHANGED slowVars
  PROVE  /\ NextEdgeRead \in Int /\ NextEdgeRead' = NextEdgeRead + FastPeriod
         /\ Reading /\ NextEdgeRead <= FastPeriod => master = "read" /\ arready
<1>1. /\ slow \in Int /\ fast \in Int /\ 0 <= slow /\ slow <= SlowPeriod /\ 0 <= fast /\ fast <= FastPeriod
      /\ fast <= slow /\ fast' = FastPeriod /\ slow' = slow - fast
  BY Periods DEF PortTypeOK, FastTick
<1>2. UNCHANGED <<master, rvalid>>
  BY DEF slowVars
<1> QED
  BY <1>1, <1>2, Periods DEF SinceRead, NextEdgeRead, Reading

LEMMA SlowKeepsReadStages ==
  ASSUME TypeOK, AccessInStep, ReadStages, ProcessorClock
  PROVE  ReadStages'
<1>1. PortTypeOK /\ SlowTick /\ UNCHANGED fastVars /\ SlaveAnswers
  BY SlaveSteps DEF TypeOK, ProcessorClock, SlowEdge
<1>2. StartsWrite \/ StartsRead \/ EndsRead \/ Continues
  BY <1>1, ProcessorSteps DEF ProcessorClock
<1>3. UNCHANGED <<d1, d2, d3>>
  BY <1>1 DEF fastVars, d1, d2, d3
<1>4. /\ NextEdgeRead \in Int /\ NextEdgeRead' \in Int
      /\ master = "read" /\ ~arready => NextEdgeRead' <= FastPeriod
      /\ Reading /\ Reading' => NextEdgeRead' = NextEdgeRead
      /\ master = "read" /\ arready => NextEdgeRead <= SlowPeriod + FastPeriod
      /\ rvalid = 2 => NextEdgeRead >= 3 * SlowPeriod
      /\ rvalid = 3 => NextEdgeRead >= 4 * SlowPeriod
  BY <1>1, <1>2, SlowReadTime
<1>5. /\ Reading' => (master = "read" \/ master = "data") /\ sampled' = sampled
      /\ Reading /\ ~Reading' => rvalid = 3 /\ master = "data"
      /\ master' = "data" => Reading
      /\ master' = "read" /\ ~arready' => ~sampled'
      /\ rvalid' = 3 => rvalid = 2 /\ master = "data" /\ sampled' = sampled
  BY <1>1, <1>2 DEF StartsWrite, StartsRead, EndsRead, Continues, SlaveAnswers, AccessInStep, Reading,
     PortTypeOK
<1>6. ~Reading' => ~d1 /\ ~d2 /\ ~d3
  BY <1>4, <1>5, Periods DEF ReadStages
<1>7. Reading' /\ ~sampled' => NotSampled'
  <2>1. CASE Reading
    BY <1>3, <1>4, <1>5, <2>1 DEF ReadStages, NotSampled
  <2>2. CASE ~Reading
    <3> SUFFICES ASSUME Reading' PROVE NotSampled'
      OBVIOUS
    <3>1. ~d1 /\ ~d2 /\ ~d3
      BY <2>2 DEF ReadStages
    <3>2. NextEdgeRead' <= FastPeriod
      BY <1>4, <1>5, <2>2 DEF Reading
    <3> QED
      BY <1>3, <3>1, <3>2 DEF NotSampled
  <2> QED
    BY <2>1, <2>2
<1>8. master' = "data" => /\ d1 => NextEdgeRead' <= SlowPeriod + FastPeriod
                          /\ d2 => NextEdgeRead' <= SlowPeriod + 2 * FastPeriod
                          /\ d3 => NextEdgeRead' <= SlowPeriod + 3 * FastPeriod
  <2> SUFFICES ASSUME master' = "data"
               PROVE  /\ d1 => NextEdgeRead' <= SlowPeriod + FastPeriod
                      /\ d2 => NextEdgeRead' <= SlowPeriod + 2 * FastPeriod
                      /\ d3 => NextEdgeRead' <= SlowPeriod + 3 * FastPeriod
    OBVIOUS
  <2>1. NextEdgeRead' = NextEdgeRead
    BY <1>4, <1>5 DEF Reading
  <2>2. CASE master = "data"
    BY <2>1, <2>2 DEF ReadStages
  <2>3. CASE master # "data"
    <3>1. NextEdgeRead <= SlowPeriod + FastPeriod
      BY <1>4, <1>5, <2>3 DEF Reading
    <3> QED
      BY <1>4, <2>1, <3>1, Periods
  <2> QED
    BY <2>2, <2>3
<1>9. rvalid' = 3 => sampled'
  <2> SUFFICES ASSUME rvalid' = 3, ~sampled PROVE FALSE
    BY <1>5
  <2>1. NotSampled
    BY <1>5 DEF ReadStages, Reading
  <2> QED
    BY <1>4, <1>5, <2>1, Periods DEF NotSampled
<1> QED
  BY <1>3, <1>5, <1>6, <1>7, <1>8, <1>9 DEF ReadStages

LEMMA SamplingSteps ==
  ASSUME PortTypeOK, AccessInStep, NEW now, FastEdge(now)
  PROVE  /\ d1' = (master = "read" /\ arready) /\ d2' = d1 /\ d3' = d2
         /\ flags' = IF d2 /\ ~d3 THEN now ELSE flags
         /\ sampled' = (sampled \/ (d2 /\ ~d3))
         /\ UNCHANGED <<master, arready, rvalid, rdata>> /\ Reading' = Reading
<1>1. rdenCdc \in Shift3 /\ Rden \in BOOLEAN
  BY DEF PortTypeOK, Rden
<1>2. rdenCdc'[1] = Rden /\ rdenCdc'[2] = rdenCdc[1] /\ rdenCdc'[3] = rdenCdc[2]
  BY <1>1, Shifting DEF FastEdge, CrossReads
<1>3. Rden = (master = "read" /\ arready)
  BY DEF Rden, PortTypeOK, AccessInStep
<1> QED
  BY <1>2, <1>3 DEF FastEdge, CrossReads, slowVars, Rising, Reading, d1, d2, d3

LEMMA FastKeepsReadStages ==
  ASSUME TypeOK, AccessInStep, ReadStages, LogicClock
  PROVE  ReadStages'
<1>1. PortTypeOK /\ FastEdge(FlagsNow) /\ FastTick /\ UNCHANGED slowVars
  BY DEF TypeOK, LogicClock, FastEdge
<1>2. /\ NextEdgeRead \in Int /\ NextEdgeRead' = NextEdgeRead + FastPeriod
      /\ Reading /\ NextEdgeRead <= FastPeriod => master = "read" /\ arready
  BY <1>1, FastReadTime
<1>3. /\ d1' = (master = "read" /\ arready) /\ d2' = d1 /\ d3' = d2
      /\ sampled' = (sampled \/ (d2 /\ ~d3))
      /\ UNCHANGED <<master, arready, rvalid>> /\ Reading' = Reading
  BY <1>1, SamplingSteps
<1>4. d1 \in BOOLEAN /\ d2 \in BOOLEAN /\ d3 \in BOOLEAN /\ sampled \in BOOLEAN
  BY <1>1 DEF PortTypeOK, Shift3, d1, d2, d3
<1>5. ~Reading' => ~d1' /\ ~d2' /\ ~d3'
  BY <1>3 DEF ReadStages, Reading
<1>6. master' = "read" /\ ~arready' => ~sampled'
  BY <1>3 DEF ReadStages, Reading
<1>7. Reading' /\ ~sampled' => NotSampled'
  <2> SUFFICES ASSUME Reading, ~sampled, ~(d2 /\ ~d3) PROVE NotSampled'
    BY <1>3
  <2>1. NotSampled
    BY DEF ReadStages
  <2>2. CASE ~d1 /\ ~d2 /\ ~d3 /\ NextEdgeRead <= FastPeriod
    <3>1. d1' /\ ~d2' /\ ~d3'
      BY <1>2, <1>3, <1>4, <2>2
    <3>2. NextEdgeRead' <= 2 * FastPeriod
      BY <1>2, <2>2, Periods
    <3> QED
      BY <3>1, <3>2 DEF NotSampled
  <2>3. CASE d1 /\ ~d2 /\ ~d3 /\ NextEdgeRead <= 2 * FastPeriod
    <3>1. d2' /\ ~d3'
      BY <1>3, <1>4, <2>3
    <3>2. NextEdgeRead' <= 3 * FastPeriod
      BY <1>2, <2>3, Periods
    <3> QED
      BY <3>1, <3>2 DEF NotSampled
  <2> QED
    BY <2>1, <2>2, <2>3 DEF NotSampled
<1>8. master' = "data" => /\ d1' => NextEdgeRead' <= SlowPeriod + FastPeriod
                          /\ d2' => NextEdgeRead' <= SlowPeriod + 2 * FastPeriod
                          /\ d3' => NextEdgeRead' <= SlowPeriod + 3 * FastPeriod
  <2> SUFFICES ASSUME master' = "data"
               PROVE  /\ d1' => NextEdgeRead' <= SlowPeriod + FastPeriod
                      /\ d2' => NextEdgeRead' <= SlowPeriod + 2 * FastPeriod
                      /\ d3' => NextEdgeRead' <= SlowPeriod + 3 * FastPeriod
    OBVIOUS
  <2>1. master = "data" /\ ~d1'
    BY <1>3
  <2>2. d2' => d1 /\ NextEdgeRead <= SlowPeriod + FastPeriod
    BY <1>3, <2>1 DEF ReadStages
  <2>3. d3' => d2 /\ NextEdgeRead <= SlowPeriod + 2 * FastPeriod
    BY <1>3, <2>1 DEF ReadStages
  <2>4. d2' => NextEdgeRead' <= SlowPeriod + 2 * FastPeriod
    BY <1>2, <2>2, Periods
  <2>5. d3' => NextEdgeRead' <= SlowPeriod + 3 * FastPeriod
    BY <1>2, <2>3, Periods
  <2> QED
    BY <2>1, <2>4, <2>5
<1>9. rvalid' = 3 => sampled'
  BY <1>3 DEF ReadStages
<1> QED
  BY <1>5, <1>6, <1>7, <1>8, <1>9 DEF ReadStages

-----------------------------------------------------------------------------
(* A word on its way has a place: the word is written when the flag that   *)
(* was read says so, and the flag counts the word before it.               *)
Room == Len(fifo) < Depth

WordHasRoom ==
  /\ Reading => due = Nothing
  /\ Reading /\ (d1 \/ d2 \/ d3 \/ sampled) => ~fifoWr
  /\ Reading /\ sampled /\ ~flags.full => Room
  /\ rvalid = 3 /\ ~rdata.full => Room
  /\ task = "send" \/ (master = "write" /\ ~ready /\ wreg = "tape") =>
       due = Nothing /\ ~fifoWr /\ Room
  /\ due.reg = "tape" => ~fifoWr /\ Room
  /\ fifoWr => Room

LEMMA SlowKeepsRoom ==
  ASSUME TypeOK, AccessInStep, WriteStages, ReadStages, WordHasRoom, ProcessorClock
  PROVE  WordHasRoom'
<1>1. PortTypeOK /\ SlowTick /\ UNCHANGED fastVars /\ UNCHANGED pulseVars /\ SlaveAnswers
  BY SlaveSteps DEF TypeOK, ProcessorClock, SlowEdge
<1>2. StartsWrite \/ StartsRead \/ EndsRead \/ Continues
  BY <1>1, ProcessorSteps DEF ProcessorClock
<1>3. UNCHANGED <<d1, d2, d3, fifoWr, Room, flags>>
  BY <1>1 DEF fastVars, pulseVars, d1, d2, d3, Room
<1>4. master = "read" => due = Nothing
  <2> SUFFICES ASSUME master = "read", due # Nothing PROVE FALSE
    OBVIOUS
  <2>1. NextEdge \in Int /\ NextEdge >= 4 * SlowPeriod
    BY <1>1, <1>2, SlowTime
  <2> QED
    BY <2>1, Periods DEF WriteStages, Unseen, FirstStage, SecondStage, Delivered
<1>5. /\ Reading' => (Reading \/ (master = "read" /\ ~arready)) /\ due' = due /\ sampled' = sampled
      /\ rvalid' = 3 => rvalid = 2 /\ Reading /\ rdata' = flags
      /\ master = "read" /\ ~arready => ~Reading
  BY <1>1, <1>2 DEF StartsWrite, StartsRead, EndsRead, Continues, SlaveAnswers, AccessInStep, Reading,
     PortTypeOK
<1>6. rvalid' = 3 => sampled
  <2>1. rvalid' = 3 => sampled' /\ sampled' = sampled
    BY <1>1, <1>2, SlowKeepsReadStages
       DEF ReadStages, StartsWrite, StartsRead, EndsRead, Continues, SlaveAnswers, AccessInStep, PortTypeOK
  <2> QED
    BY <2>1
<1>7. /\ Reading' => due' = Nothing
      /\ Reading' /\ (d1' \/ d2' \/ d3' \/ sampled') => ~fifoWr'
      /\ Reading' /\ sampled' /\ ~flags'.full => Room'
  BY <1>3, <1>4, <1>5 DEF WordHasRoom, ReadStages, Reading
<1>8. rvalid' = 3 /\ ~rdata'.full => Room'
  BY <1>3, <1>5, <1>6 DEF WordHasRoom
<1>9. task' = "send" \/ (master' = "write" /\ ~ready' /\ wreg' = "tape") =>
        due' = Nothing /\ ~fifoWr' /\ Room'
  <2> SUFFICES ASSUME task' = "send" \/ (master' = "write" /\ ~ready' /\ wreg' = "tape")
               PROVE  due' = Nothing /\ ~fifoWr' /\ Room'
    OBVIOUS
  <2>1. EndsRead \/ task = "send"
    BY <1>1, <1>2 DEF StartsWrite, StartsRead, EndsRead, Continues, SlaveAnswers, AccessInStep
  <2>2. master # "write" /\ due' = due
    BY <1>1, <2>1 DEF EndsRead, AccessInStep, SlaveAnswers
  <2>3. CASE EndsRead /\ task # "send"
    <3>1. Reading /\ rvalid = 3
      BY <2>3 DEF EndsRead, Reading
    <3>2. ~rdata.full
      BY <1>1, <2>3 DEF EndsRead
    <3> QED
      BY <1>3, <2>2, <3>1, <3>2 DEF WordHasRoom, ReadStages
  <2>4. CASE task = "send"
    BY <1>3, <2>2, <2>4 DEF WordHasRoom
  <2> QED
    BY <2>1, <2>3, <2>4
<1>10. due'.reg = "tape" => ~fifoWr' /\ Room'
  <2>1. CASE master = "write" /\ ~ready
    BY <1>1, <1>3, <2>1 DEF SlaveAnswers, WordHasRoom
  <2>2. CASE ~(master = "write" /\ ~ready)
    BY <1>1, <1>3, <2>2 DEF SlaveAnswers, WordHasRoom
  <2> QED
    BY <2>1, <2>2
<1> QED
  BY <1>3, <1>7, <1>8, <1>9, <1>10 DEF WordHasRoom, Nothing

LEMMA FastKeepsRoom ==
  ASSUME TypeOK, AccessInStep, WriteStages, ReadStages, WordHasRoom, LogicClock
  PROVE  WordHasRoom'
<1>1. PortTypeOK /\ PulseTypeOK /\ FastEdge(FlagsNow)
  BY DEF TypeOK, LogicClock
<1>2. PICK tick \in BOOLEAN, waiting \in BOOLEAN :
        PulseEdge(tick, waiting, Delivers("tape"), regData)
  BY DEF LogicClock
<1>3. /\ due' = IF wrEn THEN Nothing ELSE due
      /\ UNCHANGED <<master, ready>>
  BY <1>1, CrossingSteps
<1>4. /\ d1' = (master = "read" /\ arready) /\ d2' = d1 /\ d3' = d2
      /\ flags' = IF d2 /\ ~d3 THEN FlagsNow ELSE flags
      /\ sampled' = (sampled \/ (d2 /\ ~d3))
      /\ UNCHANGED <<rvalid, rdata>> /\ Reading' = Reading
  BY <1>1, SamplingSteps
<1>5. UNCHANGED <<wreg, task>>
  BY <1>1 DEF FastEdge, slowVars, LogicClock
<1>6. fifoWr' = (wrEn /\ enabled = "tape")
  BY <1>2 DEF PulseEdge, FifoRegister, Delivers
<1>7. ~fifoWr /\ Room => Room'
  <2>1. fifo \in Seq(TapeWord) /\ Len(fifo) <= Depth /\ fifoDin \in TapeWord /\ dout \in TapeWord
        /\ fifoWr \in BOOLEAN
    BY <1>1 DEF PulseTypeOK
  <2>2. fifo' \in Seq(TapeWord) /\ (~fifoWr => Len(fifo') <= Len(fifo))
    BY <1>2, <2>1, FifoTyped DEF PulseEdge
  <2> DEFINE m == Len(fifo)
             n == Len(fifo')
  <2>3. m \in Nat /\ n \in Nat
    BY <2>1, <2>2, LenProperties
  <2>4. (~fifoWr => n <= m) /\ (Room <=> m < Depth) /\ (Room' <=> n < Depth)
    BY <2>2 DEF Room
  <2> HIDE DEF m, n
  <2> QED
    BY <2>3, <2>4, DepthAssumption
<1>8. wrEn => due # Nothing /\ due.reg = enabled
  BY DEF WriteStages, Quiet, Unseen, FirstStage, SecondStage, Delivered
<1>9. ~Full => Room
  BY <1>1, DepthAssumption, LenProperties DEF Full, Room, PulseTypeOK
<1>10. /\ Reading' => due' = Nothing
       /\ Reading' => ~fifoWr'
  BY <1>3, <1>4, <1>6, <1>8 DEF WordHasRoom
<1>11. Reading' /\ sampled' /\ ~flags'.full => Room'
  <2>1. CASE d2 /\ ~d3
    <3>1. flags'.full = Full
      BY <1>4, <2>1 DEF FlagsNow
    <3> QED
      BY <1>4, <1>7, <1>9, <2>1, <3>1 DEF WordHasRoom
  <2>2. CASE ~(d2 /\ ~d3)
    BY <1>1, <1>4, <1>7, <2>2 DEF WordHasRoom, PortTypeOK
  <2> QED
    BY <2>1, <2>2
<1>12. rvalid' = 3 /\ ~rdata'.full => Room'
  BY <1>4, <1>7 DEF WordHasRoom, ReadStages, AccessInStep, Reading
<1>13. task' = "send" \/ (master' = "write" /\ ~ready' /\ wreg' = "tape") =>
         due' = Nothing /\ ~fifoWr' /\ Room'
  BY <1>3, <1>5, <1>6, <1>7, <1>8 DEF WordHasRoom
<1>14. due'.reg = "tape" => ~fifoWr' /\ Room'
  BY <1>3, <1>6, <1>7 DEF WordHasRoom, Nothing
<1>15. fifoWr' => Room'
  BY <1>6, <1>7, <1>8 DEF WordHasRoom
<1> QED
  BY <1>10, <1>11, <1>12, <1>13, <1>14, <1>15 DEF WordHasRoom, Nothing

-----------------------------------------------------------------------------
(* The types. *)

LEMMA WordIsValue ==
  /\ "tape" \in Registers /\ "other" \in Registers /\ Values = TapeWord
  /\ FlagsNow \in Flags
  /\ Cleared \in Shift3
<1>1. FlagsNow \in [full : BOOLEAN, empty : BOOLEAN]
  BY DEF FlagsNow, Full
<1> QED
  BY <1>1, WrittenAssumption DEF Cleared, Shift3

LEMMA SlowKeepsTypes ==
  ASSUME TypeOK, AccessInStep, ProcessorClock
  PROVE  TypeOK'
<1>1. PortTypeOK /\ SlowTick /\ UNCHANGED fastVars /\ UNCHANGED pulseVars /\ SlaveAnswers /\ Slave
  BY SlaveSteps DEF TypeOK, ProcessorClock, SlowEdge
<1>2. StartsWrite \/ StartsRead \/ EndsRead \/ Continues
  BY <1>1, ProcessorSteps DEF ProcessorClock
<1>3. slow' \in 0 .. SlowPeriod /\ fast' \in 0 .. FastPeriod
  BY <1>1, Periods DEF PortTypeOK, SlowTick
<1>4. /\ master' \in {"idle", "write", "response", "read", "data"}
      /\ wreg' \in Registers /\ wval' \in Values /\ sampled' \in BOOLEAN
      /\ task' \in {"poll", "send"}
  BY <1>1, <1>2, WordIsValue DEF StartsWrite, StartsRead, EndsRead, Continues, PortTypeOK, TypeOK
<1>5. /\ awaddr' \in Registers /\ regData' \in Values
      /\ ready' \in BOOLEAN /\ bvalid' \in BOOLEAN /\ arready' \in BOOLEAN
      /\ rdata' \in Flags
  BY <1>1 DEF Slave, Wren, PortTypeOK
<1>6. rvalid' \in 0 .. 3
  BY <1>1 DEF SlaveAnswers, PortTypeOK
<1>7. rdenVec' \in Shift3
  BY <1>1, Shifting DEF Slave, Rden, PortTypeOK
<1>8. due' \in Writes \cup {Nothing}
  BY <1>1 DEF SlaveAnswers, Writes, PortTypeOK
<1>9. PortTypeOK'
  BY <1>1, <1>3, <1>4, <1>5, <1>6, <1>7, <1>8 DEF PortTypeOK, fastVars, Writes, Nothing
<1> QED
  BY <1>1, <1>4, <1>9 DEF TypeOK, PulseTypeOK, pulseVars

LEMMA FastKeepsTypes ==
  ASSUME TypeOK, LogicClock
  PROVE  TypeOK'
<1>1. PortTypeOK /\ PulseTypeOK /\ FastEdge(FlagsNow) /\ FastTick /\ UNCHANGED slowVars
  BY DEF TypeOK, LogicClock, FastEdge
<1>2. PICK tick \in BOOLEAN, waiting \in BOOLEAN :
        PulseEdge(tick, waiting, Delivers("tape"), regData)
  BY DEF LogicClock
<1>3. Delivers("tape") \in BOOLEAN /\ regData \in TapeWord
  BY <1>1, WordIsValue DEF Delivers, PortTypeOK
<1>4. PulseTypeOK'
  BY <1>1, <1>2, <1>3, PulseTyped
<1>5. slow' \in 0 .. SlowPeriod /\ fast' \in 0 .. FastPeriod
  BY <1>1, Periods DEF PortTypeOK, FastTick
<1>6. wrenCdc' \in Shift3 /\ rdenCdc' \in Shift3
  BY <1>1, Shifting DEF FastEdge, CrossWrites, CrossReads, Wren, Rden, PortTypeOK
<1>7. /\ awaddrR1' \in Registers /\ awaddrR2' \in Registers /\ wrEn' \in BOOLEAN
      /\ enabled' \in Registers \cup {"none"}
  BY <1>1 DEF FastEdge, CrossWrites, Rising, PortTypeOK, Shift3
<1>8. flags' \in Flags /\ sampled' \in BOOLEAN /\ due' \in Writes \cup {Nothing}
  BY <1>1, WordIsValue DEF FastEdge, CrossWrites, CrossReads, PortTypeOK
<1>9. PortTypeOK'
  BY <1>1, <1>5, <1>6, <1>7, <1>8 DEF PortTypeOK, slowVars, Writes, Nothing
<1> QED
  BY <1>4, <1>9 DEF TypeOK, LogicClock

-----------------------------------------------------------------------------
(* The inductive invariant. *)
IInv ==
  /\ TypeOK
  /\ PulseInv /\ PulsesInOrder
  /\ AccessInStep /\ WriteStages /\ ReadStages
  /\ WordHasRoom

LEMMA Starts == Init => IInv
<1> SUFFICES ASSUME Init PROVE IInv
  OBVIOUS
<1>1. PulseInit /\ PortInit("tape", fifoDin, FlagsNow) /\ task = "poll"
  BY DEF Init
<1>2. PulseTypeOK
  <2>1. fifo \in Seq(TapeWord) /\ Len(fifo) = 0
    BY <1>1, EmptySeq DEF PulseInit
  <2>2. Len(fifo) <= Depth
    BY <2>1, DepthAssumption
  <2>3. counter \in 0 .. Idle /\ quiet \in 0 .. 3
    BY <1>1, WordsAssumption DEF PulseInit
  <2>4. /\ fifoWr \in BOOLEAN /\ fifoDin \in TapeWord /\ dout \in TapeWord /\ rdEn \in BOOLEAN
        /\ pulse \in BOOLEAN /\ level \in BOOLEAN /\ fresh \in BOOLEAN
        /\ event \in {"none", "missed", "replayed"}
    BY <1>1 DEF PulseInit
  <2> QED
    BY <2>1, <2>2, <2>3, <2>4 DEF PulseTypeOK
<1>3. PortTypeOK
  <2>1. fifoDin \in Values
    BY <1>2, WordIsValue DEF PulseTypeOK
  <2>2. slow \in 0 .. SlowPeriod /\ fast \in 0 .. FastPeriod
    BY <1>1, Periods DEF PortInit
  <2>3. /\ wreg \in Registers /\ awaddr \in Registers /\ awaddrR1 \in Registers
        /\ awaddrR2 \in Registers /\ wval \in Values /\ regData \in Values
    BY <1>1, <2>1, WordIsValue DEF PortInit
  <2>4. /\ rdenVec \in Shift3 /\ wrenCdc \in Shift3 /\ rdenCdc \in Shift3
        /\ rdata \in Flags /\ flags \in Flags
    BY <1>1, WordIsValue DEF PortInit
  <2>5. /\ master \in {"idle", "write", "response", "read", "data"}
        /\ ready \in BOOLEAN /\ bvalid \in BOOLEAN /\ arready \in BOOLEAN /\ wrEn \in BOOLEAN
        /\ enabled \in Registers \cup {"none"}
        /\ due \in Writes \cup {Nothing} /\ sampled \in BOOLEAN
    BY <1>1, Zenon DEF PortInit
  <2>6. rvalid \in 0 .. 3
    BY <1>1 DEF PortInit
  <2> QED
    BY <2>2, <2>3, <2>4, <2>5, <2>6 DEF PortTypeOK
<1>4. PulseInv /\ PulsesInOrder
  BY <1>1 DEF PulseInit, PulseInv, PulsesInOrder
<1>5. ~c1 /\ ~c2 /\ ~c3 /\ ~d1 /\ ~d2 /\ ~d3 /\ \A i \in 1 .. 3 : ~rdenVec[i]
  BY <1>1 DEF PortInit, Cleared, c1, c2, c3, d1, d2, d3
<1>6. AccessInStep
  BY <1>1, <1>5 DEF PortInit, AccessInStep
<1>7. WriteStages
  BY <1>1, <1>5 DEF PortInit, WriteStages, Quiet, Draining, Wren
<1>8. ReadStages
  BY <1>1, <1>5 DEF PortInit, ReadStages, Reading
<1>9. WordHasRoom
  BY <1>1, <1>5 DEF PortInit, PulseInit, WordHasRoom, Reading, Nothing
<1> QED
  BY <1>1, <1>2, <1>3, <1>4, <1>6, <1>7, <1>8, <1>9 DEF IInv, TypeOK

LEMMA SlowKeeps ==
  ASSUME IInv, ProcessorClock
  PROVE  IInv'
<1>1. TypeOK /\ AccessInStep /\ WriteStages /\ ReadStages /\ WordHasRoom
  BY DEF IInv
<1>2. TypeOK'
  BY <1>1, SlowKeepsTypes
<1>3. PulseInv' /\ PulsesInOrder'
  BY DEF ProcessorClock, pulseVars, IInv, PulseInv, PulsesInOrder
<1>4. AccessInStep'
  BY <1>1, AccessKept DEF Next
<1>5. WriteStages' /\ ReadStages' /\ WordHasRoom'
  BY <1>1, SlowKeepsStages, SlowKeepsReadStages, SlowKeepsRoom
<1> QED
  BY <1>2, <1>3, <1>4, <1>5 DEF IInv

LEMMA FastKeeps ==
  ASSUME IInv, LogicClock
  PROVE  IInv'
<1>1. TypeOK /\ AccessInStep /\ WriteStages /\ ReadStages /\ WordHasRoom
  BY DEF IInv
<1>2. TypeOK'
  BY <1>1, FastKeepsTypes
<1>3. PulseInv' /\ PulsesInOrder'
  <2>1. PICK tick \in BOOLEAN, waiting \in BOOLEAN :
          PulseEdge(tick, waiting, Delivers("tape"), regData)
    BY DEF LogicClock
  <2> QED
    BY <2>1, PulseKept DEF IInv, TypeOK
<1>4. AccessInStep'
  BY <1>1, AccessKept DEF Next
<1>5. WriteStages' /\ ReadStages' /\ WordHasRoom'
  BY <1>1, FastKeepsStages, FastKeepsReadStages, FastKeepsRoom
<1> QED
  BY <1>2, <1>3, <1>4, <1>5 DEF IInv

LEMMA Stutters ==
  ASSUME IInv, UNCHANGED vars
  PROVE  IInv'
<1>1. UNCHANGED <<timeVars, slowVars, fastVars, due, sampled, pulseVars, task>>
  BY DEF vars, portVars
<1>2. TypeOK' /\ PulseInv' /\ PulsesInOrder' /\ AccessInStep'
  BY <1>1 DEF IInv, TypeOK, PortTypeOK, PulseTypeOK, PulseInv, PulsesInOrder, AccessInStep, Writes, Nothing,
     timeVars, slowVars, fastVars, pulseVars
<1>3. WriteStages'
  BY <1>1 DEF IInv, WriteStages, Unseen, FirstStage, SecondStage, Delivered, Quiet, Draining, Wren, NextEdge,
     Since, c1, c2, c3, Nothing, timeVars, slowVars, fastVars
<1>4. ReadStages'
  BY <1>1 DEF IInv, ReadStages, NotSampled, Reading, NextEdgeRead, SinceRead, d1, d2, d3, timeVars, slowVars,
     fastVars
<1>5. WordHasRoom'
  BY <1>1 DEF IInv, WordHasRoom, Reading, Room, d1, d2, d3, Nothing, slowVars, fastVars, pulseVars
<1> QED
  BY <1>2, <1>3, <1>4, <1>5 DEF IInv

(* The pulse process, the accesses, the words and the flags that cross and *)
(* the room in the FIFO keep each other in order, whatever the two clocks, *)
(* the loop of zx_tape.c and the Z80 do.                                   *)
THEOREM Invariance == Spec => []IInv
<1>1. IInv /\ [Next]_vars => IInv'
  BY SlowKeeps, FastKeeps, Stutters DEF Next
<1> QED
  BY Starts, <1>1, PTL DEF Spec

-----------------------------------------------------------------------------
(* The counters stay in their range: v_tape_counter never goes below zero  *)
(* (p_tape_in), and the FIFO never holds more than it has places for.      *)
THEOREM TypeCorrect == Spec => []TypeOK
<1>1. IInv => TypeOK
  BY DEF IInv
<1> QED
  BY Invariance, <1>1, PTL

(* No pulse is played twice, and none is missed but after a word of        *)
(* length 0 (p_tape_in of zx_main_top.vhd).                                *)
THEOREM PlaysInOrder == Spec => []PulsesInOrder
<1>1. IInv => PulsesInOrder
  BY DEF IInv
<1> QED
  BY Invariance, <1>1, PTL

(* The loop of zx_tape_routine never writes a word to a full FIFO: between *)
(* the flag it reads and the word it sends every other word has arrived.   *)
THEOREM NoOverflow == Spec => []NeverOverflows
<1>1. IInv => NeverOverflows
  <2> SUFFICES ASSUME IInv, fifoWr PROVE ~Full
    BY DEF NeverOverflows
  <2>1. Len(fifo) \in Nat /\ Len(fifo) < Depth
    BY LenProperties DEF IInv, TypeOK, PulseTypeOK, WordHasRoom, Room
  <2> QED
    BY <2>1, DepthAssumption DEF Full
<1> QED
  BY Invariance, <1>1, PTL

(* Every register write zx_ctrl.vhd accepts is delivered once, to its own  *)
(* register and with its own data, before another one is accepted.         *)
THEOREM WritesDelivered == Spec => WritesDeliveredOnce
<1>1. ASSUME IInv, ProcessorClock
      PROVE  /\ wrEn /\ ~wrEn' => due = [reg |-> enabled, val |-> regData]
             /\ ~ready /\ ready' => due = Nothing
  <2>1. PortTypeOK /\ AccessInStep /\ WriteStages /\ SlowTick /\ SlaveAnswers /\ wrEn' = wrEn
    BY <1>1, SlaveSteps DEF IInv, TypeOK, ProcessorClock, SlowEdge, fastVars
  <2>2. StartsWrite \/ StartsRead \/ EndsRead \/ Continues
    BY <1>1, <2>1, ProcessorSteps DEF ProcessorClock
  <2>3. ASSUME ~ready, ready', due # Nothing PROVE FALSE
    <3>1. master = "write"
      BY <2>1, <2>3 DEF SlaveAnswers
    <3>2. NextEdge \in Int /\ NextEdge >= 4 * SlowPeriod
      BY <2>1, <2>2, <2>3, <3>1, SlowTime
    <3> QED
      BY <2>1, <2>3, <3>2, Periods DEF WriteStages, Unseen, FirstStage, SecondStage, Delivered
  <2> QED
    BY <2>1, <2>3
<1>2. ASSUME IInv, LogicClock
      PROVE  /\ wrEn /\ ~wrEn' => due = [reg |-> enabled, val |-> regData]
             /\ ~ready /\ ready' => due = Nothing
  <2>1. ready' = ready
    BY <1>2 DEF LogicClock, FastEdge, slowVars
  <2>2. wrEn => due = [reg |-> enabled, val |-> regData]
    BY <1>2 DEF IInv, WriteStages, Quiet, Unseen, FirstStage, SecondStage, Delivered
  <2> QED
    BY <2>1, <2>2
<1>3. IInv /\ [Next]_vars =>
        [/\ wrEn /\ ~wrEn' => due = [reg |-> enabled, val |-> regData]
         /\ ~ready /\ ready' => due = Nothing]_portVars
  BY <1>1, <1>2 DEF Next, vars
<1> QED
  BY Invariance, <1>3, PTL DEF Spec, WritesDeliveredOnce

(* What a read of zx_ctrl.vhd returns was taken on the logic's side after  *)
(* the read began.                                                         *)
THEOREM ReadsFresh == Spec => ReadsAreFresh
<1>1. ASSUME IInv, ProcessorClock
      PROVE  (rvalid # 3 /\ rvalid' = 3) \/ rdata' # rdata => sampled
  <2>1. TypeOK /\ PortTypeOK /\ AccessInStep /\ ReadStages /\ SlowTick /\ SlaveAnswers
    BY <1>1, SlaveSteps DEF IInv, TypeOK, ProcessorClock, SlowEdge
  <2>2. StartsWrite \/ StartsRead \/ EndsRead \/ Continues
    BY <1>1, <2>1, ProcessorSteps DEF ProcessorClock
  <2>3. (rvalid # 3 /\ rvalid' = 3) \/ rdata' # rdata => rvalid = 2
    BY <2>1 DEF SlaveAnswers, PortTypeOK
  <2>4. ASSUME rvalid = 2, ~sampled PROVE FALSE
    <3>1. Reading
      BY <2>1, <2>4 DEF AccessInStep, Reading
    <3>2. NextEdgeRead \in Int /\ NextEdgeRead >= 3 * SlowPeriod
      BY <2>1, <2>2, <2>4, SlowReadTime
    <3> QED
      BY <2>1, <2>4, <3>1, <3>2, Periods DEF ReadStages, NotSampled
  <2> QED
    BY <2>3, <2>4
<1>2. ASSUME IInv, LogicClock
      PROVE  (rvalid # 3 /\ rvalid' = 3) \/ rdata' # rdata => sampled
  BY <1>2 DEF LogicClock, FastEdge, slowVars
<1>3. IInv /\ [Next]_vars => [(rvalid # 3 /\ rvalid' = 3) \/ rdata' # rdata => sampled]_portVars
  BY <1>1, <1>2 DEF Next, vars
<1> QED
  BY Invariance, <1>3, PTL DEF Spec, ReadsAreFresh

-----------------------------------------------------------------------------
(* The queue of words: what is on its way is one word at most, in the FIFO *)
(* next, or crossing, or offered.                                          *)

LEMMA OneOfThree ==
  ASSUME NEW u \in Seq(TapeWord), NEW v \in Seq(TapeWord), NEW w \in Seq(TapeWord)
  PROVE  /\ v = <<>> /\ w = <<>> => u \o v \o w = u
         /\ u = <<>> /\ w = <<>> => u \o v \o w = v
         /\ u = <<>> /\ v = <<>> => u \o v \o w = w
<1>1. u \o <<>> = u /\ <<>> \o v = v /\ v \o <<>> = v /\ <<>> \o w = w
  BY ConcatEmptySeq
<1>2. <<>> \o <<>> = <<>>
  BY EmptySeq, ConcatEmptySeq
<1> QED
  BY <1>1, <1>2

WhatIsOnTheWay ==
  /\ OnTheWay = <<>> \/ \E word \in TapeWord : OnTheWay = <<word>>
  /\ OnTheWay = IF fifoWr THEN <<fifoDin>>
                ELSE IF due.reg = "tape" THEN <<due.val>>
                ELSE IF Offered THEN <<wval>> ELSE <<>>

LEMMA OnTheWayIs == IInv => WhatIsOnTheWay
<1> SUFFICES ASSUME IInv PROVE WhatIsOnTheWay
  OBVIOUS
<1>1. PortTypeOK /\ PulseTypeOK /\ WordHasRoom
  BY DEF IInv, TypeOK
<1>2. /\ fifoWr => fifoDin \in TapeWord /\ due.reg # "tape" /\ ~Offered
      /\ due.reg = "tape" => due.val \in TapeWord /\ ~Offered
      /\ wval \in TapeWord
  BY <1>1, WordIsValue DEF WordHasRoom, PulseTypeOK, PortTypeOK, Offered, Nothing, Writes
<1> DEFINE u == One(fifoWr, fifoDin)
           v == One(due.reg = "tape", due.val)
           w == One(Offered, wval)
<1>3. /\ u = IF fifoWr THEN <<fifoDin>> ELSE <<>>
      /\ v = IF due.reg = "tape" THEN <<due.val>> ELSE <<>>
      /\ w = IF Offered THEN <<wval>> ELSE <<>>
  BY DEF One
<1>4. OnTheWay = u \o v \o w
  BY DEF OnTheWay
<1> HIDE DEF u, v, w
<1>5. u \in Seq(TapeWord) /\ v \in Seq(TapeWord) /\ w \in Seq(TapeWord)
  BY <1>2, <1>3
<1>6. OnTheWay = IF fifoWr THEN <<fifoDin>>
                 ELSE IF due.reg = "tape" THEN <<due.val>>
                 ELSE IF Offered THEN <<wval>> ELSE <<>>
  BY <1>2, <1>3, <1>4, <1>5, OneOfThree
<1> QED
  BY <1>2, <1>6 DEF WhatIsOnTheWay

LEMMA OnTheWayNext == IInv' => WhatIsOnTheWay'
  BY OnTheWayIs, PTL

(* A clock of the processor sends a word, sees room, or moves nothing but  *)
(* the word that is on its way.                                            *)
LEMMA SlowStepOfQueue ==
  ASSUME IInv, ProcessorClock
  PROVE  [Pulses!Next]_(Pulses!vars)
<1>1. PortTypeOK /\ AccessInStep /\ WriteStages /\ WordHasRoom /\ TypeOK /\ fifo \in Seq(TapeWord)
  BY DEF IInv, TypeOK, PulseTypeOK
<1>2. SlowTick /\ SlaveAnswers /\ UNCHANGED <<fifo, fifoWr, fifoDin>>
  BY <1>1, SlaveSteps DEF ProcessorClock, SlowEdge, pulseVars
<1>3. StartsWrite \/ StartsRead \/ EndsRead \/ Continues
  BY <1>1, ProcessorSteps DEF ProcessorClock
<1>4. WhatIsOnTheWay /\ WhatIsOnTheWay'
  BY OnTheWayIs, OnTheWayNext, SlowKeeps
<1>5. master = "write" /\ ~ready => due = Nothing
  <2> SUFFICES ASSUME master = "write", ~ready, due # Nothing PROVE FALSE
    OBVIOUS
  <2>1. NextEdge \in Int /\ NextEdge >= 4 * SlowPeriod
    BY <1>1, <1>2, <1>3, SlowTime
  <2> QED
    BY <1>1, <2>1, Periods DEF WriteStages, Unseen, FirstStage, SecondStage, Delivered
<1>6. CASE StartsWrite /\ task = "send"
  <2>1. /\ master = "idle" /\ master' = "write" /\ ~ready' /\ wreg' = "tape" /\ wval' \in TapeWord
        /\ task' = "poll" /\ due' = due
    BY <1>2, <1>6 DEF StartsWrite, SlaveAnswers
  <2>2. due = Nothing /\ ~fifoWr
    BY <1>1, <1>6 DEF WordHasRoom
  <2>3. OnTheWay = <<>> /\ OnTheWay' = <<wval'>>
    BY <1>2, <1>4, <2>1, <2>2 DEF WhatIsOnTheWay, Offered, Nothing
  <2>4. Sent = fifo /\ Sent' = fifo \o <<wval'>>
    BY <1>1, <1>2, <2>3, ConcatEmptySeq DEF Sent
  <2>5. Sent' = Append(Sent, wval')
    BY <1>1, <2>1, <2>4, AppendIsConcat
  <2> QED
    BY <1>6, <2>1, <2>5 DEF Pulses!Next, Pulses!Send
<1>7. CASE EndsRead /\ ~rdata.full
  <2>1. master = "data" /\ master' = "idle" /\ rvalid = 3 /\ due' = due /\ task' = "send" /\ task = "poll"
    BY <1>1, <1>2, <1>7 DEF EndsRead, SlaveAnswers, AccessInStep, TypeOK
  <2>2. due = Nothing /\ Room /\ ~fifoWr
    BY <1>1, <2>1, <1>7 DEF WordHasRoom, Reading, IInv, ReadStages
  <2>3. OnTheWay = <<>> /\ OnTheWay' = <<>>
    BY <1>2, <1>4, <2>1, <2>2 DEF WhatIsOnTheWay, Offered, Nothing
  <2>4. Sent = fifo /\ Sent' = fifo
    BY <1>1, <1>2, <2>3, ConcatEmptySeq DEF Sent
  <2> QED
    BY <2>1, <2>2, <2>4 DEF Room, Pulses!Next, Pulses!Look
<1>8. CASE ~(StartsWrite /\ task = "send") /\ ~(EndsRead /\ ~rdata.full)
  <2>1. (task' = "send") = (task = "send")
    BY <1>1, <1>3, <1>8 DEF StartsWrite, StartsRead, EndsRead, Continues, TypeOK, AccessInStep
  <2>2. OnTheWay' = OnTheWay
    <3>1. CASE master = "write" /\ ~ready
      <4>1. due = Nothing /\ due' = [reg |-> wreg, val |-> wval] /\ ready'
        BY <1>2, <1>5, <3>1 DEF SlaveAnswers
      <4>2. Offered = (wreg = "tape") /\ ~Offered' /\ due'.reg = wreg /\ due'.val = wval
        BY <3>1, <4>1 DEF Offered
      <4> QED
        BY <1>2, <1>4, <4>1, <4>2 DEF WhatIsOnTheWay, Nothing
    <3>2. CASE ~(master = "write" /\ ~ready)
      <4>1. due' = due /\ ~Offered
        BY <1>2, <3>2 DEF SlaveAnswers, Offered
      <4>2. ~Offered'
        BY <1>3, <1>8, <3>2 DEF StartsWrite, StartsRead, EndsRead, Continues, Offered
      <4> QED
        BY <1>2, <1>4, <4>1, <4>2 DEF WhatIsOnTheWay
    <3> QED
      BY <3>1, <3>2
  <2>3. Sent' = Sent
    BY <1>2, <2>2 DEF Sent
  <2> QED
    BY <2>1, <2>3 DEF Pulses!vars
<1> QED
  BY <1>6, <1>7, <1>8

(* A clock of the logic takes the oldest word or moves nothing but the     *)
(* word that is on its way.                                                *)
LEMMA FastStepOfQueue ==
  ASSUME IInv, LogicClock
  PROVE  [Pulses!Next]_(Pulses!vars)
<1>1. PortTypeOK /\ PulseTypeOK /\ WriteStages /\ WordHasRoom /\ FastEdge(FlagsNow)
  BY DEF IInv, TypeOK, LogicClock
<1>2. PICK tick \in BOOLEAN, waiting \in BOOLEAN :
        PulseEdge(tick, waiting, Delivers("tape"), regData)
  BY DEF LogicClock
<1>3. /\ due' = IF wrEn THEN Nothing ELSE due
      /\ UNCHANGED <<master, ready, wreg, wval, task>>
  BY <1>1, CrossingSteps DEF FastEdge, slowVars, LogicClock
<1>4. /\ fifoWr' = (wrEn /\ enabled = "tape")
      /\ fifoDin' = IF wrEn /\ enabled = "tape" THEN regData ELSE fifoDin
  BY <1>2 DEF PulseEdge, FifoRegister, Delivers
<1>5. wrEn => due.reg = enabled /\ due.val = regData
  BY <1>1 DEF WriteStages, Quiet, Unseen, FirstStage, SecondStage, Delivered
<1>6. Offered' = Offered
  BY <1>3 DEF Offered
<1>7. WhatIsOnTheWay /\ WhatIsOnTheWay'
  BY OnTheWayIs, OnTheWayNext, FastKeeps
<1>8. fifo \in Seq(TapeWord) /\ fifoDin \in TapeWord
  BY <1>1 DEF PulseTypeOK
<1> DEFINE rest == IF Pops THEN Tail(fifo) ELSE fifo
<1>9. rest \in Seq(TapeWord)
  BY <1>8, HeadTailProperties DEF Pops
<1>10. fifo' = IF fifoWr THEN Append(rest, fifoDin) ELSE rest
  <2>1. fifoWr => ~Full
    BY <1>1, <1>8, DepthAssumption, LenProperties DEF WordHasRoom, Room, Full
  <2> QED
    BY <1>2, <2>1 DEF PulseEdge, Fifo
<1> HIDE DEF rest
<1>11. Sent' = rest \o OnTheWay
  <2>1. CASE fifoWr
    <3>1. due.reg # "tape" /\ ~Offered
      BY <1>1, <2>1 DEF WordHasRoom, Offered
    <3>2. ~fifoWr' /\ due'.reg # "tape"
      BY <1>3, <1>4, <1>5, <3>1 DEF Nothing
    <3>3. OnTheWay = <<fifoDin>> /\ OnTheWay' = <<>>
      BY <1>6, <1>7, <2>1, <3>1, <3>2 DEF WhatIsOnTheWay
    <3>4. Append(rest, fifoDin) = rest \o <<fifoDin>> /\ Append(rest, fifoDin) \in Seq(TapeWord)
      BY <1>8, <1>9, AppendIsConcat, AppendProperties
    <3>5. Append(rest, fifoDin) \o <<>> = Append(rest, fifoDin)
      BY <3>4, ConcatEmptySeq
    <3> QED
      BY <1>10, <2>1, <3>3, <3>4, <3>5 DEF Sent
  <2>2. CASE ~fifoWr
    <3>1. OnTheWay' = OnTheWay
      <4>1. CASE due.reg = "tape"
        <5>1. OnTheWay = <<due.val>>
          BY <1>7, <2>2, <4>1 DEF WhatIsOnTheWay
        <5>2. CASE wrEn
          BY <1>4, <1>5, <1>7, <4>1, <5>1, <5>2 DEF WhatIsOnTheWay
        <5>3. CASE ~wrEn
          BY <1>1, <1>3, <1>4, <1>7, <4>1, <5>1, <5>3 DEF WhatIsOnTheWay
        <5> QED
          BY <1>1, <5>2, <5>3 DEF PortTypeOK
      <4>2. CASE due.reg # "tape"
        <5>1. ~fifoWr' /\ due'.reg # "tape"
          BY <1>3, <1>4, <1>5, <4>2 DEF Nothing
        <5> QED
          BY <1>3, <1>6, <1>7, <2>2, <4>2, <5>1 DEF WhatIsOnTheWay
      <4> QED
        BY <4>1, <4>2
    <3> QED
      BY <1>10, <2>2, <3>1 DEF Sent
  <2> QED
    BY <1>1, <2>1, <2>2 DEF PulseTypeOK
<1>12. CASE ~Pops
  <2>1. Sent' = Sent
    BY <1>11, <1>12 DEF rest, Sent
  <2> QED
    BY <1>3, <2>1 DEF Pulses!vars
<1>13. CASE Pops
  <2>1. fifo # <<>> /\ rest = Tail(fifo)
    BY <1>13 DEF rest, Pops
  <2>2. Sent # <<>> /\ Tail(Sent) = Tail(fifo) \o OnTheWay
    <3>1. CASE OnTheWay = <<>>
      BY <1>8, <1>9, <2>1, <3>1, ConcatEmptySeq DEF Sent
    <3>2. ASSUME NEW word \in TapeWord, OnTheWay = <<word>>
          PROVE  Sent # <<>> /\ Tail(Sent) = Tail(fifo) \o OnTheWay
      <4>1. Sent = Append(fifo, word) /\ Tail(fifo) \o OnTheWay = Append(Tail(fifo), word)
        BY <1>8, <1>9, <2>1, <3>2, AppendIsConcat DEF Sent
      <4>2. Append(fifo, word) # <<>> /\ Tail(Append(fifo, word)) = Append(Tail(fifo), word)
        BY <1>8, <2>1, <3>2, AppendProperties, HeadTailAppend, EmptySeq
      <4> QED
        BY <4>1, <4>2
    <3> QED
      BY <1>7, <3>1, <3>2 DEF WhatIsOnTheWay
  <2>3. Sent' = Tail(Sent)
    BY <1>11, <2>1, <2>2
  <2> QED
    BY <1>3, <2>2, <2>3 DEF Pulses!Next, Pulses!Take
<1> QED
  BY <1>12, <1>13

(* The loop of zx_tape.c, the bus, the crossing of the clocks and the FIFO *)
(* of the logic implement the queue of words the tape player relies on:    *)
(* each word sent is taken once, unchanged and in its turn, and room that  *)
(* was seen is there for it.                                               *)
THEOREM IsPulseQueue == Spec => ImplementsPulseQueue
<1>1. Init => Pulses!Init
  <2> SUFFICES ASSUME Init PROVE Pulses!Init
    OBVIOUS
  <2>1. IInv /\ fifo = <<>> /\ ~fifoWr /\ due = Nothing /\ master = "idle" /\ task = "poll"
    BY Starts DEF Init, PulseInit, PortInit
  <2>2. OnTheWay = <<>>
    BY <2>1, OnTheWayIs DEF WhatIsOnTheWay, Offered, Nothing
  <2>3. Sent = <<>>
    <3>1. <<>> \in Seq(TapeWord)
      BY EmptySeq
    <3> QED
      BY <2>1, <2>2, <3>1, ConcatEmptySeq DEF Sent
  <2> QED
    BY <2>1, <2>3 DEF Pulses!Init
<1>2. IInv /\ [Next]_vars => [Pulses!Next]_(Pulses!vars)
  <2> SUFFICES ASSUME IInv, [Next]_vars PROVE [Pulses!Next]_(Pulses!vars)
    OBVIOUS
  <2>1. CASE UNCHANGED vars
    BY <2>1 DEF vars, portVars, slowVars, pulseVars, Pulses!vars, Sent, OnTheWay, Offered
  <2> QED
    BY <2>1, SlowStepOfQueue, FastStepOfQueue DEF Next
<1> QED
  BY Invariance, <1>1, <1>2, PTL DEF Spec, ImplementsPulseQueue, Pulses!Spec

=============================================================================
