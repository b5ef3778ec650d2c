------------------------- MODULE SnapshotLoaderProofs -------------------------
(***************************************************************************)
(* That zx_cpu_modify_pc forces the program counter of the Z80 only while  *)
(* it is halted between two instructions, that the Z80 executes the loader *)
(* program and the snapshot only once they are in memory, and the type     *)
(* invariant, for every choice of contents and with and without failures   *)
(* of the card.                                                            *)
(***************************************************************************)
EXTENDS SnapshotLoader, FiniteSetTheorems, SequenceTheorems, TLAPS

(* The halt acknowledgement is given between two instructions only, never  *)
(* survives into a reset or the end of the request, and is given to a      *)
(* request at the first start of an instruction after it.                  *)
HaltGenerator ==
  /\ halt_ack => cpu.place = "start" /\ ~control.reset /\ control.halt
  /\ arrived /\ control.halt => halt_ack

(* Once the loader has written the control register for the first time,    *)
(* its copy of the register is the register.                               *)
CopyIsRegister == step \notin {"boot", "idle"} \/ shadow.halt => shadow = control

(* What the copy holds where a step of zx_cpu_modify_pc relies on it.      *)
ForcingPrepared ==
  /\ step \in {"boot", "reset", "settle", "halt"} => ~shadow.halt
  /\ step = "m_release" => shadow.halt
  /\ step = "m_force" => shadow.halt /\ ~shadow.reset /\ shadow.restore_n
  /\ step \in {"boot", "idle", "open", "end", "reset", "settle", "m_resume", "m_start",
               "spin", "pages", "page"} => ~shadow.reset
  /\ step # "m_resume" => /\ shadow.restore_n \/ shadow.pc = Zero
                          /\ control.restore_n \/ shadow.pc = Zero

(* A page is being read only while there are pages to load. *)
PageChosen == step = "page" => todo # << >>

Inv == TypeOK /\ HaltGenerator /\ CopyIsRegister /\ ForcingPrepared /\ PageChosen

-----------------------------------------------------------------------------
(* The operators of the model. *)

(* What every write of the register leaves behind. *)
RegisterTyped ==
  /\ control \in Control
  /\ halt_ack \in BOOLEAN
  /\ arrived \in BOOLEAN
  /\ cpu \in [place : {"reset", "start", "inside"},
              pc : {Zero, Machine, Loader, Spin, Snapshot}]

LEMMA WritesOfRegister ==
  ASSUME TypeOK, HaltGenerator, NEW c \in Control, Write(c),
         c.reset => ~(halt_ack /\ c.halt)
  PROVE  control' = c /\ RegisterTyped' /\ HaltGenerator'
<1>1. control' = c /\ arrived' = FALSE
  BY DEF Write
<1>2. c.halt \in BOOLEAN /\ c.reset \in BOOLEAN /\ halt_ack \in BOOLEAN
  BY DEF TypeOK, Control
<1>3. CASE c.reset
  <2>1. halt_ack' = FALSE /\ cpu' = [place |-> "reset", pc |-> Zero]
    BY <1>2, <1>3 DEF Write
  <2> QED
    BY <1>1, <2>1 DEF RegisterTyped, HaltGenerator, Zero
<1>4. CASE ~c.reset /\ ~c.restore_n
  <2>1. /\ cpu' = [place |-> "start", pc |-> c.pc] /\ c.pc \in {Zero, Loader, Snapshot}
        /\ halt_ack' \in BOOLEAN /\ (halt_ack' => c.halt)
    BY <1>2, <1>4 DEF Write, Control
  <2>2. cpu' \in [place : {"reset", "start", "inside"},
                  pc : {Zero, Machine, Loader, Spin, Snapshot}] /\ cpu'.place = "start"
    BY <2>1
  <2> QED
    BY <1>1, <1>4, <2>1, <2>2 DEF RegisterTyped, HaltGenerator
<1>5. CASE ~c.reset /\ c.restore_n
  <2>1. cpu' = cpu /\ halt_ack' \in BOOLEAN /\ (halt_ack' => halt_ack /\ c.halt)
    BY <1>2, <1>5 DEF Write
  <2> QED
    BY <1>1, <1>5, <2>1 DEF RegisterTyped, HaltGenerator, TypeOK
<1> QED
  BY <1>3, <1>4, <1>5

LEMMA OrderOfPages ==
  ASSUME NEW f, f.page \in Pages
  PROVE  LoadOrder(f) \in Seq(Pages)
<1>1. Cardinality(Pages) = 8
  <2>1. 0 \in Int /\ 7 \in Int
    OBVIOUS
  <2>2. Cardinality(0 .. 7) = IF 0 > 7 THEN 0 ELSE 7 - 0 + 1
    BY <2>1, FS_Interval, Zenon
  <2> QED
    BY <2>2, SMT DEF Pages
<1>2. [i \in 1 .. 8 |-> i - 1] \in Seq(Pages)
  BY DEF Pages
<1>3. <<5, 2, f.page>> \in Seq(Pages)
  BY DEF Pages
<1>4. LoadOrder(f) = <<5, 2, f.page>> \o [i \in 1 .. 8 |-> i - 1]
  BY <1>1 DEF LoadOrder
<1> QED
  BY <1>2, <1>3, <1>4, ConcatProperties, Zenon

LEMMA BanksOfFile ==
  ASSUME NEW f, f.page \in Pages
  PROVE  /\ FileBanks(f) \in Seq(Pages)
         /\ Len(FileBanks(f)) <= 9
<1> DEFINE rest == IF f.kind = "48K" THEN << >> ELSE OthersBut(f.page)
<1>1. Others \in Seq(Pages) /\ Len(Others) = 6
  BY DEF Others, Pages
<1>2. OthersBut(f.page) \in Seq(Pages) /\ Len(OthersBut(f.page)) <= 6
  <2>1. CASE f.page \in {5, 2}
    <3>1. OthersBut(f.page) = Others
      BY <2>1 DEF OthersBut
    <3>2. Len(Others) <= 6
      BY <1>1
    <3> QED
      BY <1>1, <3>1, <3>2, Zenon
  <2>2. CASE f.page \notin {5, 2}
    <3>1. \A i \in 1 .. 6 : Others[i] \in Pages
      <4> SUFFICES ASSUME NEW i \in 1 .. 6 PROVE Others[i] \in Pages
        OBVIOUS
      <4>1. i \in 1 .. Len(Others)
        BY <1>1
      <4> QED
        BY <1>1, <4>1, ElementOfSeq
    <3> DEFINE q == [i \in 1 .. 5 |-> IF Others[i] < f.page THEN Others[i] ELSE Others[i + 1]]
    <3>2. q \in [1 .. 5 -> Pages]
      BY <3>1
    <3>3. q \in Seq(Pages) /\ Len(q) = 5
      BY <3>2
    <3> QED
      BY <2>2, <3>3 DEF OthersBut
  <2> QED
    BY <2>1, <2>2
<1>3. rest \in Seq(Pages) /\ Len(rest) <= 6
  BY <1>2
<1>4. <<5, 2, f.page>> \in Seq(Pages) /\ Len(<<5, 2, f.page>>) = 3
  BY DEF Pages
<1> HIDE DEF rest
<1>5. FileBanks(f) = <<5, 2, f.page>> \o rest
  BY DEF FileBanks, rest
<1> QED
  BY <1>3, <1>4, <1>5

(* Where a delay ends, the Z80 is held by reset or restore, or halted as   *)
(* requested, or it runs and has left the loader program.                  *)
LEMMA AfterDelay ==
  ASSUME TypeOK, HaltGenerator, DelayEnds
  PROVE  \/ control.reset
         \/ ~control.restore_n
         \/ /\ halt_ack = control.halt
            /\ halt_ack \/ cpu.pc # Loader
  BY DEF TypeOK, Control, HaltGenerator, DelayEnds, Clocked

-----------------------------------------------------------------------------
(* The invariant. *)

LEMMA InvariantInitially == Init => Inv
<1> SUFFICES ASSUME Init PROVE Inv
  OBVIOUS
<1>1. shadow \in Control /\ control \in Control
  BY DEF Init, Control
<1>2. cpu \in [place : {"reset", "start", "inside"}, pc : {Zero, Machine, Loader, Spin, Snapshot}]
  BY DEF Init
<1>3. mem \in [Pages -> Pages \cup {Old, LoaderCode, Torn}]
  BY DEF Init
<1>4. file \in [kind : {"none", "missing", "short", "48K", "128K"}, page : Pages]
  BY DEF Init, Pages
<1>5. todo \in Seq(Pages) /\ bank \in 0 .. 9
  BY DEF Init
<1>6. TypeOK
  BY <1>1, <1>2, <1>3, <1>4, <1>5 DEF Init, TypeOK, Steps
<1> QED
  BY <1>6 DEF Init, Inv, HaltGenerator, CopyIsRegister, ForcingPrepared, PageChosen, Zero

LEMMA Z80KeepsInvariant == Inv /\ Z80 => Inv'
<1> SUFFICES ASSUME Inv, Z80 PROVE Inv'
  OBVIOUS
<1> USE DEF Inv
<1>1. CASE Execute
  <2>1. mem' \in [Pages -> Pages \cup {Old, LoaderCode, Torn}]
    BY <1>1 DEF Execute, TypeOK
  <2>2. ports' \in {"clear", Machine, "snapshot"}
    BY <1>1 DEF Execute, TypeOK
  <2>3. cpu' \in [place : {"reset", "start", "inside"},
                  pc : {Zero, Machine, Loader, Spin, Snapshot}]
    BY <1>1 DEF Execute, TypeOK
  <2> QED
    BY <1>1, <2>1, <2>2, <2>3 DEF Execute, Clocked, TypeOK, HaltGenerator,
       CopyIsRegister, ForcingPrepared, PageChosen, fileVars
<1>2. CASE Finish \/ LeaveReset
  <2>1. /\ ~control.reset /\ control.halt \in BOOLEAN
        /\ halt_ack' = control.halt /\ arrived' = TRUE
        /\ UNCHANGED <<step, shadow, control, ports, mem, fileVars, target>>
    BY <1>2 DEF Finish, LeaveReset, Arrive, Clocked, TypeOK, Control
  <2>2. \E pc \in {Zero, Machine, Loader, Spin, Snapshot} : cpu' = [place |-> "start", pc |-> pc]
    BY <1>2 DEF Finish, LeaveReset, Arrive
  <2>3. cpu'.place = "start" /\ cpu' \in [place : {"reset", "start", "inside"},
                                           pc : {Zero, Machine, Loader, Spin, Snapshot}]
    BY <2>2
  <2>4. HaltGenerator'
    BY <2>1, <2>3 DEF HaltGenerator
  <2> QED
    BY <2>1, <2>3, <2>4 DEF TypeOK, CopyIsRegister, ForcingPrepared, PageChosen, fileVars
<1> QED
  BY <1>1, <1>2 DEF Z80

(* The first write, by the main task. *)
LEMMA BootKeepsInvariant == Inv /\ Boot => Inv'
<1> SUFFICES ASSUME Inv, Boot PROVE Inv'
  OBVIOUS
<1> USE DEF Inv
<1>1. PICK reset \in BOOLEAN, pc \in {Zero, Loader, Snapshot} :
        Write([halt |-> FALSE, restore_n |-> TRUE, reset |-> reset, pc |-> pc])
  BY DEF Boot
<1> DEFINE c == [halt |-> FALSE, restore_n |-> TRUE, reset |-> reset, pc |-> pc]
<1>2. c \in Control /\ Write(c) /\ (c.reset => ~(halt_ack /\ c.halt))
  BY <1>1 DEF Control
<1> HIDE DEF c
<1>3. control' = c /\ RegisterTyped' /\ HaltGenerator'
  BY <1>2, WritesOfRegister
<1>4. control'.restore_n
  BY <1>3 DEF c
<1> QED
  BY <1>3, <1>4 DEF RegisterTyped, Boot, TypeOK, Steps, CopyIsRegister, ForcingPrepared, PageChosen, fileVars

(* The writes by the loader: each writes its copy with one field or more   *)
(* changed, and never resets the Z80 while it stays halted.                *)
LEMMA WritesOfLoader ==
  ASSUME Inv, NEW c \in Control, WriteShadow(c), c.reset => ~(halt_ack /\ c.halt)
  PROVE  /\ shadow' = c /\ shadow' \in Control /\ control' = c
         /\ RegisterTyped' /\ HaltGenerator'
  BY WritesOfRegister DEF WriteShadow, Inv

LEMMA WritesOfStart ==
  ASSUME Inv, zx_cpu_start
  PROVE  /\ shadow' = [shadow EXCEPT !.halt = FALSE] /\ shadow' \in Control /\ control' = shadow'
         /\ RegisterTyped' /\ HaltGenerator'
<1> DEFINE c == [shadow EXCEPT !.halt = FALSE]
<1>1. c \in Control /\ WriteShadow(c) /\ ~c.halt
  BY DEF zx_cpu_start, Inv, TypeOK, Control
<1> HIDE DEF c
<1>2. shadow' = c /\ shadow' \in Control /\ control' = c /\ RegisterTyped'
      /\ HaltGenerator'
  BY <1>1, WritesOfLoader
<1> QED
  BY <1>2 DEF c

LEMMA WritesOfStop ==
  ASSUME Inv, zx_cpu_stop, shadow.reset => ~halt_ack
  PROVE  /\ shadow' = [shadow EXCEPT !.halt = TRUE] /\ shadow' \in Control /\ control' = shadow'
         /\ RegisterTyped' /\ HaltGenerator'
<1> DEFINE c == [shadow EXCEPT !.halt = TRUE]
<1>1. c \in Control /\ WriteShadow(c) /\ (c.reset => ~(halt_ack /\ c.halt))
  BY DEF zx_cpu_stop, Inv, TypeOK, Control
<1> HIDE DEF c
<1>2. shadow' = c /\ shadow' \in Control /\ control' = c /\ RegisterTyped'
      /\ HaltGenerator'
  BY <1>1, WritesOfLoader
<1> QED
  BY <1>2 DEF c

LEMMA WritesOfReset ==
  ASSUME Inv, NEW reset \in BOOLEAN, zx_cpu_reset(reset), ~shadow.halt
  PROVE  /\ shadow' = [shadow EXCEPT !.reset = reset, !.restore_n = TRUE]
         /\ shadow' \in Control /\ control' = shadow'
         /\ ports' \in {"clear", Machine, "snapshot"}
         /\ RegisterTyped' /\ HaltGenerator'
<1> DEFINE c == [shadow EXCEPT !.reset = reset, !.restore_n = TRUE]
<1>1. c \in Control /\ WriteShadow(c) /\ ~c.halt
  BY DEF zx_cpu_reset, Inv, TypeOK, Control
<1>2. ports' \in {"clear", Machine, "snapshot"}
  BY DEF zx_cpu_reset, Inv, TypeOK
<1> HIDE DEF c
<1>3. shadow' = c /\ shadow' \in Control /\ control' = c /\ RegisterTyped'
      /\ HaltGenerator'
  BY <1>1, WritesOfLoader
<1> QED
  BY <1>2, <1>3 DEF c

(* Opening the file and resetting the machine. *)
LEMMA OpeningKeepsInvariant ==
  ASSUME Inv,
         \/ \E f \in FileChoices : zx_snapshot_load(f)
         \/ OpenFails \/ OpenFile \/ ResetPorts \/ ResetZ80 \/ RequestHalt \/ LoadReturns
  PROVE  Inv'
<1> USE DEF Inv
<1>1. ASSUME NEW f \in FileChoices, zx_snapshot_load(f)
      PROVE  Inv'
  <2>1. f \in [kind : {"none", "missing", "short", "48K", "128K"}, page : Pages]
    BY DEF FileChoices, Pages
  <2>2. CASE shadow.halt /\ step # "boot"
    BY <1>1, <2>1, <2>2 DEF zx_snapshot_load, logicVars, TypeOK, Steps, HaltGenerator,
       CopyIsRegister, ForcingPrepared, PageChosen
  <2>3. CASE ~shadow.halt
    <3>1. zx_cpu_stop /\ ~shadow.reset
      BY <1>1, <2>3 DEF zx_snapshot_load, ForcingPrepared, PageChosen
    <3>2. /\ shadow' = [shadow EXCEPT !.halt = TRUE] /\ shadow' \in Control /\ control' = shadow'
          /\ RegisterTyped' /\ HaltGenerator'
      BY <3>1, WritesOfStop
    <3> QED
      BY <1>1, <2>1, <3>1, <3>2 DEF zx_snapshot_load, RegisterTyped, TypeOK, Steps, Control,
         CopyIsRegister, ForcingPrepared, PageChosen
  <2> QED
    BY <1>1, <2>2, <2>3 DEF zx_snapshot_load
<1>2. CASE OpenFails
  BY <1>2 DEF OpenFails, logicVars, fileVars, TypeOK, Steps, HaltGenerator,
     CopyIsRegister, ForcingPrepared, PageChosen
<1>3. CASE OpenFile
  <2>1. /\ shadow' = [shadow EXCEPT !.halt = FALSE] /\ shadow' \in Control /\ control' = shadow'
        /\ RegisterTyped' /\ HaltGenerator'
    BY <1>3, WritesOfStart DEF OpenFile
  <2> QED
    BY <1>3, <2>1 DEF OpenFile, RegisterTyped, TypeOK, Steps, Control, CopyIsRegister,
       ForcingPrepared, PageChosen, fileVars
<1>4. CASE ResetPorts
  <2>1. ~shadow.halt /\ zx_cpu_reset(FALSE)
    BY <1>4 DEF ResetPorts, ForcingPrepared, PageChosen
  <2>2. /\ shadow' = [shadow EXCEPT !.reset = FALSE, !.restore_n = TRUE]
        /\ shadow' \in Control /\ control' = shadow'
        /\ ports' \in {"clear", Machine, "snapshot"}
        /\ RegisterTyped' /\ HaltGenerator'
    BY <2>1, WritesOfReset
  <2> QED
    BY <1>4, <2>1, <2>2 DEF ResetPorts, RegisterTyped, TypeOK, Steps, Control, CopyIsRegister,
       ForcingPrepared, PageChosen, fileVars
<1>5. CASE ResetZ80
  <2>1. ~shadow.halt /\ zx_cpu_reset(TRUE)
    BY <1>5 DEF ResetZ80, ForcingPrepared, PageChosen
  <2>2. /\ shadow' = [shadow EXCEPT !.reset = TRUE, !.restore_n = TRUE]
        /\ shadow' \in Control /\ control' = shadow'
        /\ ports' \in {"clear", Machine, "snapshot"}
        /\ RegisterTyped' /\ HaltGenerator'
    BY <2>1, WritesOfReset
  <2> QED
    BY <1>5, <2>1, <2>2 DEF ResetZ80, RegisterTyped, TypeOK, Steps, Control, CopyIsRegister,
       ForcingPrepared, PageChosen, fileVars
<1>6. CASE RequestHalt
  <2>1. zx_cpu_stop /\ (shadow.reset => ~halt_ack)
    BY <1>6 DEF RequestHalt, CopyIsRegister, HaltGenerator
  <2>2. /\ shadow' = [shadow EXCEPT !.halt = TRUE] /\ shadow' \in Control /\ control' = shadow'
        /\ RegisterTyped' /\ HaltGenerator'
    BY <2>1, WritesOfStop
  <2> QED
    BY <1>6, <2>2 DEF RequestHalt, RegisterTyped, TypeOK, Steps, Control, CopyIsRegister,
       ForcingPrepared, PageChosen, fileVars
<1>7. CASE LoadReturns
  <2>1. CASE shadow.halt
    BY <1>7, <2>1 DEF LoadReturns, logicVars, fileVars, TypeOK, Steps, HaltGenerator,
       CopyIsRegister, ForcingPrepared, PageChosen
  <2>2. CASE ~shadow.halt
    <3>1. /\ shadow' = [shadow EXCEPT !.halt = FALSE] /\ shadow' \in Control /\ control' = shadow'
          /\ RegisterTyped' /\ HaltGenerator'
      BY <1>7, <2>2, WritesOfStart DEF LoadReturns
    <3> QED
      BY <1>7, <3>1 DEF LoadReturns, RegisterTyped, TypeOK, Steps, Control, CopyIsRegister,
         ForcingPrepared, PageChosen, fileVars
  <2> QED
    BY <2>1, <2>2
<1> QED
  BY <1>1, <1>2, <1>3, <1>4, <1>5, <1>6, <1>7

(* Preparing the loader program: the headers, page 2 and the paging port. *)
LEMMA PrepareKeepsInvariant == ASSUME Inv, Prepare PROVE Inv'
<1> USE DEF Inv
<1>1. WriteShadow(shadow) /\ shadow \in Control /\ (shadow.reset => ~(halt_ack /\ shadow.halt))
  BY DEF Prepare, TypeOK, CopyIsRegister, HaltGenerator
<1>2. shadow' = shadow /\ shadow' \in Control /\ control' = shadow /\ RegisterTyped'
      /\ HaltGenerator'
  BY <1>1, WritesOfLoader
<1>3. file' \in [kind : {"none", "missing", "short", "48K", "128K"}, page : Pages]
  BY DEF Prepare, TypeOK
<1>4. damaged' \in BOOLEAN
  BY DEF Prepare
<1>5. todo' \in Seq(Pages)
  <2>1. file'.page \in Pages
    BY <1>3
  <2>2. todo' = LoadOrder(file')
    BY DEF Prepare
  <2> QED
    BY <2>1, <2>2, OrderOfPages
<1>6. mem' \in [Pages -> Pages \cup {Old, LoaderCode, Torn}]
  BY DEF Prepare, TypeOK
<1> QED
  BY <1>2, <1>3, <1>4, <1>5, <1>6
     DEF Prepare, RegisterTyped, TypeOK, Steps, CopyIsRegister, ForcingPrepared, PageChosen

(* Forcing the program counter, and stopping the loader program. *)
LEMMA ModifyKeepsInvariant == ASSUME Inv, Modify \/ StopLoader PROVE Inv'
<1> USE DEF Inv
<1> DEFINE forced == [shadow EXCEPT !.restore_n = FALSE]
           resumed == [shadow EXCEPT !.restore_n = TRUE]
           released == [shadow EXCEPT !.pc = target, !.reset = FALSE, !.restore_n = TRUE]
<1>1. CASE ModifyStops \/ StopLoader
  <2>1. zx_cpu_stop /\ (shadow.reset => ~halt_ack)
    BY <1>1 DEF ModifyStops, StopLoader, CopyIsRegister, HaltGenerator
  <2>2. /\ shadow' = [shadow EXCEPT !.halt = TRUE] /\ shadow' \in Control /\ control' = shadow'
        /\ RegisterTyped' /\ HaltGenerator'
    BY <2>1, WritesOfStop
  <2> QED
    BY <1>1, <2>2 DEF ModifyStops, StopLoader, RegisterTyped, TypeOK, Steps, Control,
       CopyIsRegister, ForcingPrepared, PageChosen, fileVars
<1>2. CASE ModifyReleases
  <2>1. released \in Control /\ WriteShadow(released) /\ ~released.reset
    BY <1>2 DEF ModifyReleases, TypeOK, Control
  <2> HIDE DEF released
  <2>2. shadow' = released /\ shadow' \in Control /\ control' = released /\ RegisterTyped'
        /\ HaltGenerator'
    BY <2>1, WritesOfLoader
  <2>3. released.restore_n /\ ~released.reset /\ released.halt
    BY <1>2 DEF ModifyReleases, released, TypeOK, Control, ForcingPrepared, PageChosen
  <2> QED
    BY <1>2, <2>2, <2>3 DEF ModifyReleases, RegisterTyped, TypeOK, Steps, CopyIsRegister,
       ForcingPrepared, PageChosen, fileVars
<1>3. CASE ModifyForces
  <2>1. forced \in Control /\ WriteShadow(forced) /\ ~forced.reset
    BY <1>3 DEF ModifyForces, TypeOK, Control, ForcingPrepared, PageChosen
  <2> HIDE DEF forced
  <2>2. shadow' = forced /\ shadow' \in Control /\ control' = forced /\ RegisterTyped'
        /\ HaltGenerator'
    BY <2>1, WritesOfLoader
  <2> QED
    BY <1>3, <2>1, <2>2 DEF ModifyForces, RegisterTyped, TypeOK, Steps, CopyIsRegister,
       ForcingPrepared, PageChosen, fileVars
<1>4. CASE ModifyResumes
  <2>1. resumed \in Control /\ WriteShadow(resumed) /\ ~resumed.reset /\ resumed.restore_n
    BY <1>4 DEF ModifyResumes, TypeOK, Control, ForcingPrepared, PageChosen
  <2> HIDE DEF resumed
  <2>2. shadow' = resumed /\ shadow' \in Control /\ control' = resumed /\ RegisterTyped'
        /\ HaltGenerator'
    BY <2>1, WritesOfLoader
  <2> QED
    BY <1>4, <2>1, <2>2 DEF ModifyResumes, RegisterTyped, TypeOK, Steps, CopyIsRegister,
       ForcingPrepared, PageChosen, fileVars
<1>5. CASE ModifyStarts
  <2>1. /\ shadow' = [shadow EXCEPT !.halt = FALSE] /\ shadow' \in Control /\ control' = shadow'
        /\ RegisterTyped' /\ HaltGenerator'
    BY <1>5, WritesOfStart DEF ModifyStarts
  <2> QED
    BY <1>5, <2>1 DEF ModifyStarts, RegisterTyped, TypeOK, Steps, Control, CopyIsRegister,
       ForcingPrepared, PageChosen, fileVars
<1> QED
  BY <1>1, <1>2, <1>3, <1>4, <1>5 DEF Modify

(* Reading the pages, which leaves the register alone. *)
LEMMA LoadPagesKeepsInvariant == ASSUME Inv, LoadPages PROVE Inv'
<1> USE DEF Inv
<1>1. ASSUME todo # << >>
      PROVE  Head(todo) \in Pages /\ Tail(todo) \in Seq(Pages)
  BY <1>1, HeadTailProperties DEF TypeOK
<1>2. CASE PassOver
  BY <1>1, <1>2 DEF PassOver, logicVars, TypeOK, HaltGenerator, CopyIsRegister,
     ForcingPrepared, PageChosen
<1>3. CASE PageBegins
  <2>1. mem' \in [Pages -> Pages \cup {Old, LoaderCode, Torn}]
    BY <1>1, <1>3 DEF PageBegins, TypeOK
  <2> QED
    BY <1>3, <2>1 DEF PageBegins, logicVars, fileVars, TypeOK, Steps, HaltGenerator,
       CopyIsRegister, ForcingPrepared, PageChosen
<1>4. CASE PageEnds
  <2>1. FileBanks(file) \in Seq(Pages) /\ Len(FileBanks(file)) <= 9
    BY BanksOfFile DEF TypeOK
  <2>2. bank \in 0 .. 9 /\ Len(FileBanks(file)) \in Nat
    BY <2>1 DEF TypeOK
  <2>3. Head(todo) \in Pages /\ Tail(todo) \in Seq(Pages)
    BY <1>1, <1>4 DEF PageEnds, PageChosen
  <2>4. CASE ~NoData
    <3>1. ~(bank >= Len(FileBanks(file)))
      BY <2>4 DEF NoData
    <3>2. bank < Len(FileBanks(file)) /\ bank + 1 \in 0 .. 9
      <4> DEFINE n == Len(FileBanks(file))
      <4>1. n \in Nat /\ n <= 9 /\ ~(bank >= n) /\ bank \in 0 .. 9
        BY <2>1, <2>2, <3>1
      <4> HIDE DEF n
      <4>2. bank < n /\ bank + 1 \in 0 .. 9
        BY <4>1
      <4> QED
        BY <4>2 DEF n
    <3>3. FileBanks(file)[bank + 1] \in Pages
      <4> DEFINE banks == FileBanks(file)
      <4>1. banks \in Seq(Pages) /\ bank + 1 \in 1 .. Len(banks)
        BY <2>1, <2>2, <3>2
      <4> HIDE DEF banks
      <4>2. banks[bank + 1] \in Pages
        BY <4>1, ElementOfSeq
      <4> QED
        BY <4>2 DEF banks
    <3> DEFINE read == FileBanks(file)[bank + 1]
    <3>4. read \in Pages
      BY <3>3
    <3>5. mem' \in {mem, [mem EXCEPT ![Head(todo)] = read]} /\ bank' \in {bank, bank + 1}
          /\ damaged' \in {damaged, TRUE}
      BY <1>4, <2>4 DEF PageEnds
    <3> HIDE DEF read
    <3>6. mem' \in [Pages -> Pages \cup {Old, LoaderCode, Torn}]
      BY <2>3, <3>4, <3>5 DEF TypeOK
    <3>7. bank' \in 0 .. 9 /\ damaged' \in BOOLEAN
      BY <2>2, <3>2, <3>5 DEF TypeOK
    <3> QED
      BY <1>4, <2>3, <3>6, <3>7 DEF PageEnds, logicVars, TypeOK, Steps,
         HaltGenerator, CopyIsRegister, ForcingPrepared, PageChosen
  <2>5. CASE NoData
    <3>1. mem' = mem /\ bank' = bank /\ damaged' \in BOOLEAN
      BY <1>4, <2>5 DEF PageEnds, TypeOK
    <3> QED
      BY <1>4, <2>3, <3>1 DEF PageEnds, logicVars, TypeOK, Steps, HaltGenerator,
         CopyIsRegister, ForcingPrepared, PageChosen
  <2> QED
    BY <2>4, <2>5
<1>5. CASE PagesLoaded
  BY <1>5 DEF PagesLoaded, logicVars, fileVars, TypeOK, Steps, HaltGenerator,
     CopyIsRegister, ForcingPrepared, PageChosen
<1> QED
  BY <1>2, <1>3, <1>4, <1>5 DEF LoadPages

-----------------------------------------------------------------------------
(* The theorems. *)

(* The invariant holds in every reachable state, whatever the user loads,  *)
(* whatever the Z80 is doing and whether or not the card fails.            *)
THEOREM Invariance == Spec => []Inv
<1>1. Init => Inv
  BY InvariantInitially
<1>2. Inv /\ [Next]_vars => Inv'
  <2> SUFFICES ASSUME Inv, [Next]_vars
               PROVE  Inv'
    OBVIOUS
  <2>1. CASE Boot
    BY <2>1, BootKeepsInvariant
  <2>2. CASE \/ \E f \in FileChoices : zx_snapshot_load(f)
             \/ OpenFails \/ OpenFile \/ ResetPorts \/ ResetZ80 \/ RequestHalt \/ LoadReturns
    BY <2>2, OpeningKeepsInvariant
  <2>3. CASE Prepare
    BY <2>3, PrepareKeepsInvariant
  <2>4. CASE Modify \/ StopLoader
    BY <2>4, ModifyKeepsInvariant
  <2>5. CASE LoadPages
    BY <2>5, LoadPagesKeepsInvariant
  <2>6. CASE Z80
    BY <2>6, Z80KeepsInvariant
  <2>7. CASE UNCHANGED vars
    BY <2>7 DEF vars, logicVars, fileVars, Inv, TypeOK, HaltGenerator,
       CopyIsRegister, ForcingPrepared, PageChosen
  <2> QED
    BY <2>1, <2>2, <2>3, <2>4, <2>5, <2>6, <2>7 DEF Next, Task
<1> QED
  BY <1>1, <1>2, PTL DEF Spec

(* The loader and the Z80 never leave the range of a variable: at most     *)
(* nine banks are read from a file and every page loaded is one of the     *)
(* eight.                                                                  *)
THEOREM TypeCorrect == Spec => []TypeOK
<1>1. Inv => TypeOK
  BY DEF Inv
<1> QED
  BY <1>1, Invariance, PTL

(* Once zx_cpu_modify_pc has been called, the program counter is forced    *)
(* only while the Z80 is halted between two instructions.  Only one step   *)
(* asserts the restore input then; by the invariant the request to halt is *)
(* in the register, with reset and restore released, so that the Z80 has   *)
(* its clock until the halt generator sees it come to the start of an      *)
(* instruction, which it does before the delay ends.                       *)
THEOREM ForcedAtRest == Spec => PcForcedAtRest
<1> DEFINE A == ~control'.restore_n /\ shadow'.pc # Zero => halt_ack /\ cpu.place = "start"
<1>1. Inv /\ Inv' /\ [Next]_vars => [A]_vars
  <2> SUFFICES ASSUME Inv, Inv', Next, ~control'.restore_n, shadow'.pc # Zero
               PROVE  halt_ack /\ cpu.place = "start"
    OBVIOUS
  <2>1. step' = "m_resume"
    BY DEF Inv, ForcingPrepared
  <2>2. step = "m_force" => ModifyForces \/ Z80
    BY DEF Next, Task, Modify, LoadPages, zx_snapshot_load, Boot, OpenFails, OpenFile, ResetPorts,
       ResetZ80, RequestHalt, Prepare, ModifyStops, ModifyReleases, ModifyResumes, ModifyStarts,
       StopLoader, PassOver, PageBegins, PageEnds, PagesLoaded, LoadReturns
  <2>3. step \in {"m_force", "m_resume"}
    BY <2>1 DEF Next, Task, Modify, LoadPages, zx_snapshot_load, Boot, OpenFails, OpenFile,
       ResetPorts, ResetZ80, RequestHalt, Prepare, ModifyStops, ModifyReleases, ModifyForces,
       ModifyResumes, ModifyStarts, StopLoader, PassOver, PageBegins, PageEnds, PagesLoaded,
       LoadReturns, Z80, Execute, Finish, LeaveReset
  <2>4. ~Z80
    <3> SUFFICES ASSUME Z80 PROVE FALSE
      OBVIOUS
    <3>1. Clocked /\ control' = control
      BY DEF Z80, Execute, Finish, LeaveReset
    <3> QED
      BY <3>1 DEF Clocked
  <2>5. step # "m_resume"
    BY <2>1, <2>4 DEF Next, Task, Modify, LoadPages, zx_snapshot_load, Boot, OpenFails, OpenFile,
       ResetPorts, ResetZ80, RequestHalt, Prepare, ModifyStops, ModifyReleases, ModifyForces,
       ModifyResumes, ModifyStarts, StopLoader, PassOver, PageBegins, PageEnds, PagesLoaded,
       LoadReturns
  <2>6. ModifyForces
    BY <2>2, <2>3, <2>4, <2>5
  <2>7. halt_ack = control.halt /\ control.halt
    BY <2>6, AfterDelay DEF ModifyForces, Inv, TypeOK, Control, CopyIsRegister, ForcingPrepared
  <2> QED
    BY <2>7 DEF Inv, TypeOK, HaltGenerator
<1> QED
  BY <1>1, Invariance, PTL DEF Spec, PcForcedAtRest

-----------------------------------------------------------------------------
(* Where the Z80 executes and what the memory holds, step by step.         *)

InPages == step \in {"pages", "page"}
Forcing == step \in {"m_stop", "m_release", "m_force", "m_resume", "m_start"}
ForLoader == target = Loader /\ (Forcing \/ step = "spin")
ForSnapshot == target = Snapshot /\ Forcing
LeavingSpin == InPages \/ (ForSnapshot /\ step \notin {"m_resume", "m_start"})

(* The next instruction is the first one of the snapshot. *)
Awaiting == cpu.place = "start" /\ cpu.pc = Snapshot

(* What the control register holds while the loader works. *)
ControlHeld ==
  /\ LeavingSpin => shadow.halt /\ shadow.restore_n /\ ~shadow.reset
  /\ step \in {"m_start", "spin"} => shadow.restore_n
  /\ step = "spin" => ~shadow.halt
  /\ step \in {"m_force", "m_resume"} => shadow.pc = target /\ shadow.halt
  /\ step \in {"halt", "prepare"} \/ (ForLoader /\ step \in {"m_stop", "m_release"}) =>
       control.reset /\ cpu.place = "reset"

(* While the loader relies on it the Z80 stands still: from the reset on   *)
(* until the loader program is started, from the first page that has been  *)
(* read until the snapshot is started.                                     *)
StandsStill ==
  /\ ForLoader /\ step = "m_force" => cpu.place = "reset" \/ halt_ack
  /\ ForSnapshot \/ step \in {"m_resume", "m_start"} => halt_ack
  /\ InPages => halt_ack \/ Len(todo) = 11

WhereItExecutes ==
  /\ cpu.place = "reset" => cpu.pc = Zero
  /\ step \in {"m_resume", "m_start"} => cpu.place = "start" /\ cpu.pc = target
  /\ step = "spin" => cpu.pc \in {Loader, Spin}
  /\ LeavingSpin => cpu.pc = Spin
  /\ cpu.pc \in {Loader, Spin} => ForLoader \/ InPages \/ ForSnapshot
  /\ Awaiting => ForSnapshot \/ (step \in {"idle", "end"} /\ ~shadow.halt /\ Clocked)

(* How many entries of the order are behind, and what the i-th entry is. *)
Taken == 11 - Len(todo)
Ordered(page, i) ==
  IF i = 1 THEN 5 ELSE IF i = 2 THEN 2 ELSE IF i = 3 THEN page ELSE i - 4

PagesInOrder ==
  InPages => /\ Len(todo) <= 11
             /\ \A i \in 1 .. Len(todo) : todo[i] = Ordered(file.page, Taken + i)
             /\ step = "page" => ~PassedOver(Head(todo))

(* The number of pages below p that are not among the first three, if the  *)
(* third is the given one.                                                 *)
BanksBefore(page, p) ==
  p - (IF 2 < p THEN 1 ELSE 0) - (IF 5 < p THEN 1 ELSE 0)
    - (IF page < p /\ page \notin {5, 2} THEN 1 ELSE 0)

(* The bank of the file that comes next is the one that belongs into the   *)
(* page that comes next.                                                   *)
BanksTaken(f, taken) ==
  IF taken <= 3 THEN taken ELSE IF f.kind = "48K" THEN 3 ELSE 3 + BanksBefore(f.page, taken - 3)

BanksInStep == InPages /\ ~damaged => bank = BanksTaken(file, Taken)

(* The pages that are in their place so far. *)
Loaded(p) ==
  \/ p = 5 /\ Taken >= 1
  \/ p = 2 /\ Taken >= 2
  \/ p = file.page /\ Taken >= 3
  \/ file.kind # "48K" /\ p < Taken - 3

Content(p) ==
  IF step = "page" /\ p = Head(todo) /\ ~NoData THEN Torn
  ELSE IF Loaded(p) THEN p ELSE IF p = 2 THEN LoaderCode ELSE Old

MemoryBefore ==
  ~Forcing /\ step # "spin" /\ ~InPages /\ ~Awaiting => mem = [p \in Pages |-> Old]
MemoryOfLoader ==
  ForLoader => /\ mem = [p \in Pages |-> IF p = 2 THEN LoaderCode ELSE Old]
               /\ todo = LoadOrder(file)
               /\ bank = 0
MemoryInPages ==
  /\ InPages /\ Len(todo) = 11 => mem[2] = LoaderCode
  /\ InPages /\ ~damaged => \A p \in Pages : mem[p] = Content(p)
MemoryOfSnapshot ==
  ForSnapshot \/ Awaiting => damaged \/ (ports = "snapshot" /\ InPlace)

Running == ControlHeld /\ StandsStill /\ WhereItExecutes
Reading == PagesInOrder /\ BanksInStep
Contents == MemoryBefore /\ MemoryOfLoader /\ MemoryInPages /\ MemoryOfSnapshot
LoadInv == Running /\ Reading /\ Contents

(* What a write of the loader's copy does to the Z80, by the cases of the  *)
(* control logic, and what the functions of the loader write.              *)
CpuAfter ==
  /\ control' = shadow'
  /\ shadow'.reset => cpu' = [place |-> "reset", pc |-> Zero]
  /\ ~shadow'.reset /\ shadow'.restore_n => cpu' = cpu /\ halt_ack' = (halt_ack /\ shadow'.halt)
  /\ ~shadow'.reset /\ ~shadow'.restore_n =>
       cpu' = [place |-> "start", pc |-> shadow'.pc] /\ (halt_ack /\ shadow'.halt => halt_ack')

ShadowIs(halt, restore_n, reset, pc) ==
  shadow'.halt = halt /\ shadow'.restore_n = restore_n /\ shadow'.reset = reset /\ shadow'.pc = pc

LEMMA EffectsOfWrite ==
  ASSUME NEW c, WriteShadow(c)
  PROVE  shadow' = c /\ CpuAfter
  BY DEF WriteShadow, Write, CpuAfter

LEMMA EffectsOfStart ==
  ASSUME shadow \in Control, zx_cpu_start
  PROVE  CpuAfter /\ ShadowIs(FALSE, shadow.restore_n, shadow.reset, shadow.pc)
  BY EffectsOfWrite DEF zx_cpu_start, ShadowIs, Control

LEMMA EffectsOfStop ==
  ASSUME shadow \in Control, zx_cpu_stop
  PROVE  CpuAfter /\ ShadowIs(TRUE, shadow.restore_n, shadow.reset, shadow.pc)
  BY EffectsOfWrite DEF zx_cpu_stop, ShadowIs, Control

LEMMA EffectsOfReset ==
  ASSUME shadow \in Control, NEW reset \in BOOLEAN, zx_cpu_reset(reset), ~shadow.halt
  PROVE  CpuAfter /\ ShadowIs(FALSE, TRUE, reset, shadow.pc)
<1> DEFINE c == [shadow EXCEPT !.reset = reset, !.restore_n = TRUE]
<1>1. c.halt = FALSE /\ c.restore_n = TRUE /\ c.reset = reset /\ c.pc = shadow.pc
  BY DEF Control
<1>2. WriteShadow(c)
  BY DEF zx_cpu_reset, Control
<1> HIDE DEF c
<1> QED
  BY <1>1, <1>2, EffectsOfWrite DEF ShadowIs

LEMMA EightPages == Cardinality(Pages) = 8
<1>1. 0 \in Int /\ 7 \in Int
  OBVIOUS
<1>2. Cardinality(0 .. 7) = IF 0 > 7 THEN 0 ELSE 7 - 0 + 1
  BY <1>1, FS_Interval, Zenon
<1> QED
  BY <1>2, SMT DEF Pages

LEMMA Joined ==
  ASSUME NEW S, NEW a \in Seq(S), NEW b \in Seq(S)
  PROVE  /\ Len(a \o b) = Len(a) + Len(b)
         /\ \A i \in 1 .. Len(a) : (a \o b)[i] = a[i]
         /\ \A i \in 1 .. Len(b) : (a \o b)[Len(a) + i] = b[i]
  BY ConcatProperties

(* The order as its length and its entries. *)
LEMMA EntriesOfOrder ==
  ASSUME NEW f, f.page \in Pages
  PROVE  /\ Len(LoadOrder(f)) = 11
         /\ \A i \in 1 .. 11 :
              LoadOrder(f)[i] = IF i = 1 THEN 5 ELSE IF i = 2 THEN 2
                                ELSE IF i = 3 THEN f.page ELSE i - 4
<1> DEFINE first == <<5, 2, f.page>>
           others == [i \in 1 .. 8 |-> i - 1]
<1>1. first \in Seq(Int) /\ Len(first) = 3 /\ first[1] = 5 /\ first[2] = 2 /\ first[3] = f.page
  BY DEF Pages
<1>2. others \in Seq(Int) /\ Len(others) = 8 /\ \A i \in 1 .. 8 : others[i] = i - 1
  OBVIOUS
<1>3. LoadOrder(f) = first \o others
  BY EightPages DEF LoadOrder
<1> HIDE DEF first, others
<1>4. /\ Len(first \o others) = 11
      /\ \A i \in 1 .. 3 : (first \o others)[i] = first[i]
      /\ \A i \in 1 .. 8 : (first \o others)[3 + i] = others[i]
  <2>1. /\ Len(first \o others) = Len(first) + Len(others)
        /\ \A i \in 1 .. Len(first) : (first \o others)[i] = first[i]
        /\ \A i \in 1 .. Len(others) : (first \o others)[Len(first) + i] = others[i]
    <3>1. first \in Seq(Int) /\ others \in Seq(Int)
      BY <1>1, <1>2
    <3> QED
      BY <3>1, Joined
  <2>2. Len(first) = 3 /\ Len(others) = 8
    BY <1>1, <1>2
  <2> QED
    BY <2>1, <2>2
<1>5. ASSUME NEW i \in 1 .. 11
      PROVE  LoadOrder(f)[i] = IF i = 1 THEN 5 ELSE IF i = 2 THEN 2
                               ELSE IF i = 3 THEN f.page ELSE i - 4
  <2>1. CASE i \in 1 .. 3
    <3>1. LoadOrder(f)[i] = first[i]
      BY <1>3, <1>4, <2>1
    <3>2. i = 1 \/ i = 2 \/ i = 3
      BY <2>1
    <3> QED
      BY <1>1, <3>1, <3>2
  <2>2. CASE i \in 4 .. 11
    <3>1. i - 3 \in 1 .. 8 /\ 3 + (i - 3) = i
      BY <2>2
    <3>2. LoadOrder(f)[i] = others[i - 3]
      BY <1>3, <1>4, <3>1
    <3>3. others[i - 3] = (i - 3) - 1
      BY <1>2, <3>1
    <3> QED
      BY <2>2, <3>2, <3>3
  <2> QED
    BY <2>1, <2>2
<1> QED
  BY <1>3, <1>4, <1>5

LEMMA RunningInitially == Init => Running
  BY DEF Init, Running, ControlHeld, StandsStill, WhereItExecutes, InPages, Forcing, ForLoader,
     ForSnapshot, LeavingSpin, Awaiting, Zero, Loader, Spin, Snapshot

LEMMA Z80KeepsRunning == ASSUME Inv, Running, PagesInOrder, Z80 PROVE Running'
<1> USE DEF Running, ControlHeld, StandsStill, WhereItExecutes, InPages, Forcing, ForLoader,
            ForSnapshot, LeavingSpin, Awaiting, Clocked, fileVars
<1> USE DEF Inv, TypeOK, CopyIsRegister, Control, HaltGenerator, ForcingPrepared
<1>1. CASE Execute
  <2>1. cpu.place = "start" /\ cpu'.place = "inside" /\ cpu'.pc = cpu.pc /\ Clocked
    BY <1>1 DEF Execute
  <2>2. UNCHANGED <<step, shadow, control, halt_ack, todo, target>>
    BY <1>1 DEF Execute
  <2> QED
    BY <2>1, <2>2
<1>2. CASE Finish
  BY <1>2 DEF Finish, Arrive, Machine, Loader, Spin, Snapshot, Zero
<1>3. CASE LeaveReset
  BY <1>3 DEF LeaveReset, Arrive, Machine, Loader, Spin, Snapshot, Zero
<1> QED
  BY <1>1, <1>2, <1>3 DEF Z80

LEMMA BootKeepsRunning == ASSUME Inv, Running, Boot PROVE Running'
<1>1. PICK reset \in BOOLEAN, pc \in {Zero, Loader, Snapshot} :
        Write([halt |-> FALSE, restore_n |-> TRUE, reset |-> reset, pc |-> pc])
  BY DEF Boot
<1>2. cpu' \in {cpu, [place |-> "reset", pc |-> Zero]} /\ cpu.pc = cpu.pc
  BY <1>1 DEF Write
<1>3. cpu.pc \notin {Loader, Spin} /\ ~Awaiting
  BY DEF Boot, Running, WhereItExecutes, InPages, Forcing, ForLoader, ForSnapshot, Loader, Spin, Snapshot
<1> QED
  BY <1>2, <1>3 DEF Boot, Running, ControlHeld, StandsStill, WhereItExecutes, InPages, Forcing,
     ForLoader, ForSnapshot, LeavingSpin, Awaiting, Zero, Loader, Spin, Snapshot, fileVars

(* Opening the file and resetting the machine. *)
LEMMA OpeningKeepsRunning ==
  ASSUME Inv, Running,
         \/ \E f \in FileChoices : zx_snapshot_load(f)
         \/ OpenFails \/ OpenFile \/ ResetPorts \/ ResetZ80 \/ RequestHalt \/ LoadReturns
  PROVE  Running'
<1> USE DEF Running, ControlHeld, StandsStill, WhereItExecutes, InPages, Forcing, ForLoader,
            ForSnapshot, LeavingSpin, Awaiting, Clocked, fileVars, logicVars
<1> USE DEF Inv, TypeOK, CopyIsRegister, Control, ForcingPrepared, Zero, Loader, Spin, Snapshot
<1>1. ASSUME NEW f \in FileChoices, zx_snapshot_load(f)
      PROVE  Running'
  <2>1. CASE shadow.halt
    BY <1>1, <2>1 DEF zx_snapshot_load
  <2>2. CASE ~shadow.halt
    <3>1. zx_cpu_stop
      BY <1>1, <2>2 DEF zx_snapshot_load
    <3>2. CpuAfter /\ ShadowIs(TRUE, shadow.restore_n, shadow.reset, shadow.pc)
      BY <3>1, EffectsOfStop
    <3> QED
      BY <1>1, <2>2, <3>2 DEF zx_snapshot_load, CpuAfter, ShadowIs
  <2> QED
    BY <2>1, <2>2
<1>2. CASE OpenFails
  BY <1>2 DEF OpenFails
<1>3. CASE OpenFile
  <2>1. CpuAfter /\ ShadowIs(FALSE, shadow.restore_n, shadow.reset, shadow.pc)
    BY <1>3, EffectsOfStart DEF OpenFile
  <2> QED
    BY <1>3, <2>1 DEF OpenFile, CpuAfter, ShadowIs
<1>4. CASE ResetPorts
  <2>1. CpuAfter /\ ShadowIs(FALSE, TRUE, FALSE, shadow.pc)
    BY <1>4, EffectsOfReset DEF ResetPorts
  <2> QED
    BY <1>4, <2>1 DEF ResetPorts, CpuAfter, ShadowIs
<1>5. CASE ResetZ80
  <2>1. CpuAfter /\ ShadowIs(FALSE, TRUE, TRUE, shadow.pc)
    BY <1>5, EffectsOfReset DEF ResetZ80
  <2> QED
    BY <1>5, <2>1 DEF ResetZ80, CpuAfter, ShadowIs
<1>6. CASE RequestHalt
  <2>1. CpuAfter /\ ShadowIs(TRUE, shadow.restore_n, shadow.reset, shadow.pc)
    BY <1>6, EffectsOfStop DEF RequestHalt
  <2> QED
    BY <1>6, <2>1 DEF RequestHalt, CpuAfter, ShadowIs
<1>7. CASE LoadReturns
  <2>1. CASE shadow.halt
    BY <1>7, <2>1 DEF LoadReturns
  <2>2. CASE ~shadow.halt
    <3>1. CpuAfter /\ ShadowIs(FALSE, shadow.restore_n, shadow.reset, shadow.pc)
      BY <1>7, <2>2, EffectsOfStart DEF LoadReturns
    <3> QED
      BY <1>7, <2>2, <3>1 DEF LoadReturns, CpuAfter, ShadowIs
  <2> QED
    BY <2>1, <2>2
<1> QED
  BY <1>1, <1>2, <1>3, <1>4, <1>5, <1>6, <1>7

(* The loader program, and the program counter. *)
LEMMA ModifyKeepsRunning ==
  ASSUME Inv, Running, PagesInOrder, MemoryOfLoader, Prepare \/ Modify \/ StopLoader
  PROVE  Running'
<1> USE DEF Running, ControlHeld, StandsStill, WhereItExecutes, InPages, Forcing, ForLoader,
            ForSnapshot, LeavingSpin, Awaiting, Clocked, fileVars, logicVars
<1> USE DEF Inv, TypeOK, CopyIsRegister, Control, ForcingPrepared, Zero, Loader, Spin, Snapshot
<1>1. CASE Prepare
  <2>1. CpuAfter /\ shadow' = shadow
    BY <1>1, EffectsOfWrite DEF Prepare
  <2> QED
    BY <1>1, <2>1 DEF Prepare, CpuAfter
<1>2. CASE ModifyStops
  <2>1. CpuAfter /\ ShadowIs(TRUE, shadow.restore_n, shadow.reset, shadow.pc)
    BY <1>2, EffectsOfStop DEF ModifyStops
  <2> QED
    BY <1>2, <2>1 DEF ModifyStops, CpuAfter, ShadowIs
<1>3. CASE ModifyReleases
  <2> DEFINE c == [shadow EXCEPT !.pc = target, !.reset = FALSE, !.restore_n = TRUE]
  <2>2. c.halt = shadow.halt /\ c.restore_n = TRUE /\ c.reset = FALSE /\ c.pc = target
    OBVIOUS
  <2>3. shadow' = c /\ CpuAfter
    BY <1>3, EffectsOfWrite DEF ModifyReleases
  <2> HIDE DEF c
  <2>1. CpuAfter /\ ShadowIs(shadow.halt, TRUE, FALSE, target)
    BY <2>2, <2>3 DEF ShadowIs
  <2> QED
    BY <1>3, <2>1 DEF ModifyReleases, CpuAfter, ShadowIs
<1>4. CASE ModifyForces
  <2>1. CpuAfter /\ ShadowIs(shadow.halt, FALSE, shadow.reset, shadow.pc)
    BY <1>4, EffectsOfWrite DEF ModifyForces, ShadowIs
  <2> QED
    BY <1>4, <2>1, AfterDelay DEF ModifyForces, CpuAfter, ShadowIs
<1>5. CASE ModifyResumes
  <2>1. CpuAfter /\ ShadowIs(shadow.halt, TRUE, shadow.reset, shadow.pc)
    BY <1>5, EffectsOfWrite DEF ModifyResumes, ShadowIs
  <2> QED
    BY <1>5, <2>1 DEF ModifyResumes, CpuAfter, ShadowIs
<1>6. CASE ModifyStarts
  <2>1. CpuAfter /\ ShadowIs(FALSE, shadow.restore_n, shadow.reset, shadow.pc)
    BY <1>6, EffectsOfStart DEF ModifyStarts
  <2> QED
    BY <1>6, <2>1 DEF ModifyStarts, CpuAfter, ShadowIs
<1>7. CASE StopLoader
  <2>1. CpuAfter /\ ShadowIs(TRUE, shadow.restore_n, shadow.reset, shadow.pc)
    BY <1>7, EffectsOfStop DEF StopLoader
  <2> QED
    BY <1>7, <2>1, EntriesOfOrder, AfterDelay DEF StopLoader, CpuAfter, ShadowIs, MemoryOfLoader
<1> QED
  BY <1>1, <1>2, <1>3, <1>4, <1>5, <1>6, <1>7 DEF Modify

LEMMA LoadPagesKeepsRunning ==
  ASSUME Inv, Running, PagesInOrder, LoadPages
  PROVE  Running'
<1> USE DEF Running, ControlHeld, StandsStill, WhereItExecutes, InPages, Forcing, ForLoader,
            ForSnapshot, LeavingSpin, Awaiting, Clocked, fileVars, logicVars
<1> USE DEF Inv, TypeOK, CopyIsRegister, Control, ForcingPrepared, Zero, Loader, Spin, Snapshot
<1>1. CASE PassOver
  <2>1. Len(todo) <= Cardinality(Pages)
    BY <1>1 DEF PassOver, PassedOver
  <2>2. Len(todo) \in Nat
    BY LenProperties
  <2> DEFINE n == Len(todo)
  <2>3. n \in Nat /\ n <= 8
    BY <2>1, <2>2, EightPages
  <2> HIDE DEF n
  <2>4. n # 11
    BY <2>3
  <2> QED
    BY <1>1, <2>4 DEF PassOver, n
<1>2. CASE PageBegins
  BY <1>2 DEF PageBegins
<1>3. CASE PageEnds
  BY <1>3, AfterDelay DEF PageEnds
<1>4. CASE PagesLoaded
  BY <1>4 DEF PagesLoaded
<1> QED
  BY <1>1, <1>2, <1>3, <1>4 DEF LoadPages

(* The banks of a file: how many there are, and which is where. *)
LEMMA EntriesOfOthers ==
  /\ Others \in Seq(Int) /\ Len(Others) = 6
  /\ \A j \in 1 .. 6 : Others[j] = IF j <= 2 THEN j - 1 ELSE IF j <= 4 THEN j ELSE j + 1
<1>1. Others \in Seq(Int) /\ Len(Others) = 6
  BY DEF Others
<1>2. /\ Others[1] = 0 /\ Others[2] = 1 /\ Others[3] = 3
      /\ Others[4] = 4 /\ Others[5] = 6 /\ Others[6] = 7
  BY DEF Others
<1> QED
  BY <1>1, <1>2

LEMMA EntriesOfBanks ==
  ASSUME NEW f, f.page \in Pages
  PROVE  /\ FileBanks(f) \in Seq(Int)
         /\ Len(FileBanks(f)) = IF f.kind = "48K" THEN 3
                                ELSE IF f.page \in {5, 2} THEN 9 ELSE 8
         /\ FileBanks(f)[1] = 5 /\ FileBanks(f)[2] = 2 /\ FileBanks(f)[3] = f.page
         /\ f.kind # "48K" =>
              \A p \in Pages \ {5, 2, f.page} : FileBanks(f)[4 + BanksBefore(f.page, p)] = p
         /\ f.kind # "48K" =>
              \A i \in 4 .. Len(FileBanks(f)) : FileBanks(f)[i] \in Pages
<1> DEFINE first == <<5, 2, f.page>>
           rest == IF f.kind = "48K" THEN << >> ELSE OthersBut(f.page)
           n == IF f.kind = "48K" THEN 0 ELSE IF f.page \in {5, 2} THEN 6 ELSE 5
           entry(j) == IF j <= 2 THEN j - 1 ELSE IF j <= 4 THEN j ELSE j + 1
<1>1. first \in Seq(Int) /\ Len(first) = 3 /\ first[1] = 5 /\ first[2] = 2 /\ first[3] = f.page
  BY DEF Pages
<1>2. rest \in Seq(Int) /\ Len(rest) = n
  <2>1. CASE f.kind = "48K"
    BY <2>1
  <2>2. CASE f.kind # "48K" /\ f.page \in {5, 2}
    BY <2>2, EntriesOfOthers DEF OthersBut
  <2>3. CASE f.kind # "48K" /\ f.page \notin {5, 2}
    <3> DEFINE q == [i \in 1 .. 5 |-> IF Others[i] < f.page THEN Others[i] ELSE Others[i + 1]]
    <3>1. rest = q
      BY <2>3 DEF OthersBut
    <3>2. \A i \in 1 .. 6 : Others[i] \in Int
      BY EntriesOfOthers
    <3>3. q \in [1 .. 5 -> Int]
      BY <3>2
    <3>4. q \in Seq(Int) /\ Len(q) = 5
      BY <3>3
    <3> QED
      BY <2>3, <3>1, <3>4
  <2> QED
    BY <2>1, <2>2, <2>3
<1>3. ASSUME f.kind # "48K", NEW j \in 1 .. n
      PROVE  rest[j] = IF f.page \in {5, 2} \/ entry(j) < f.page THEN entry(j) ELSE entry(j + 1)
  <2>1. CASE f.page \in {5, 2}
    <3>1. rest = Others /\ j \in 1 .. 6
      BY <1>3, <2>1 DEF OthersBut
    <3> QED
      BY <2>1, <3>1, EntriesOfOthers
  <2>2. CASE f.page \notin {5, 2}
    <3> DEFINE q == [i \in 1 .. 5 |-> IF Others[i] < f.page THEN Others[i] ELSE Others[i + 1]]
    <3>1. rest = q /\ j \in 1 .. 5
      BY <1>3, <2>2 DEF OthersBut
    <3>2. rest[j] = IF Others[j] < f.page THEN Others[j] ELSE Others[j + 1]
      BY <3>1
    <3>3. Others[j] = entry(j) /\ Others[j + 1] = entry(j + 1)
      BY <3>1, EntriesOfOthers
    <3> QED
      BY <2>2, <3>2, <3>3
  <2> QED
    BY <2>1, <2>2
<1>4. FileBanks(f) = first \o rest
  BY DEF FileBanks
<1> HIDE DEF first, rest
<1>5. /\ first \o rest \in Seq(Int)
      /\ Len(first \o rest) = Len(first) + Len(rest)
      /\ \A i \in 1 .. Len(first) : (first \o rest)[i] = first[i]
      /\ \A i \in 1 .. Len(rest) : (first \o rest)[Len(first) + i] = rest[i]
  <2>1. first \in Seq(Int) /\ rest \in Seq(Int)
    BY <1>1, <1>2
  <2> QED
    BY <2>1, Joined, ConcatProperties
<1>6. /\ FileBanks(f) \in Seq(Int)
      /\ Len(FileBanks(f)) = 3 + n
      /\ FileBanks(f)[1] = 5 /\ FileBanks(f)[2] = 2 /\ FileBanks(f)[3] = f.page
      /\ \A j \in 1 .. n : FileBanks(f)[3 + j] = rest[j]
  <2>1. n \in Nat
    OBVIOUS
  <2> HIDE DEF n
  <2>2. 1 \in 1 .. Len(first) /\ 2 \in 1 .. Len(first) /\ 3 \in 1 .. Len(first)
    BY <1>1
  <2>3. /\ (first \o rest)[1] = 5 /\ (first \o rest)[2] = 2 /\ (first \o rest)[3] = f.page
        /\ Len(first \o rest) = 3 + n
    BY <1>1, <1>2, <1>5, <2>2
  <2>4. \A j \in 1 .. n : (first \o rest)[3 + j] = rest[j]
    BY <1>1, <1>2, <1>5
  <2> QED
    BY <1>4, <1>5, <2>3, <2>4
<1>7. ASSUME f.kind # "48K", NEW p \in Pages \ {5, 2, f.page}
      PROVE  FileBanks(f)[4 + BanksBefore(f.page, p)] = p
  <2> DEFINE j == 1 + BanksBefore(f.page, p)
  <2>1. j \in 1 .. n
    BY <1>7 DEF Pages, BanksBefore
  <2>2. (IF f.page \in {5, 2} \/ entry(j) < f.page THEN entry(j) ELSE entry(j + 1)) = p
    BY <1>7 DEF Pages, BanksBefore
  <2>3. 4 + BanksBefore(f.page, p) = 3 + j
    BY <1>7 DEF Pages, BanksBefore
  <2> HIDE DEF j
  <2>4. FileBanks(f)[3 + j] = p
    BY <1>3, <1>6, <1>7, <2>1, <2>2
  <2> QED
    BY <2>3, <2>4
<1>8. ASSUME f.kind # "48K", NEW i \in 4 .. 3 + n
      PROVE  FileBanks(f)[i] \in Pages
  <2>1. i - 3 \in 1 .. n /\ 3 + (i - 3) = i
    BY <1>8
  <2>2. FileBanks(f)[i] = rest[i - 3]
    BY <1>6, <2>1
  <2> HIDE DEF n
  <2>3. rest[i - 3] = IF f.page \in {5, 2} \/ entry(i - 3) < f.page THEN entry(i - 3)
                      ELSE entry((i - 3) + 1)
    BY <1>3, <1>8, <2>1
  <2>4. i \in 4 .. 9 /\ (f.page \notin {5, 2} => i \in 4 .. 8)
    BY <1>8 DEF n
  <2> QED
    BY <2>2, <2>3, <2>4 DEF Pages
<1> QED
  BY <1>6, <1>7, <1>8

(* The entry that comes next, and how much is behind when it is taken. *)
LEMMA NextEntry ==
  ASSUME Inv, PagesInOrder, InPages, todo # << >>
  PROVE  /\ Taken \in 0 .. 10
         /\ Head(todo) = Ordered(file.page, Taken + 1) /\ Head(todo) \in Pages
         /\ Len(Tail(todo)) = Len(todo) - 1 /\ Len(todo) \in 1 .. 11
         /\ \A i \in 1 .. Len(todo) - 1 : Tail(todo)[i] = todo[i + 1]
         /\ PassedOver(Head(todo)) <=> Taken >= 3 /\ Head(todo) \in {5, 2, file.page}
<1>1. todo \in Seq(Pages)
  BY DEF Inv, TypeOK
<1>2. /\ Head(todo) = todo[1] /\ Head(todo) \in Pages
      /\ Len(Tail(todo)) = Len(todo) - 1
      /\ \A i \in 1 .. Len(todo) - 1 : Tail(todo)[i] = todo[i + 1]
  BY <1>1, HeadTailProperties
<1>3. Len(todo) <= 11 /\ \A i \in 1 .. Len(todo) : todo[i] = Ordered(file.page, Taken + i)
  BY DEF PagesInOrder
<1> DEFINE n == Len(todo)
<1>7. n \in 1 .. 11
  <2>1. n \in Nat /\ n # 0
    BY <1>1, EmptySeq, LenProperties
  <2>2. n <= 11
    BY <1>3
  <2> HIDE DEF n
  <2> QED
    BY <2>1, <2>2
<1>4. Taken \in 0 .. 10 /\ todo[1] = Ordered(file.page, Taken + 1)
  <2>1. Taken = 11 - n
    BY DEF Taken
  <2>2. \A i \in 1 .. n : todo[i] = Ordered(file.page, Taken + i)
    BY <1>3
  <2> HIDE DEF n
  <2> QED
    BY <1>7, <2>1, <2>2
<1>5. PassedOver(Head(todo)) <=> Len(todo) <= 8 /\ Head(todo) \in {5, 2, file.page}
  BY EightPages DEF PassedOver
<1>6. Len(todo) <= 8 <=> Taken >= 3
  <2>1. Taken = 11 - n
    BY DEF Taken
  <2>2. Len(todo) = n
    OBVIOUS
  <2> HIDE DEF n
  <2> QED
    BY <1>7, <2>1, <2>2
<1>8. PassedOver(Head(todo)) <=> Taken >= 3 /\ Head(todo) \in {5, 2, file.page}
  BY <1>5, <1>6
<1> QED
  BY <1>2, <1>4, <1>7, <1>8

LEMMA TailKeepsOrder ==
  ASSUME Inv, PagesInOrder, InPages, todo # << >>, todo' = Tail(todo), step' = "pages", file' = file
  PROVE  PagesInOrder' /\ Taken' = Taken + 1
<1>1. /\ Len(todo) \in 1 .. 11 /\ Len(todo') = Len(todo) - 1
      /\ \A i \in 1 .. Len(todo) - 1 : todo'[i] = todo[i + 1]
      /\ \A i \in 1 .. Len(todo) : todo[i] = Ordered(file.page, Taken + i)
  BY NextEntry DEF PagesInOrder
<1>2. Taken \in Int /\ Taken' = Taken + 1
  BY <1>1 DEF Taken
<1>3. ASSUME NEW i \in 1 .. Len(todo')
      PROVE  todo'[i] = Ordered(file'.page, Taken' + i)
  <2>1. i + 1 \in 1 .. Len(todo) /\ i \in 1 .. Len(todo) - 1
    BY <1>1
  <2>2. todo'[i] = Ordered(file.page, Taken + (i + 1))
    BY <1>1, <2>1
  <2>3. Taken + (i + 1) = Taken' + i
    BY <1>2
  <2> QED
    BY <2>2, <2>3 DEF Ordered
<1> QED
  BY <1>1, <1>2, <1>3 DEF PagesInOrder

(* The bank that is read next belongs into the page that is loaded next. *)
LEMMA NextBank ==
  ASSUME Inv, Reading, InPages, ~damaged, todo # << >>, ~PassedOver(Head(todo))
  PROVE  /\ NoData <=> file.kind = "48K" /\ Taken >= 3
         /\ ~NoData => /\ FileBanks(file)[bank + 1] = Head(todo)
                       /\ bank + 1 = BanksTaken(file, Taken + 1)
         /\ NoData => bank = BanksTaken(file, Taken + 1)
<1> DEFINE h == Head(todo)
           page == file.page
           n == Len(FileBanks(file))
<1>1. /\ Taken \in 0 .. 10 /\ h = Ordered(page, Taken + 1) /\ h \in Pages
      /\ ~(Taken >= 3 /\ h \in {5, 2, page})
  BY NextEntry DEF Reading
<1>2. page \in Pages
  BY DEF Inv, TypeOK
<1>3. bank = BanksTaken(file, Taken)
  BY DEF Reading, BanksInStep
<1>4. /\ n = IF file.kind = "48K" THEN 3 ELSE IF page \in {5, 2} THEN 9 ELSE 8
      /\ FileBanks(file)[1] = 5 /\ FileBanks(file)[2] = 2 /\ FileBanks(file)[3] = page
      /\ file.kind # "48K" =>
           \A p \in Pages \ {5, 2, page} : FileBanks(file)[4 + BanksBefore(page, p)] = p
  BY <1>2, EntriesOfBanks
<1>5. NoData <=> bank >= n
  BY DEF NoData
<1> HIDE DEF h, page, n
<1>6. CASE Taken \in 0 .. 2
  BY <1>1, <1>3, <1>4, <1>5, <1>6 DEF BanksTaken, Ordered, h, page
<1>7. CASE Taken \in 3 .. 10 /\ file.kind = "48K"
  BY <1>3, <1>4, <1>5, <1>7 DEF BanksTaken
<1>8. CASE Taken \in 3 .. 10 /\ file.kind # "48K"
  <2>1. h = Taken - 3 /\ h \in Pages \ {5, 2, page} /\ h \in 0 .. 7
    <3>1. Taken + 1 \notin {1, 2, 3} /\ Taken >= 3 /\ (Taken + 1) - 4 = Taken - 3
      BY <1>8
    <3>2. h = Taken - 3
      BY <1>1, <3>1 DEF Ordered
    <3>3. h \in 0 .. 7
      BY <1>8, <3>2
    <3> QED
      BY <1>1, <3>1, <3>2, <3>3
  <2>2. bank = 3 + BanksBefore(page, h)
    <3>1. CASE Taken = 3
      BY <1>2, <1>3, <2>1, <3>1 DEF BanksTaken, BanksBefore, Pages
    <3>2. CASE Taken # 3
      BY <1>3, <1>8, <2>1, <3>2 DEF BanksTaken, page
    <3> QED
      BY <3>1, <3>2
  <2>3. BanksBefore(page, h + 1) = BanksBefore(page, h) + 1 /\ 3 + BanksBefore(page, h) < n
        /\ BanksBefore(page, h) \in 0 .. 7
    BY <1>2, <1>4, <1>8, <2>1 DEF BanksBefore, Pages
  <2>4. BanksTaken(file, Taken + 1) = 3 + BanksBefore(page, h + 1)
    BY <1>8, <2>1 DEF BanksTaken, page
  <2>5. n \in {8, 9}
    BY <1>4, <1>8
  <2>6. ~NoData /\ bank + 1 = 4 + BanksBefore(page, h)
    BY <1>5, <2>2, <2>3, <2>5
  <2>7. FileBanks(file)[4 + BanksBefore(page, h)] = h
    BY <1>4, <1>8, <2>1
  <2> QED
    BY <1>8, <2>2, <2>3, <2>4, <2>6, <2>7 DEF h
<1> QED
  BY <1>1, <1>6, <1>7, <1>8

(* Passing over a page does not change what comes next in the file. *)
LEMMA NoBankPassedOver ==
  ASSUME Inv, Reading, InPages, todo # << >>, PassedOver(Head(todo))
  PROVE  Taken >= 3 /\ BanksTaken(file, Taken + 1) = BanksTaken(file, Taken)
<1>1. /\ Taken \in 0 .. 10 /\ Head(todo) = Ordered(file.page, Taken + 1)
      /\ Taken >= 3 /\ Head(todo) \in {5, 2, file.page}
  BY NextEntry DEF Reading
<1>2. file.page \in Pages
  BY DEF Inv, TypeOK
<1>3. Taken - 3 \in {5, 2, file.page} /\ Taken \in 3 .. 10
  BY <1>1 DEF Ordered
<1> QED
  BY <1>2, <1>3 DEF BanksTaken, BanksBefore, Pages

(* Only the loading of the pages touches what is still to be loaded. *)
LEMMA LoadPagesKeepsReading ==
  ASSUME Inv, Reading, LoadPages
  PROVE  Reading'
<1>1. CASE PassOver
  <2>1. /\ InPages /\ todo # << >> /\ PassedOver(Head(todo)) /\ todo' = Tail(todo)
        /\ step' = "pages" /\ UNCHANGED <<file, bank, damaged>>
    BY <1>1 DEF PassOver, InPages
  <2>2. PagesInOrder' /\ Taken' = Taken + 1
    BY <2>1, TailKeepsOrder DEF Reading
  <2>3. BanksTaken(file, Taken + 1) = BanksTaken(file, Taken)
    BY <2>1, NoBankPassedOver
  <2> QED
    BY <2>1, <2>2, <2>3 DEF Reading, BanksInStep, InPages
<1>2. CASE PageBegins
  <2>1. /\ step = "pages" /\ step' = "page" /\ ~PassedOver(Head(todo))
        /\ UNCHANGED <<file, todo, bank, damaged>>
    BY <1>2 DEF PageBegins, fileVars
  <2>2. Taken' = Taken /\ (PassedOver(Head(todo)))' = PassedOver(Head(todo))
    BY <2>1 DEF Taken, PassedOver
  <2> QED
    BY <2>1, <2>2 DEF Reading, PagesInOrder, BanksInStep, InPages
<1>3. CASE PageEnds
  <2>1. /\ InPages /\ todo # << >> /\ ~PassedOver(Head(todo)) /\ todo' = Tail(todo)
        /\ step' = "pages" /\ UNCHANGED file
    BY <1>3 DEF PageEnds, InPages, Inv, PageChosen, Reading, PagesInOrder
  <2>2. PagesInOrder' /\ Taken' = Taken + 1
    BY <2>1, TailKeepsOrder DEF Reading
  <2>3. ASSUME ~damaged'
        PROVE  bank' = BanksTaken(file, Taken + 1)
    <3>1. ~damaged
      BY <1>3, <2>3 DEF PageEnds, Inv, TypeOK
    <3>2. CASE NoData
      <4>1. bank' = bank
        BY <1>3, <2>3, <3>2 DEF PageEnds
      <4> QED
        BY <2>1, <3>1, <3>2, <4>1, NextBank
    <3>3. CASE ~NoData
      <4>1. bank' = bank + 1
        BY <1>3, <2>3, <3>3 DEF PageEnds
      <4> QED
        BY <2>1, <3>1, <3>3, <4>1, NextBank
    <3> QED
      BY <3>2, <3>3
  <2> QED
    BY <2>1, <2>2, <2>3 DEF Reading, BanksInStep, InPages
<1>4. CASE PagesLoaded
  BY <1>4 DEF PagesLoaded, Reading, PagesInOrder, BanksInStep, InPages
<1> QED
  BY <1>1, <1>2, <1>3, <1>4 DEF LoadPages

LEMMA OthersKeepReading ==
  ASSUME Inv, Running, Reading, MemoryOfLoader, [Next]_vars, ~LoadPages
  PROVE  Reading'
<1>1. CASE StopLoader
  <2>1. ForLoader
    BY <1>1 DEF StopLoader, Running, WhereItExecutes, ForLoader, ForSnapshot, InPages, Forcing
  <2>2. todo = LoadOrder(file) /\ bank = 0 /\ file.page \in Pages
    BY <2>1 DEF MemoryOfLoader, Inv, TypeOK
  <2>3. Len(todo) = 11 /\ \A i \in 1 .. 11 : todo[i] = Ordered(file.page, i)
    BY <2>2, EntriesOfOrder DEF Ordered
  <2>4. Taken = 0 /\ \A i \in 1 .. Len(todo) : todo[i] = Ordered(file.page, Taken + i)
    BY <2>3 DEF Taken
  <2>5. UNCHANGED <<file, todo, bank, damaged>> /\ step' = "pages"
    BY <1>1 DEF StopLoader, fileVars
  <2>6. Taken' = Taken
    BY <2>5 DEF Taken
  <2>7. PagesInOrder'
    <3>1. \A i \in 1 .. Len(todo') : todo'[i] = Ordered(file'.page, Taken' + i)
      BY <2>4, <2>5, <2>6
    <3>2. Len(todo') = 11
      BY <2>3, <2>5, Zenon
    <3> QED
      BY <2>5, <3>1, <3>2 DEF PagesInOrder
  <2>8. bank' = BanksTaken(file', Taken')
    BY <2>2, <2>4, <2>5, <2>6 DEF BanksTaken
  <2> QED
    BY <2>7, <2>8 DEF Reading, BanksInStep
<1>2. CASE Z80 \/ UNCHANGED vars
  <2>1. UNCHANGED <<step, file, todo, bank, damaged>>
    BY <1>2 DEF Z80, Execute, Finish, LeaveReset, vars, fileVars
  <2>2. Taken' = Taken /\ (PassedOver(Head(todo)))' = PassedOver(Head(todo))
    BY <2>1 DEF Taken, PassedOver
  <2> QED
    BY <2>1, <2>2 DEF Reading, PagesInOrder, BanksInStep, InPages
<1>3. CASE step' \notin {"pages", "page"}
  BY <1>3 DEF Reading, PagesInOrder, BanksInStep, InPages
<1>4. step' \notin {"pages", "page"} \/ StopLoader \/ Z80 \/ UNCHANGED vars
  BY DEF Next, Task, Modify, zx_snapshot_load, Boot, OpenFails, OpenFile, ResetPorts,
     ResetZ80, RequestHalt, Prepare, ModifyStops, ModifyReleases, ModifyForces, ModifyResumes,
     ModifyStarts, LoadReturns
<1> QED
  BY <1>1, <1>2, <1>3, <1>4

(* The memory. *)
LEMMA ContentsInitially == Init => Contents
  BY DEF Init, Contents, MemoryBefore, MemoryOfLoader, MemoryInPages, MemoryOfSnapshot,
     InPages, Forcing, ForLoader, ForSnapshot, Awaiting, Loader, Snapshot, Zero

LEMMA Z80KeepsContents ==
  ASSUME Inv, Running, Reading, Contents, Z80
  PROVE  Contents'
<1>1. UNCHANGED <<step, file, target, todo, bank, damaged>>
  BY DEF Z80, Execute, Finish, LeaveReset, fileVars
<1>2. /\ UNCHANGED <<InPages, Forcing, ForLoader, ForSnapshot, Taken, NoData>>
      /\ \A p \in Pages : (Content(p))' = Content(p)
  BY <1>1 DEF InPages, Forcing, ForLoader, ForSnapshot, Taken, NoData, Content, Loaded, FileBanks,
     OthersBut
<1>3. CASE Finish \/ LeaveReset
  <2>1. UNCHANGED <<mem, ports>> /\ ~Awaiting'
    BY <1>3 DEF Finish, LeaveReset, Arrive, Awaiting, Loader, Spin, Machine, Zero, Snapshot
  <2>2. ~Awaiting
    BY <1>3 DEF Finish, LeaveReset, Awaiting
  <2>3. InPlace' = InPlace
    BY <1>1, <2>1 DEF InPlace, FileBanks, OthersBut
  <2> QED
    BY <1>1, <1>2, <2>1, <2>2, <2>3
       DEF Contents, MemoryBefore, MemoryOfLoader, MemoryInPages, MemoryOfSnapshot
<1>4. CASE Execute
  <2>1. cpu.place = "start" /\ Clocked /\ ~Awaiting'
    BY <1>4 DEF Execute, Awaiting
  <2>2. ~ForSnapshot /\ ~halt_ack /\ ~control.reset
    BY <2>1 DEF Clocked, Running, StandsStill
  <2>3. CASE cpu.pc \in {Loader, Spin}
    <3>1. ForLoader \/ InPages
      BY <2>2, <2>3 DEF Running, WhereItExecutes
    <3>2. mem' = mem
      BY <1>4, <2>3 DEF Execute, Loader, Spin, Snapshot, Zero, Machine
    <3> QED
      BY <1>1, <1>2, <2>1, <2>2, <3>1, <3>2
         DEF Contents, MemoryBefore, MemoryOfLoader, MemoryInPages, MemoryOfSnapshot,
             ForLoader, InPages, Forcing
  <2>4. CASE cpu.pc \notin {Loader, Spin}
    <3>1. ~InPages /\ ~ForLoader /\ ~Forcing /\ step # "spin"
      BY <2>1, <2>2, <2>4 DEF Running, ControlHeld, StandsStill, WhereItExecutes, LeavingSpin, InPages,
         Forcing, ForLoader, ForSnapshot, Inv, TypeOK
    <3>2. mem' = [p \in Pages |-> Old]
      <4>1. CASE Awaiting
        BY <1>4, <4>1 DEF Execute, Awaiting, Loader, Spin, Snapshot, Zero, Machine
      <4>2. CASE ~Awaiting
        <5>1. mem = [p \in Pages |-> Old]
          BY <3>1, <4>2 DEF Contents, MemoryBefore
        <5> QED
          BY <1>4, <2>4, <5>1 DEF Execute
      <4> QED
        BY <4>1, <4>2
    <3> QED
      BY <1>2, <2>1, <2>2, <3>1, <3>2
         DEF Contents, MemoryBefore, MemoryOfLoader, MemoryInPages, MemoryOfSnapshot
  <2> QED
    BY <2>3, <2>4
<1> QED
  BY <1>3, <1>4 DEF Z80

(* Outside the loading of the pages. *)
LEMMA OpeningKeepsContents ==
  ASSUME Inv, Running, Contents,
         \/ \E f \in FileChoices : zx_snapshot_load(f)
         \/ Boot \/ OpenFails \/ OpenFile \/ ResetPorts \/ ResetZ80 \/ RequestHalt \/ LoadReturns
  PROVE  Contents'
<1>1. /\ step \notin {"m_stop", "m_release", "m_force", "m_resume", "m_start", "spin", "pages", "page"}
      /\ step' \notin {"m_stop", "m_release", "m_force", "m_resume", "m_start", "spin", "pages", "page"}
      /\ mem' = mem
  BY DEF zx_snapshot_load, Boot, OpenFails, OpenFile, ResetPorts, ResetZ80, RequestHalt, LoadReturns
<1>2. ~InPages /\ ~Forcing /\ ~InPages' /\ ~Forcing' /\ ~ForLoader' /\ ~ForSnapshot'
      /\ ~ForSnapshot
  BY <1>1 DEF InPages, Forcing, ForLoader, ForSnapshot
<1>3. ASSUME ~Awaiting
      PROVE  ~Awaiting'
  <2>1. Inv'
    BY BootKeepsInvariant, OpeningKeepsInvariant
  <2>2. shadow'.restore_n \/ shadow'.pc = Zero
    BY <1>1, <2>1 DEF Inv, ForcingPrepared
  <2>3. cpu' = cpu \/ cpu'.pc = Zero
    <3>1. CASE Boot
      BY <3>1 DEF Boot, Write
    <3>2. CASE CpuAfter
      BY <2>2, <3>2 DEF CpuAfter
    <3>3. CASE cpu' = cpu
      BY <3>3
    <3>4. Boot \/ CpuAfter \/ cpu' = cpu
      BY EffectsOfWrite
         DEF zx_snapshot_load, OpenFails, OpenFile, ResetPorts, ResetZ80, RequestHalt, LoadReturns,
             zx_cpu_start, zx_cpu_stop, zx_cpu_reset, logicVars
    <3> QED
      BY <3>1, <3>2, <3>3, <3>4
  <2> QED
    BY <1>3, <2>3 DEF Awaiting, Zero, Snapshot
<1>4. ASSUME Awaiting
      PROVE  LoadReturns /\ Awaiting'
  <2>1. step \in {"idle", "end"} /\ ~shadow.halt /\ Clocked /\ cpu.pc = Snapshot /\ cpu.place = "start"
    BY <1>2, <1>4 DEF Running, WhereItExecutes, Awaiting
  <2>2. LoadReturns
    BY <2>1 DEF zx_snapshot_load, Boot, OpenFails, OpenFile, ResetPorts, ResetZ80, RequestHalt
  <2>3. shadow = control /\ shadow \in Control
    BY <2>2 DEF LoadReturns, Inv, CopyIsRegister, TypeOK
  <2>4. CpuAfter /\ ShadowIs(FALSE, shadow.restore_n, shadow.reset, shadow.pc)
    BY <2>1, <2>2, <2>3, EffectsOfStart DEF LoadReturns
  <2>5. cpu' = cpu
    BY <2>1, <2>3, <2>4 DEF CpuAfter, ShadowIs, Clocked
  <2> QED
    BY <1>4, <2>2, <2>5 DEF Awaiting
<1>5. CASE ~Awaiting
  BY <1>1, <1>2, <1>3, <1>5
     DEF Contents, MemoryBefore, MemoryOfLoader, MemoryInPages, MemoryOfSnapshot
<1>6. CASE Awaiting
  <2>1. UNCHANGED <<mem, ports, file, damaged>>
    BY <1>4, <1>6 DEF LoadReturns, fileVars
  <2>2. InPlace' = InPlace
    BY <2>1 DEF InPlace, FileBanks, OthersBut
  <2> QED
    BY <1>2, <1>4, <1>6, <2>1, <2>2
       DEF Contents, MemoryBefore, MemoryOfLoader, MemoryInPages, MemoryOfSnapshot
<1> QED
  BY <1>5, <1>6

(* Putting the loader program into page 2, and everything until it is      *)
(* started or the snapshot is.                                             *)
LEMMA ModifyKeepsContents ==
  ASSUME Inv, Running, Reading, Contents, Prepare \/ Modify \/ StopLoader
  PROVE  Contents'
<1> USE DEF InPages, Forcing, ForLoader, ForSnapshot
<1>1. CASE Prepare
  <2>1. ~Awaiting /\ ~Awaiting'
    <3>1. cpu.place = "reset" /\ shadow.reset
      BY <1>1 DEF Prepare, Running, ControlHeld, Inv, CopyIsRegister
    <3>2. cpu'.pc = Zero
      BY <1>1, <3>1, EffectsOfWrite DEF Prepare, CpuAfter
    <3> QED
      BY <3>1, <3>2 DEF Awaiting, Zero, Snapshot
  <2>2. mem = [p \in Pages |-> Old] /\ mem' = [mem EXCEPT ![2] = LoaderCode]
    BY <1>1, <2>1 DEF Prepare, Contents, MemoryBefore
  <2>3. mem' = [p \in Pages |-> IF p = 2 THEN LoaderCode ELSE Old]
    BY <2>2 DEF Pages
  <2> QED
    BY <1>1, <2>1, <2>3 DEF Prepare, Contents, MemoryBefore, MemoryOfLoader, MemoryInPages,
       MemoryOfSnapshot, Loader, Snapshot
<1>2. CASE Modify
  <2>1. UNCHANGED <<mem, ports, file, todo, bank, damaged, target>>
    BY <1>2 DEF Modify, ModifyStops, ModifyReleases, ModifyForces, ModifyResumes, ModifyStarts, fileVars
  <2>2. InPlace' = InPlace
    BY <2>1 DEF InPlace, FileBanks, OthersBut
  <2>3. (LoadOrder(file))' = LoadOrder(file)
    BY <2>1 DEF LoadOrder
  <2>4. /\ step \in {"m_stop", "m_release", "m_force", "m_resume", "m_start"}
        /\ step' \in {"m_release", "m_force", "m_resume", "m_start"}
           \/ step' = IF target = Loader THEN "spin" ELSE "end"
    BY <1>2 DEF Modify, ModifyStops, ModifyReleases, ModifyForces, ModifyResumes, ModifyStarts
  <2>5. target \in {Loader, Snapshot} /\ Loader # Snapshot
    BY DEF Inv, TypeOK, Loader, Snapshot
  <2>6. CASE target = Loader
    <3>1. ~Awaiting'
      <4>1. WhereItExecutes'
        BY <1>2, ModifyKeepsRunning DEF Running, Reading, Contents
      <4> QED
        BY <2>1, <2>4, <2>5, <2>6, <4>1 DEF WhereItExecutes
    <3> QED
      BY <2>1, <2>3, <2>4, <2>5, <2>6, <3>1
         DEF Contents, MemoryBefore, MemoryOfLoader, MemoryInPages, MemoryOfSnapshot
  <2>7. CASE target = Snapshot
    <3>1. step' = "end" => Awaiting'
      <4>1. ASSUME ModifyStarts
            PROVE  Awaiting'
        <5>1. shadow.restore_n /\ ~shadow.reset /\ cpu.place = "start" /\ cpu.pc = Snapshot
              /\ shadow \in Control
          BY <2>7, <4>1 DEF ModifyStarts, Running, ControlHeld, WhereItExecutes, Inv, TypeOK,
             ForcingPrepared
        <5>2. CpuAfter /\ ShadowIs(FALSE, shadow.restore_n, shadow.reset, shadow.pc)
          BY <4>1, <5>1, EffectsOfStart DEF ModifyStarts
        <5>3. cpu' = cpu
          BY <5>1, <5>2 DEF CpuAfter, ShadowIs
        <5> QED
          BY <5>1, <5>3 DEF Awaiting
      <4> QED
        BY <1>2, <4>1 DEF Modify, ModifyStops, ModifyReleases, ModifyForces, ModifyResumes
    <3> QED
      BY <2>1, <2>2, <2>4, <2>5, <2>7, <3>1
         DEF Contents, MemoryBefore, MemoryOfLoader, MemoryInPages, MemoryOfSnapshot
  <2> QED
    BY <2>5, <2>6, <2>7
<1>3. CASE StopLoader
  <2>1. UNCHANGED <<mem, ports, file, todo, bank, damaged, target>> /\ step = "spin" /\ step' = "pages"
    BY <1>3 DEF StopLoader, fileVars
  <2>2. target = Loader /\ cpu.pc \in {Loader, Spin}
    BY <2>1 DEF Running, WhereItExecutes
  <2>3. /\ mem = [p \in Pages |-> IF p = 2 THEN LoaderCode ELSE Old]
        /\ todo = LoadOrder(file) /\ bank = 0
    BY <2>1, <2>2 DEF Contents, MemoryOfLoader
  <2>4. Len(todo) = 11
    BY <2>3, EntriesOfOrder DEF Inv, TypeOK
  <2>5. Len(todo') = 11 /\ Taken' = 0
    BY <2>1, <2>4 DEF Taken
  <2>6. ~Awaiting'
    <3>1. shadow.restore_n /\ ~shadow.reset /\ shadow \in Control
      BY <2>1 DEF Running, ControlHeld, Inv, TypeOK, ForcingPrepared
    <3>2. CpuAfter /\ ShadowIs(TRUE, shadow.restore_n, shadow.reset, shadow.pc)
      BY <1>3, <3>1, EffectsOfStop DEF StopLoader
    <3>3. cpu' = cpu
      BY <3>1, <3>2 DEF CpuAfter, ShadowIs
    <3> QED
      BY <2>2, <3>3 DEF Awaiting, Loader, Spin, Snapshot
  <2>7. ASSUME NEW p \in Pages
        PROVE  mem'[p] = (Content(p))'
    BY <2>1, <2>3, <2>5 DEF Content, Loaded, Pages
  <2>8. mem'[2] = LoaderCode
    BY <2>1, <2>3 DEF Pages
  <2> QED
    BY <2>1, <2>2, <2>6, <2>7, <2>8
       DEF Contents, MemoryBefore, MemoryOfLoader, MemoryInPages, MemoryOfSnapshot, Loader, Snapshot
<1> QED
  BY <1>1, <1>2, <1>3

(* Loading the pages: a bank that is read ends in the page it belongs to.  *)
LEMMA LoadPagesKeepsContents ==
  ASSUME Inv, Running, Reading, Contents, LoadPages
  PROVE  Contents'
<1>1. UNCHANGED <<shadow, control, halt_ack, cpu, file>> /\ InPages
  BY DEF LoadPages, PassOver, PageBegins, PageEnds, PagesLoaded, logicVars, fileVars, InPages
<1>2. ~Awaiting /\ ~Awaiting'
  BY <1>1 DEF Running, WhereItExecutes, LeavingSpin, Awaiting, Spin, Snapshot
<1>3. mem \in [Pages -> Pages \cup {Old, LoaderCode, Torn}]
  BY DEF Inv, TypeOK
<1>4. ASSUME InPages', MemoryInPages'
      PROVE  Contents'
  BY <1>2, <1>4 DEF Contents, MemoryBefore, MemoryOfLoader, MemoryOfSnapshot, InPages, Forcing,
     ForLoader, ForSnapshot
<1>5. CASE PassOver
  <2>1. /\ todo # << >> /\ PassedOver(Head(todo)) /\ todo' = Tail(todo)
        /\ step = "pages" /\ step' = "pages" /\ UNCHANGED <<mem, file, bank, damaged>>
    BY <1>5 DEF PassOver
  <2>2. /\ Taken \in 3 .. 10 /\ Taken' = Taken + 1 /\ Len(todo') # 11
        /\ Taken - 3 \in {5, 2, file.page}
    <3>1. Taken \in 0 .. 10 /\ Head(todo) = Ordered(file.page, Taken + 1)
          /\ Len(Tail(todo)) = Len(todo) - 1 /\ Len(todo) \in 1 .. 11
          /\ Taken >= 3 /\ Head(todo) \in {5, 2, file.page}
      BY <1>1, <2>1, NextEntry DEF Reading
    <3>2. Taken' = Taken + 1
      BY <1>1, <2>1, TailKeepsOrder DEF Reading
    <3>3. Head(todo) = Taken - 3
      BY <3>1 DEF Ordered
    <3>4. Len(todo') # 11
      <4> DEFINE n == Len(todo)
                 m == Len(todo')
      <4>1. m = n - 1
        BY <2>1, <3>1, Zenon
      <4>2. n \in 1 .. 11
        BY <3>1
      <4> HIDE DEF n, m
      <4>3. m # 11
        BY <4>1, <4>2
      <4> QED
        BY <4>3 DEF m
    <3> QED
      BY <2>1, <3>1, <3>2, <3>3, <3>4
  <2>3. ASSUME ~damaged', NEW p \in Pages
        PROVE  mem'[p] = (Content(p))'
    <3>1. mem[p] = Content(p)
      BY <1>1, <2>1, <2>3 DEF Contents, MemoryInPages
    <3>2. Loaded(p)' <=> Loaded(p)
      BY <2>1, <2>2 DEF Loaded, Pages
    <3> QED
      BY <2>1, <3>1, <3>2 DEF Content
  <2> QED
    BY <1>4, <2>1, <2>2, <2>3 DEF MemoryInPages, InPages
<1>6. CASE PageBegins
  <2>1. /\ todo # << >> /\ ~PassedOver(Head(todo)) /\ step = "pages" /\ step' = "page"
        /\ UNCHANGED <<file, todo, bank, damaged>>
        /\ mem' = IF NoData THEN mem ELSE [mem EXCEPT ![Head(todo)] = Torn]
    BY <1>6 DEF PageBegins, fileVars
  <2>2. Taken' = Taken /\ NoData' = NoData /\ \A p \in Pages : Loaded(p)' = Loaded(p)
    BY <2>1 DEF Taken, NoData, Loaded, FileBanks, OthersBut
  <2>3. ASSUME ~damaged', NEW p \in Pages
        PROVE  mem'[p] = (Content(p))'
    <3>1. mem[p] = IF Loaded(p) THEN p ELSE IF p = 2 THEN LoaderCode ELSE Old
      BY <1>1, <2>1, <2>3 DEF Contents, MemoryInPages, Content
    <3>2. mem'[p] = IF p = Head(todo) /\ ~NoData THEN Torn ELSE mem[p]
      BY <1>3, <2>1
    <3> QED
      BY <2>1, <2>2, <3>1, <3>2 DEF Content
  <2>4. ASSUME Len(todo') = 11
        PROVE  mem'[2] = LoaderCode
    <3>1. Head(todo) = Ordered(file.page, Taken + 1) /\ Taken = 0
      BY <1>1, <2>1, <2>4, NextEntry DEF Reading, Taken
    <3>2. Head(todo) = 5
      BY <3>1 DEF Ordered
    <3>3. mem[2] = LoaderCode
      BY <1>1, <2>1, <2>4 DEF Contents, MemoryInPages
    <3> QED
      BY <1>3, <2>1, <3>2, <3>3 DEF Pages
  <2> QED
    BY <1>4, <2>1, <2>3, <2>4 DEF MemoryInPages, InPages
<1>7. CASE PageEnds
  <2>1. /\ todo # << >> /\ ~PassedOver(Head(todo)) /\ todo' = Tail(todo)
        /\ step = "page" /\ step' = "pages"
    BY <1>7 DEF PageEnds, Inv, PageChosen, Reading, PagesInOrder, InPages
  <2>2. /\ Taken \in 0 .. 10 /\ Taken' = Taken + 1 /\ Len(todo') # 11
        /\ Head(todo) = Ordered(file.page, Taken + 1) /\ Head(todo) \in Pages
    <3>1. /\ Taken \in 0 .. 10 /\ Len(Tail(todo)) = Len(todo) - 1 /\ Len(todo) \in 1 .. 11
          /\ Head(todo) = Ordered(file.page, Taken + 1) /\ Head(todo) \in Pages
      BY <1>1, <2>1, NextEntry DEF Reading
    <3>2. Taken' = Taken + 1
      BY <1>1, <2>1, TailKeepsOrder DEF Reading
    <3>3. Len(todo') # 11
      <4> DEFINE n == Len(todo)
                 m == Len(todo')
      <4>1. m = n - 1
        BY <2>1, <3>1, Zenon
      <4>2. n \in 1 .. 11
        BY <3>1
      <4> HIDE DEF n, m
      <4>3. m # 11
        BY <4>1, <4>2
      <4> QED
        BY <4>3 DEF m
    <3> QED
      BY <3>1, <3>2, <3>3
  <2>3. ASSUME ~damaged', NEW p \in Pages
        PROVE  mem'[p] = (Content(p))'
    <3> DEFINE h == Head(todo)
    <3>1. ~damaged
      BY <1>7, <2>3 DEF PageEnds, Inv, TypeOK
    <3>2. mem[p] = Content(p)
      BY <1>1, <3>1 DEF Contents, MemoryInPages
    <3>3. /\ NoData <=> file.kind = "48K" /\ Taken >= 3
          /\ ~NoData => FileBanks(file)[bank + 1] = h
      BY <1>1, <2>1, <3>1, NextBank
    <3>4. Loaded(p)' <=> Loaded(p) \/ (p = h /\ ~NoData)
      <4>1. file.page \in Pages /\ file' = file
        BY <1>1 DEF Inv, TypeOK
      <4> HIDE DEF h
      <4>2. h = Ordered(file.page, Taken + 1)
        BY <2>2 DEF h
      <4> QED
        BY <2>2, <3>3, <4>1, <4>2 DEF Loaded, Ordered, Pages
    <3>5. mem'[p] = IF p = h /\ ~NoData THEN p ELSE mem[p]
      <4>1. CASE NoData
        BY <1>7, <2>3, <3>1, <4>1 DEF PageEnds
      <4>2. CASE ~NoData
        <5>1. mem' = [mem EXCEPT ![h] = h]
          BY <1>7, <2>3, <3>1, <3>3, <4>2 DEF PageEnds
        <5> QED
          BY <1>3, <4>2, <5>1
      <4> QED
        BY <4>1, <4>2
    <3> QED
      BY <2>1, <3>2, <3>4, <3>5 DEF Content
  <2> QED
    BY <1>4, <2>1, <2>2, <2>3 DEF MemoryInPages, InPages
<1>8. CASE PagesLoaded
  <2>1. /\ todo = << >> /\ step = "pages" /\ step' = "m_stop" /\ target' = Snapshot
        /\ ports' = "snapshot" /\ UNCHANGED <<mem, file, damaged>>
    BY <1>8 DEF PagesLoaded, fileVars
  <2>2. Taken = 11
    BY <2>1, EmptySeq DEF Taken
  <2>3. ASSUME ~damaged
        PROVE  InPlace
    <3> DEFINE banks == {FileBanks(file)[i] : i \in DOMAIN FileBanks(file)}
    <3>1. file.page \in Pages
      BY DEF Inv, TypeOK
    <3>2. ASSUME NEW p \in Pages
          PROVE  p \in banks <=> p \in {5, 2, file.page} \/ file.kind # "48K"
      <4>1. /\ FileBanks(file) \in Seq(Int)
            /\ Len(FileBanks(file)) = IF file.kind = "48K" THEN 3
                                       ELSE IF file.page \in {5, 2} THEN 9 ELSE 8
            /\ FileBanks(file)[1] = 5 /\ FileBanks(file)[2] = 2 /\ FileBanks(file)[3] = file.page
            /\ file.kind # "48K" =>
                 \A q \in Pages \ {5, 2, file.page} :
                    FileBanks(file)[4 + BanksBefore(file.page, q)] = q
        BY <3>1, EntriesOfBanks
      <4> DEFINE n == IF file.kind = "48K" THEN 3 ELSE IF file.page \in {5, 2} THEN 9 ELSE 8
      <4>2. DOMAIN FileBanks(file) = 1 .. n
        BY <4>1, LenProperties
      <4>3. CASE p \in {5, 2, file.page}
        <5>1. 1 \in 1 .. n /\ 2 \in 1 .. n /\ 3 \in 1 .. n
          OBVIOUS
        <5> QED
          BY <4>1, <4>2, <4>3, <5>1
      <4>4. CASE p \notin {5, 2, file.page} /\ file.kind # "48K"
        <5>1. 4 + BanksBefore(file.page, p) \in 1 .. n
          BY <3>1, <4>4 DEF BanksBefore, Pages
        <5>2. FileBanks(file)[4 + BanksBefore(file.page, p)] = p
          BY <4>1, <4>4
        <5> QED
          BY <4>2, <4>4, <5>1, <5>2
      <4>5. CASE p \notin {5, 2, file.page} /\ file.kind = "48K"
        <5>1. n = 3
          BY <4>5
        <5>2. \A i \in 1 .. n : i = 1 \/ i = 2 \/ i = 3
          BY <5>1
        <5> QED
          BY <4>1, <4>2, <4>5, <5>2
      <4> QED
        BY <4>3, <4>4, <4>5
    <3>3. ASSUME NEW p \in Pages
          PROVE  mem[p] = IF p \in {5, 2, file.page} \/ file.kind # "48K" THEN p ELSE Old
      <4>1. mem[p] = Content(p)
        BY <1>1, <2>3 DEF Contents, MemoryInPages
      <4> QED
        BY <2>1, <2>2, <4>1 DEF Content, Loaded, Pages
    <3> QED
      BY <3>2, <3>3 DEF InPlace
  <2>4. InPlace' = InPlace
    BY <2>1 DEF InPlace, FileBanks, OthersBut
  <2> QED
    BY <1>2, <2>1, <2>3, <2>4 DEF Contents, MemoryBefore, MemoryOfLoader, MemoryInPages,
       MemoryOfSnapshot, InPages, Forcing, ForLoader, ForSnapshot, Loader, Snapshot
<1> QED
  BY <1>5, <1>6, <1>7, <1>8 DEF LoadPages

(* Everything the loader relies on holds in every reachable state. *)
THEOREM LoadInvariance == Spec => [](Inv /\ LoadInv)
<1>1. Init => LoadInv
  <2> SUFFICES ASSUME Init PROVE LoadInv
    OBVIOUS
  <2>1. Reading
    BY DEF Init, Reading, PagesInOrder, BanksInStep, InPages
  <2> QED
    BY <2>1, RunningInitially, ContentsInitially DEF LoadInv
<1>2. Inv /\ LoadInv /\ [Next]_vars => LoadInv'
  <2> SUFFICES ASSUME Inv, Running, Reading, Contents, [Next]_vars
               PROVE  LoadInv'
    BY DEF LoadInv
  <2>1. PagesInOrder /\ MemoryOfLoader
    BY DEF Reading, Contents
  <2>2. CASE LoadPages
    BY <2>1, <2>2, LoadPagesKeepsRunning, LoadPagesKeepsReading, LoadPagesKeepsContents DEF LoadInv
  <2>3. CASE ~LoadPages
    <3>1. Reading'
      BY <2>1, <2>3, OthersKeepReading
    <3>2. CASE Boot
      BY <3>1, <3>2, BootKeepsRunning, OpeningKeepsContents DEF LoadInv
    <3>3. CASE \/ \E f \in FileChoices : zx_snapshot_load(f)
               \/ OpenFails \/ OpenFile \/ ResetPorts \/ ResetZ80 \/ RequestHalt \/ LoadReturns
      BY <3>1, <3>3, OpeningKeepsRunning, OpeningKeepsContents DEF LoadInv
    <3>4. CASE Prepare \/ Modify \/ StopLoader
      BY <2>1, <3>1, <3>4, ModifyKeepsRunning, ModifyKeepsContents DEF LoadInv
    <3>5. CASE Z80
      BY <2>1, <3>1, <3>5, Z80KeepsRunning, Z80KeepsContents DEF LoadInv
    <3>6. CASE UNCHANGED vars
      <4>1. Running' = Running
        BY <3>6 DEF vars, logicVars, fileVars, Running, ControlHeld, StandsStill, WhereItExecutes,
           InPages, Forcing, ForLoader, ForSnapshot, LeavingSpin, Awaiting, Clocked
      <4>2. Contents' = Contents
        BY <3>6 DEF vars, logicVars, fileVars, Contents, MemoryBefore, MemoryOfLoader,
           MemoryInPages, MemoryOfSnapshot, InPages, Forcing, ForLoader, ForSnapshot, Awaiting,
           InPlace, Content, Loaded, Taken, NoData, FileBanks, OthersBut, LoadOrder
      <4> QED
        BY <3>1, <4>1, <4>2 DEF LoadInv
    <3> QED
      BY <2>3, <3>2, <3>3, <3>4, <3>5, <3>6 DEF Next, Task
  <2> QED
    BY <2>2, <2>3
<1> QED
  BY <1>1, <1>2, Invariance, PTL DEF Spec

(* The Z80 executes the loader program only while page 2 holds it, and the *)
(* snapshot only when every page of the file is in its place, no other     *)
(* page has changed and the paging port is the snapshot's, unless reading  *)
(* has failed.  By the invariant the only instruction that is executed     *)
(* while the pages are replaced is the last of the endless loop, before    *)
(* the first page is read; and the order in which the pages are loaded is  *)
(* the order of the banks in the file.                                     *)
THEOREM ExecutesLoaded == Spec => ExecutesWhatWasLoaded
<1> DEFINE A == Execute =>
                  /\ cpu.pc \in {Loader, Spin} => mem[2] = LoaderCode
                  /\ cpu.pc = Snapshot => damaged \/ (ports = "snapshot" /\ InPlace)
<1>1. Inv /\ LoadInv => A
  <2> SUFFICES ASSUME Inv, Running, Contents, Execute
               PROVE  /\ cpu.pc \in {Loader, Spin} => mem[2] = LoaderCode
                      /\ cpu.pc = Snapshot => damaged \/ (ports = "snapshot" /\ InPlace)
    BY DEF LoadInv
  <2>1. cpu.place = "start" /\ ~halt_ack
    BY DEF Execute, Clocked
  <2>2. ASSUME cpu.pc \in {Loader, Spin}
        PROVE  mem[2] = LoaderCode
    <3>1. ForLoader \/ (InPages /\ Len(todo) = 11)
      BY <2>1, <2>2 DEF Running, WhereItExecutes, StandsStill
    <3>2. 2 \in Pages
      BY DEF Pages
    <3> QED
      BY <3>1, <3>2 DEF Contents, MemoryOfLoader, MemoryInPages
  <2>3. ASSUME cpu.pc = Snapshot
        PROVE  damaged \/ (ports = "snapshot" /\ InPlace)
    BY <2>1, <2>3 DEF Contents, MemoryOfSnapshot, Awaiting
  <2> QED
    BY <2>2, <2>3
<1>2. Inv /\ LoadInv => [A]_vars
  BY <1>1
<1> QED
  BY <1>2, LoadInvariance, PTL DEF ExecutesWhatWasLoaded

=============================================================================
