---------------------------- MODULE SnapshotLoader ----------------------------
(***************************************************************************)
(* Loading a snapshot into the running machine: the loader on the          *)
(* processor (zx_spectrum_file_io/zx_snapshot.c), and what it does to the  *)
(* Z80 in the programmable logic through the CPU control register          *)
(* (zx_main_top.vhd and the reset and restore inputs of T80.vhd).          *)
(*                                                                         *)
(* The loader resets the Z80, lets it run a small program that sets its    *)
(* registers from the snapshot's header, halts it in the endless loop at   *)
(* the end of that program, replaces the memory, and forces the program    *)
(* counter to where the snapshot goes on.  The Z80 halts between two       *)
(* instructions; the loader never looks whether it has, it waits.          *)
(*                                                                         *)
(* What the logic does within two of its clocks of a register write is     *)
(* part of the write: the processor takes many clocks between two writes.  *)
(***************************************************************************)
EXTENDS Integers, Sequences, FiniteSets

CONSTANTS
  Old,         (* the content of a page before the snapshot                     *)
  LoaderCode,  (* the content of page 2 once the header and zx_loader are there *)
  Torn,        (* a page of which only a part has been read                     *)
  CardMayFail  (* may reading the snapshot fail                                 *)

(* The 16K pages of RAM, 0 .. ZX_SNAPSHOT_TOTAL_PAGES - 1.  A page of the  *)
(* snapshot is represented by its number.                                  *)
Pages == 0 .. 7

ASSUME ContentAssumption == {Old, LoaderCode, Torn} \cap Pages = {} /\ Torn # LoaderCode
ASSUME SwitchAssumption == CardMayFail \in BOOLEAN

VARIABLES
  step,     (* where the main task is: see Steps                               *)
  shadow,   (* zx_cpu_control: the copy of the control register in zx_snapshot *)
  control,  (* s_cpu_halt_req, s_cpu_restore_pc_n, s_cpu_reset, s_cpu_restore_pc *)
  halt_ack, (* s_cpu_halt_ack: the clock of the Z80 is stopped                 *)
  cpu,      (* the Z80: where in an instruction, and where in memory           *)
  arrived,  (* history: since the register was last written the Z80 has come   *)
            (* to the start of an instruction                                  *)
  ports,    (* who wrote the memory paging port last                           *)
  mem,      (* the content of each page                                        *)
  file,     (* the file being loaded: what kind, and the page at 0xC000        *)
  target,   (* the argument of zx_cpu_modify_pc                                *)
  todo,     (* the pages still to be loaded, in order                          *)
  bank,     (* how many banks of the file have been read                       *)
  damaged   (* reading the file has failed                                     *)

logicVars == <<control, halt_ack, cpu, arrived>>
fileVars == <<file, todo, bank, damaged>>
vars == <<step, shadow, logicVars, ports, mem, fileVars, target>>

(* Where the Z80 executes: from address 0 after a reset, anywhere in the   *)
(* program of the machine, in the loader, in the loop at its end, at the   *)
(* place where the snapshot goes on.                                       *)
Zero == "zero"
Machine == "machine"
Loader == "loader"
Spin == "spin"
Snapshot == "snapshot"

Steps == {"boot", "idle", "open", "reset", "settle", "halt", "prepare",
          "m_stop", "m_release", "m_force", "m_resume", "m_start",
          "spin", "pages", "page", "end"}

Control == [halt : BOOLEAN, restore_n : BOOLEAN, reset : BOOLEAN,
            pc : {Zero, Loader, Snapshot}]

-----------------------------------------------------------------------------
(* The Z80 after a write of c to the control register.  Reset wins over    *)
(* restore, which puts the Z80 before an instruction at the given address  *)
(* whatever it was doing; the halt generator sees that as the start of an  *)
(* instruction unless a memory access is under way.  Without a request the *)
(* halt ends.                                                              *)
Write(c) ==
  /\ control' = c
  /\ arrived' = FALSE
  /\ IF c.reset
     THEN /\ cpu' = [place |-> "reset", pc |-> Zero]
          /\ halt_ack' = (halt_ack /\ c.halt)
     ELSE IF ~c.restore_n
     THEN /\ cpu' = [place |-> "start", pc |-> c.pc]
          /\ \E seen \in BOOLEAN :
               /\ seen => cpu.place # "start"
               /\ halt_ack' = (c.halt /\ (halt_ack \/ seen))
     ELSE /\ cpu' = cpu
          /\ halt_ack' = (halt_ack /\ c.halt)

(* A function of the loader writes its copy, changed, to the register. *)
WriteShadow(c) == shadow' = c /\ Write(c)

(* The Z80 gets its clock. *)
Clocked == ~control.reset /\ control.restore_n /\ ~halt_ack

(* The Z80 comes to the start of an instruction: a pending request halts it. *)
Arrive(pc) ==
  /\ cpu' = [place |-> "start", pc |-> pc]
  /\ halt_ack' = control.halt
  /\ arrived' = TRUE

(* The first instruction of a program that has been started: what it then  *)
(* does to memory and ports is up to the program.                          *)
Execute ==
  /\ Clocked
  /\ cpu.place = "start"
  /\ cpu' = [cpu EXCEPT !.place = "inside"]
  /\ \/ /\ cpu.pc \in {Loader, Spin}
        /\ UNCHANGED <<mem, ports>>
     \/ /\ cpu.pc = Snapshot
        /\ mem' = [p \in Pages |-> Old]
        /\ ports' = Machine
     \/ /\ cpu.pc \in {Zero, Machine}
        /\ \/ UNCHANGED mem
           \/ \E p \in Pages : mem' = [mem EXCEPT ![p] = Old]
        /\ ports' \in {ports, Machine}
  /\ UNCHANGED <<step, shadow, control, halt_ack, arrived, fileVars, target>>

Finish ==
  /\ Clocked
  /\ cpu.place = "inside"
  /\ \/ cpu.pc = Loader /\ Arrive(Loader)
     \/ cpu.pc \in {Loader, Spin} /\ Arrive(Spin)
     \/ cpu.pc \in {Zero, Machine, Snapshot} /\ Arrive(Machine)
  /\ UNCHANGED <<step, shadow, control, ports, mem, fileVars, target>>

LeaveReset ==
  /\ Clocked
  /\ cpu.place = "reset"
  /\ Arrive(Zero)
  /\ UNCHANGED <<step, shadow, control, ports, mem, fileVars, target>>

Z80 == Execute \/ Finish \/ LeaveReset

(* The timing that the delays rely on: 10 ticks, or reading 16 KiB from    *)
(* the card, last longer than an instruction of a Z80 that has its clock,  *)
(* and than the loader program.  Whether the Z80 halts meanwhile is up to  *)
(* the logic.                                                              *)
DelayEnds == Clocked => arrived /\ cpu.pc # Loader

-----------------------------------------------------------------------------
(* Static storage, and the logic after its reset: the Z80 is held at       *)
(* address 0 by its restore input.                                         *)
Init ==
  /\ step = "boot"
  /\ shadow = [halt |-> FALSE, restore_n |-> FALSE, reset |-> FALSE, pc |-> Zero]
  /\ control = shadow
  /\ halt_ack = FALSE
  /\ arrived = FALSE
  /\ cpu = [place |-> "start", pc |-> Zero]
  /\ ports = "clear"
  /\ mem = [p \in Pages |-> Old]
  /\ file = [kind |-> "none", page |-> 0]
  /\ target = Loader
  /\ todo = << >>
  /\ bank = 0
  /\ damaged = FALSE

(* speccy_main_thread starts the machine with a local variable, of which   *)
(* it sets the halt request and the restore input only.                    *)
Boot ==
  /\ step = "boot"
  /\ \E reset \in BOOLEAN, pc \in {Zero, Loader, Snapshot} :
       Write([halt |-> FALSE, restore_n |-> TRUE, reset |-> reset, pc |-> pc])
  /\ step' = "idle"
  /\ UNCHANGED <<shadow, ports, mem, fileVars, target>>

zx_cpu_stop == WriteShadow([shadow EXCEPT !.halt = TRUE])

zx_cpu_start == WriteShadow([shadow EXCEPT !.halt = FALSE])

zx_cpu_reset(reset) ==
  /\ ports' = IF reset THEN ports ELSE "clear"
  /\ WriteShadow([shadow EXCEPT !.reset = IF shadow.halt THEN @ ELSE reset,
                                !.restore_n = TRUE])

(* zx_snapshot_load, called by Enter on a .sna file: the machine is        *)
(* stopped, if it is not.  A finger is slower than an instruction: the     *)
(* snapshot loaded last has begun to run.                                  *)
zx_snapshot_load(f) ==
  /\ step = "idle"
  /\ Clocked /\ cpu.pc = Snapshot => cpu.place # "start"
  /\ file' = f
  /\ IF shadow.halt THEN UNCHANGED <<shadow, logicVars>> ELSE zx_cpu_stop
  /\ step' = "open"
  /\ UNCHANGED <<ports, mem, todo, bank, damaged, target>>

(* The file cannot be opened or is too short. *)
OpenFails ==
  /\ step = "open"
  /\ file.kind \in {"missing", "short"} \/ CardMayFail
  /\ step' = "end"
  /\ UNCHANGED <<shadow, logicVars, ports, mem, fileVars, target>>

OpenFile ==
  /\ step = "open"
  /\ file.kind \in {"48K", "128K"}
  /\ zx_cpu_start
  /\ step' = "reset"
  /\ UNCHANGED <<ports, mem, fileVars, target>>

ResetPorts ==
  /\ step = "reset"
  /\ zx_cpu_reset(FALSE)
  /\ step' = "settle"
  /\ UNCHANGED <<mem, fileVars, target>>

ResetZ80 ==
  /\ step = "settle"
  /\ DelayEnds
  /\ zx_cpu_reset(TRUE)
  /\ step' = "halt"
  /\ UNCHANGED <<mem, fileVars, target>>

RequestHalt ==
  /\ step = "halt"
  /\ zx_cpu_stop
  /\ step' = "prepare"
  /\ UNCHANGED <<ports, mem, fileVars, target>>

(* Mutation: one page more than there are. *)
LoadOrderPastLast(f) == <<5, 2, f.page>> \o [i \in 1 .. Cardinality(Pages) + 1 |-> i - 1]

(* The pages to load, in order: three by name, and a loop over all pages   *)
(* that passes over those three.                                           *)
LoadOrder(f) == <<5, 2, f.page>> \o [i \in 1 .. Cardinality(Pages) |-> i - 1]

(* Mutation: the page at 0xC000 is loaded again with the others. *)
PassedOverTwo(p) == Len(todo) <= Cardinality(Pages) /\ p \in {5, 2}

PassedOver(p) == Len(todo) <= Cardinality(Pages) /\ p \in {5, 2, file.page}

(* The headers are read, the paging port is set, and the header and the    *)
(* loader program are put into page 2.  An error leaves whatever was in    *)
(* the variables for the headers.                                          *)
Prepare ==
  /\ step = "prepare"
  /\ \E failed \in BOOLEAN :
       /\ failed => CardMayFail
       /\ damaged' = failed
       /\ IF failed THEN \E p \in Pages : file' = [file EXCEPT !.page = p]
                    ELSE UNCHANGED file
  /\ WriteShadow(shadow)
  /\ ports' = "snapshot"
  /\ mem' = [mem EXCEPT ![2] = LoaderCode]
  /\ todo' = LoadOrder(file')
  /\ bank' = 0
  /\ target' = Loader
  /\ step' = "m_stop"

(* zx_cpu_modify_pc, one action per register write; the delays come before *)
(* the writes that follow them.                                            *)
ModifyStops ==
  /\ step = "m_stop"
  /\ zx_cpu_stop
  /\ step' = "m_release"
  /\ UNCHANGED <<ports, mem, fileVars, target>>

ModifyReleases ==
  /\ step = "m_release"
  /\ WriteShadow([shadow EXCEPT !.pc = target, !.reset = FALSE, !.restore_n = TRUE])
  /\ step' = "m_force"
  /\ UNCHANGED <<ports, mem, fileVars, target>>

(* Mutation: no delay before the program counter is forced. *)
ForceAtOnce ==
  /\ step = "m_force"
  /\ WriteShadow([shadow EXCEPT !.restore_n = FALSE])
  /\ step' = "m_resume"
  /\ UNCHANGED <<ports, mem, fileVars, target>>

ModifyForces ==
  /\ step = "m_force"
  /\ DelayEnds
  /\ WriteShadow([shadow EXCEPT !.restore_n = FALSE])
  /\ step' = "m_resume"
  /\ UNCHANGED <<ports, mem, fileVars, target>>

ModifyResumes ==
  /\ step = "m_resume"
  /\ DelayEnds
  /\ WriteShadow([shadow EXCEPT !.restore_n = TRUE])
  /\ step' = "m_start"
  /\ UNCHANGED <<ports, mem, fileVars, target>>

(* Mutation: the machine is not started again. *)
StaysStopped ==
  /\ step = "m_start"
  /\ step' = IF target = Loader THEN "spin" ELSE "end"
  /\ UNCHANGED <<shadow, logicVars, ports, mem, fileVars, target>>

ModifyStarts ==
  /\ step = "m_start"
  /\ zx_cpu_start
  /\ step' = IF target = Loader THEN "spin" ELSE "end"
  /\ UNCHANGED <<ports, mem, fileVars, target>>

(* After a delay the loader program has come to its end. *)
StopLoader ==
  /\ step = "spin"
  /\ DelayEnds
  /\ zx_cpu_stop
  /\ step' = "pages"
  /\ UNCHANGED <<ports, mem, fileVars, target>>

(* The banks of a .sna file: pages 5, 2 and the one at 0xC000, and in a    *)
(* file of a 128K machine the remaining pages in ascending order.          *)
Others == <<0, 1, 3, 4, 6, 7>>
OthersBut(page) ==
  IF page \in {5, 2} THEN Others
  ELSE [i \in 1 .. 5 |-> IF Others[i] < page THEN Others[i] ELSE Others[i + 1]]
FileBanks(f) == <<5, 2, f.page>> \o (IF f.kind = "48K" THEN << >> ELSE OthersBut(f.page))

(* Nothing more can be read. *)
NoData == damaged \/ bank >= Len(FileBanks(file))

PassOver ==
  /\ step = "pages"
  /\ todo # << >>
  /\ PassedOver(Head(todo))
  /\ todo' = Tail(todo)
  /\ UNCHANGED <<step, shadow, logicVars, ports, mem, file, bank, damaged, target>>

(* The first bytes of a page are read and stored, ... *)
PageBegins ==
  /\ step = "pages"
  /\ todo # << >>
  /\ ~PassedOver(Head(todo))
  /\ mem' = IF NoData THEN mem ELSE [mem EXCEPT ![Head(todo)] = Torn]
  /\ step' = "page"
  /\ UNCHANGED <<shadow, logicVars, ports, fileVars, target>>

(* ... and the last ones, or as many as the file has or the card gives.    *)
(* zx_snapshot_load_page: nothing is reported to the caller.               *)
PageEnds ==
  /\ step = "page"
  /\ DelayEnds
  /\ \/ /\ NoData
        /\ UNCHANGED <<mem, bank, damaged>>
     \/ /\ ~NoData
        /\ mem' = [mem EXCEPT ![Head(todo)] = FileBanks(file)[bank + 1]]
        /\ bank' = bank + 1
        /\ UNCHANGED damaged
     \/ /\ CardMayFail
        /\ damaged' = TRUE
        /\ UNCHANGED <<mem, bank>>
  /\ todo' = Tail(todo)
  /\ step' = "pages"
  /\ UNCHANGED <<shadow, logicVars, ports, file, target>>

(* The paging port is set again, and the snapshot is continued. *)
PagesLoaded ==
  /\ step = "pages"
  /\ todo = << >>
  /\ ports' = "snapshot"
  /\ target' = Snapshot
  /\ step' = "m_stop"
  /\ UNCHANGED <<shadow, logicVars, mem, fileVars>>

(* The machine is started unless it is stopped. *)
LoadReturns ==
  /\ step = "end"
  /\ IF shadow.halt THEN UNCHANGED <<shadow, logicVars>> ELSE zx_cpu_start
  /\ step' = "idle"
  /\ UNCHANGED <<ports, mem, fileVars, target>>

-----------------------------------------------------------------------------
FileChoices ==
  [kind : {"missing", "short", "48K"}, page : {0}] \cup [kind : {"128K"}, page : Pages]

Modify == ModifyStops \/ ModifyReleases \/ ModifyForces \/ ModifyResumes \/ ModifyStarts

LoadPages == PassOver \/ PageBegins \/ PageEnds \/ PagesLoaded

Task ==
  \/ Boot \/ OpenFails \/ OpenFile \/ ResetPorts \/ ResetZ80 \/ RequestHalt
  \/ Prepare \/ Modify \/ StopLoader \/ LoadPages \/ LoadReturns

Next ==
  \/ \E f \in FileChoices : zx_snapshot_load(f)
  \/ Task
  \/ Z80

(* Main task and Z80 both run for ever, a delay ends once what it waits    *)
(* for has happened, and the loader program comes to its end.              *)
Fairness ==
  WF_vars(Task) /\ WF_vars(Z80) /\ SF_vars(Finish /\ cpu.pc = Loader /\ cpu'.pc = Spin)

Spec == Init /\ [][Next]_vars
FairSpec == Spec /\ Fairness

-----------------------------------------------------------------------------
(* Every variable holds what its declaration allows.                       *)
TypeOK ==
  /\ step \in Steps
  /\ shadow \in Control
  /\ control \in Control
  /\ halt_ack \in BOOLEAN
  /\ arrived \in BOOLEAN
  /\ cpu \in [place : {"reset", "start", "inside"}, pc : {Zero, Machine, Loader, Spin, Snapshot}]
  /\ ports \in {"clear", Machine, "snapshot"}
  /\ mem \in [Pages -> Pages \cup {Old, LoaderCode, Torn}]
  /\ file \in [kind : {"none", "missing", "short", "48K", "128K"}, page : Pages]
  /\ target \in {Loader, Snapshot}
  /\ todo \in Seq(Pages)
  /\ bank \in 0 .. 9
  /\ damaged \in BOOLEAN

(* The memory of the snapshot: every page of the file is in its place, the *)
(* others are as they were.                                                *)
InPlace ==
  \A p \in Pages :
    mem[p] = IF p \in {FileBanks(file)[i] : i \in DOMAIN FileBanks(file)} THEN p ELSE Old

(* The Z80 executes neither the loader program before and after it is in   *)
(* memory, nor the snapshot before every page of it is in its place and    *)
(* the paging port is the snapshot's, unless reading the file has failed.  *)
ExecutesWhatWasLoaded ==
  [][Execute =>
       /\ cpu.pc \in {Loader, Spin} => mem[2] = LoaderCode
       /\ cpu.pc = Snapshot => damaged \/ (ports = "snapshot" /\ InPlace)]_vars

(* Once zx_cpu_modify_pc has been called, a write of the register forces   *)
(* the program counter (zx_snapshot.c:77) only while the Z80 is halted     *)
(* between two instructions.  Nothing in the code looks at the halt        *)
(* acknowledgement: that it has been given follows from the request, the   *)
(* delay and the halt generator.  Until that first call, which is the      *)
(* first to write the address, the copy asserts the restore input, and     *)
(* zx_cpu_stop and zx_cpu_start of the first load force the running Z80 to *)
(* address 0: that is left out.                                            *)
PcForcedAtRest ==
  [][~control'.restore_n /\ shadow'.pc # Zero => halt_ack /\ cpu.place = "start"]_vars

(* A snapshot that could be opened is played.                              *)
OpenedSnapshotRuns ==
  step = "reset" ~> (cpu.place = "inside" /\ cpu.pc = Snapshot)

(* Before anything is loaded the Z80 runs: the first write to the control  *)
(* register has let it out of reset.                                       *)
BootReleasesReset == step = "idle" => ~control.reset
=============================================================================
