# Speccy2021: specifications, model checking and proofs

TLA+ specifications of the parts of Speccy2021 (a ZX Spectrum emulator on a Zynq: C code on
the processor, VHDL in the programmable logic) in which order, limits and failures matter.
In this file S stands for `src/SDK/Speccy2021/Speccy2021/src` and V for `src/Vivado/sources`.

## 1. Inventory

The processor runs one FreeRTOS task (S/speccy2021.c): after initialisation it alternates for
ever between `tuh_task` (USB events, from which keys are handled) and `zx_tape_routine`. The
logic holds the Z80, the memory bus, the video controller, sound, and a bank of registers that
the task reads and writes over AXI-Lite. The emulated memory is ordinary DDR, written by both.

| component | state | operations | interacts with |
|---|---|---|---|
| Tape byte FIFO (zx_fifo.c) | buffer, size, count, two indices | init, clean, write, read, bulk read | the tape reader writes, the decoder reads |
| Tape player (zx_tape.c) | path, open file and position, started / finished / format flags, header being queued, bytes left, loop stack; block being played, header being gathered, half bits left | select, start, stop, routine (open, fill the byte FIFO, decode to pulses) | keys, FatFs, byte FIFO, pulse FIFO of the logic |
| Tape input (zx_main_top.vhd `p_tape_in`) | pulse counter, level | count down, take the next word, idle | pulse FIFO, CPU halt and wait, port FE |
| Snapshot loader, CPU control (zx_snapshot.c) | private copies of the control and port registers | stop, start, reset, force the PC, load pages | control register, halt generator, Z80, DDR |
| Main state machine (zx_main_top.vhd) | port latches, keyboard, control bits, memory request | port reads and writes, memory requests | Z80, memory bus, registers |
| Memory bus master (zx_addr_data_bus.vhd) | state of one access | read burst, write, acknowledge | main state machine, AXI slave |
| Register interface (zx_ctrl.vhd) | AXI-Lite slave, clock crossing | write strobe, read strobe | task, video, main state machine |
| Video controller (zx_video.vhd), driver (zx_spectrum_display_ctrl.c) | register set, active set, pending and flush flags, fetch state | register writes, copy at the end of a frame, flush, border latch | task, DDR, two pixel FIFOs |
| Shell (zx_shell.c), keyboard (zx_spectrum_keyboard.c) | directory table, selection, table start, path, active flag; matrix registers | keys, read directory, enter, load | USB, video, tape, snapshot |
| USB host (TinyUSB, EHCI) | devices, enumeration, control transfer, queue heads, event queue | attach, remove, enumerate, transfers, interrupt | main task, keyboard |
| Sound, HDMI, clock generator, boot loader, FatFs, T80 | - | - | not modelled, see 7 |

What is hard in each, and what makes it correct:

- **Byte FIFO**: wrap-around, full and empty, clipped bulk reads. It is a first-in first-out queue.
- **Tape player**: reader and decoder parse the same headers at different times, with a small
  FIFO between them; keys come between any two rounds; the card may fail; the logic drains the
  pulse FIFO at its own pace. The signal is that of the selected tape, blocks are never cut,
  the pulse FIFO is never overrun, the tape never hangs silently.
- **Tape input**: words of length zero, the register in front of the counter, a halted CPU. Every
  pulse is played once, for its length.
- **Snapshot loader**: a handshake of register writes and delays with a CPU that stops only
  between instructions, the first write of a control register of which only two fields are set,
  a load that fails half way. The CPU does not run while its memory is replaced; it runs
  afterwards, from the right address; also after a failed load.
- **Memory bus**: every access is answered once, with its own data, whatever the slave's pace.
- **Registers and video**: clock crossing, updates that are committed while an earlier one waits
  for the end of the frame, a flush in the middle of a burst. The active set is one that the
  driver committed, the last commit becomes active, the border colour of the machine comes
  back after the shell.
- **Shell and keyboard**: signed and unsigned positions, an empty directory, one key seen by
  shell, tape and emulated machine. The selection is a file of the table on the screen, a key
  reaches one of the machines, the matrix is that of the last report.
- **USB**: a device that goes away in the middle of its enumeration, a full event queue.

`PROJECT.json` lists these hazards one by one, at their lines, with the properties that cover them.

## 2. Modules

| module | what it is |
|---|---|
| `ByteQueue` | abstract: the bounded queue zx_fifo.h promises |
| `TapeFifo` | zx_fifo.c, one action per function; `ImplementsQueue` is its refinement of `ByteQueue` |
| `TapeFifoProofs` | type correctness, consistency of the indices, the refinement |
| `TapePlayer` | zx_tape.c: reader, decoder, keys, card failures, and the logic's end of the pulse FIFO |
| `TapeLayout` | tapes that keep to their format, and what reader and decoder must agree on while they walk one |
| `TapeLine` | `TapePlayer` with a history of the words sent: which word may follow which |
| `MCTapePlayer` | instances of `TapeLayout` with whole tapes, and the signal a tape should give, defined from its blocks |
| `MCTapeFaults` | an instance of `TapeLine` with stops, starts and card failures at any moment |
| `TapePlayerProofs` | the inductive invariant of `TapePlayer`, its type correctness and the pulse FIFO's bound; whole blocks on the line; the agreement of reader and decoder; the use of `PulseQueue` |
| `SnapshotLoader` | zx_snapshot.c, the first write of the control register, and what the register does to the Z80 |
| `SnapshotLoaderProofs` | the inductive invariant of `SnapshotLoader`, its type correctness, that the PC is forced only at rest, and that only what was loaded is executed |
| `AtomicMemory` | abstract: a memory in which each access happens at one moment |
| `MemBus` | zx_addr_data_bus.vhd with the requester of zx_main_top.vhd and an AXI slave; `SeesAtomicMemory` is its refinement of `AtomicMemory` |
| `MemBusProofs` | the inductive invariant of `MemBus`, and the refinement |
| `RegisterPort` | zx_ctrl.vhd: AXI-Lite slave, two clocks, the crossing of writes and reads |
| `PulseQueue` | abstract: the queue of words the tape task sends pulses into |
| `TapePulse` | the pulse FIFO and `p_tape_in` of zx_main_top.vhd |
| `TapeLogic`, `MCTapeLogic` | `RegisterPort` and `TapePulse` with the loop of zx_tape.c that fills the FIFO; `ImplementsPulseQueue` is its refinement of `PulseQueue` |
| `TapeLogicProofs` | the inductive invariant of `TapeLogic`: crossing of writes and reads, order of pulses, room in the FIFO; the refinement of `PulseQueue` |
| `VideoRegs` | the registers of zx_video.vhd and the driver that writes them |
| `VideoUpdate` | `VideoRegs` with its users: display start, shell, and the Z80 that sets the border |
| `VideoUpdateProofs` | the inductive invariant of `VideoUpdate`, whole sets, and the border |
| `VideoStream` | zx_video.vhd from memory to picture: fetch, two FIFOs, frames |
| `Video` | `VideoRegs` and `VideoStream` together |
| `VideoProofs` | the inductive invariant of `Video`: pixels and colours in step, frames from the first line |
| `DirSort` | the sort of the file table, as recursive functions |
| `Shell` | zx_shell.c: path, table, selection, screen |
| `Keyboard`, `MCShell` | zx_spectrum_keyboard.c with `Shell`: where the keys of a report go |
| `KeyboardProofs` | the inductive invariants of `Keyboard`: selection, screen, and the registers of the matrix; the sort, and the table it leaves |

### TapeFifo

`result` is what the last call returned; it makes "returns the same bytes" part of the refinement
instead of only "stores the same bytes". `Advance` is the wrap-around of an index. The abstract
queue is obtained by reading `cntr` bytes from `read_ptr` on (`Stored`). The FIFO is used by one
task, so a call is one step.

### TapePlayer

A step is what the main loop does between two points where something else can be observed: one
iteration of the loop that fills the byte FIFO, one look at the full flag, one call of
`zx_tape_fill_buffer`. Keys are possible only between two calls of `zx_tape_routine` (`pc =
"task"`), as in the code, where both run in one task. `PlayPulse`, the logic, may come at any time.

Bytes are represented by the file and offset they were read from; `Value` gives their value where
the code looks at it. So the model can say which byte a pulse was made from, and the number of
states does not grow with the values. Lengths of pulses are left out; kinds, order and numbers of
pulses are kept. The byte FIFO is a sequence, which is what `TapeFifo` is proved to be.
`tape_header[0 .. pos - 1]` and what is left of `header[]` are sequences. Behind what has been gathered of a header,
the static array still holds bytes of earlier headers, which the decoder can look at only after a stray size: they are
taken to be 0 (`At`), and no property depends on them.

Reading the size table past its end returns any of `StraySizes`; zero is left out (the code would
then read the file by almost 4 GiB in one call), and so are sizes above the 32 bytes of `header`,
which would overwrite other variables. `HeaderCodesKnown` shows that this does not happen on a
well-formed tape (`WellFormed` of `TapeLayout`: the places where the blocks start are given by `Starts`). `f_lseek` past the end stops there, as FatFs does for a file opened for reading;
the 32-bit wrap of position plus block size is not modelled.

A card failure may happen at each open and each read; as in FatFs it marks the open file so that
further reads fail until it is opened again.

### SnapshotLoader

A step of the task is one write of the CPU control register or one read of a page, in the order
of `zx_snapshot_load`; between any two the Z80 takes steps of its own. The Z80 is its place
(in reset, at the start of an instruction, inside one) and where in memory it executes (address 0,
the program of the machine, the loader program, the loop at the loader's end, the place where the
snapshot goes on). `Write` is the control register with the two processes behind it: reset, restore
of the program counter, and the halt generator of zx_main_top.vhd, which acknowledges a request
when an instruction starts. A restore that moves the Z80 out of an instruction looks to that
generator like such a start or not, depending on a memory access: both are allowed.

`shadow` is the loader's copy of the register, `control` the register: the main task's first write
goes past the copy, and its reset bit is any value because the code leaves it uninitialised.

Memory is what each page holds: its content before (`Old`), the loader program, a part of
something (`Torn`), or page n of the snapshot. A page that is being read is `Torn` from its first
byte to its last. `FileBanks` is the order in which a .sna file holds the pages, written down from
the format; `LoadOrder` and `PassedOver` are the order in which the code loads them.

`DelayEnds` is the timing that the delays of the code rely on: 10 ticks, or the reading of 16 KiB from
the card, are longer than one instruction of a Z80 that has its clock, and than the loader program. It guards
the steps that follow a delay, and the end of a page. It says nothing of the acknowledgement: the code never
looks at it, and that the Z80 is halted after the delay is what the halt generator makes of the request
(`arrived`, a history, tells whether the Z80 came to the start of an instruction since the last write). `zx_snapshot_load` assumes that the user is slower than one
instruction. A file may be missing, too short, of 48K or of 128K, and the card may fail at any
read; what the variables for the headers hold then is any value.

### AtomicMemory and MemBus

`Clock` is one edge of the clock that requester and bus master share: each process computes its
registers from the values before the edge. The Z80 gets its own clock about every 40 edges and not
while `memWait` is high, so the requester has seen its strobe before its next step (`Z80Clocked`). The
slave answers in order at any pace, may refuse a write, and a refused write may have happened.

The bus master asks for bursts of two words and uses the first. When the second word is not there at
the very next clock, it acknowledges the access and goes through "error" to idle with that word still
to come. `LateBeatIsMarked` and the refinement say that the next access does not take it for its own.

An access of `AtomicMemory` is the Z80's question with what became of it (`Access`); `outcome` is the
only variable that is there for the refinement alone. The write happens when the slave takes the data.
A read of the last word of a 4 KiB page asks for a burst across the page, which AXI does not
allow; what a memory does with it is outside the model (`NextWord` stays in the memory).

### RegisterPort, TapePulse and TapeLogic

Time is in nanoseconds to the next edge of each clock (10 and 7), and two edges at one moment come in
either order. The processor makes one access at a time. There is no handshake between the two clocks: a
write crosses as an edge of its strobe with address and data beside it, a read is sampled when the
answer should be there. `due` and `sampled` are histories: the write on its way, and that what will be
answered was taken after the question.

`TapePulse` has one operator for an edge of `p_tape_in` and one for the FIFO, whose output changes an
edge after a read. A tick is the enable of the 3.5 MHz clock, `waiting` the halted or waiting Z80.
`fresh` and `event` are histories that tell a word played twice or not at all.

`TapeLogic` is the loop of `zx_tape_routine` seen from the bus: look at the full flag, send one word,
any time in between, writes to other registers too. It shows the same bound as
`PulseFifoNeverOverrun`, here with the time that word and flag take to cross the clocks.

`PulseQueue` is where the two models of the tape meet. `TapePlayer` uses it: `pulses` is its queue, and `room` that the
decoder runs (`pc = "decode"`). `TapeLogic` provides it: the queue is what is in the FIFO, being written to it, crossing the
clocks and offered by the master (`Sent`), and `room` that the loop is about to send. It ends at the output of the FIFO; what
`p_tape_in` plays of the words it takes is `PulsesInOrder`.

### VideoRegs and VideoUpdate

A register of the driver is its latched and its active value; the geometry registers of a mode have one
value for all. A call of the driver is the sequence of its writes (`todo`), which arrive one by one, not
at two clocks in a row (`wrote`): `RegisterPort` needs several clocks for a write. `pending` and `flush`
have an immediate and a deferred half, as in the code. `store` is the latch bit of the driver's control
value, which every later call repeats. `committed`, `late`, `machine` and `since` are histories. Frames may end
or not: whether they do is the matter of `Video`.

### VideoStream and Video

A word in a FIFO is the scan line and the repetition it was fetched for; pixels and colours are left
out, and so is where on the screen a line is drawn. A scan line of `Beats` words is fetched `scale`
times, in turn pixels and attributes. `upset` is a history of the four ways in which the FIFOs get out
of step: a burst given up with words to come ("cut"), an empty FIFO read ("starved"), a frame that goes
on after its flush ("dropped"), a new scale without a flush ("torn").

`WholeSpec` is `FairSpec` followed until a burst is cut or a FIFO starves. The code does not recover
from these: see 4.

### DirSort, Shell and Keyboard

`qsort` is the code's own: the pivot moves with the swaps and is left out of both recursions. `partition` is
its loop, one pass of the two scans (`LeftStop`, `RightStop`, `Exchanged`) at a time; both are recursive functions of one
record, so that they can be proved about. A record is
a kind and a name; names are numbers in the order of `strcmp`. `UniqueNames` says that the names of a directory differ and that
none is ".."; FAT sees to both, and `MCShell` assumes it of its listings. The selection is an integer, the first
entry on the screen a number modulo `Modulus`, as int and uint32_t in the code. A directory may hold
anything of `Listings` each time it is read. The loop of `calc_sel` that takes the screen back
is its result, or `hung` when no number of columns ends it. `Leftover` is what Enter finds outside the table.

`Keyboard` handles a report key by key, then writes the two halves of the matrix. `Drift` bounds how far
the selection may wander in an empty directory, where nothing stops it.

## 3. Runs

| run | instance | shows |
|---|---|---|
| `tape_fifo` | 3 places, 3 values | the ring stays in range and consistent and implements the queue |
| `tape_play` | a .tap and a .tzx tape, byte FIFO of 3, pulse FIFO of 2, loop stack of 2 | the signal is the tape's, word for word and pass after pass; the full flag is enough; the byte that waits is the one the decoder is due; no code outside the size table is looked up |
| `tape_faults` | one block of one byte, both FIFOs of 1, stop key and card failures | blocks are never cut by a stop; as long as the tape is started, words keep coming or it stops by itself |
| `snapshot_load` | files of all kinds and every page at 0xC000, loaded one after the other, card failures | see below |
| `machine_memory` | 2 words of 2 lanes, 2 byte values, any pace of the slave | the Z80 sees an atomic memory, and every access ends |
| `tape_logic` | periods 10 and 7, pulse FIFO of 3, words of length 0 and 1 | register writes arrive once and in order, flags are fresh, the FIFO never overflows, the whole of it is a queue of words, every word is played |
| `video_update` | 2 pages, 2 modes, 2 colours | the picture is made with sets the driver committed, the last one in the end if frames go on; the border comes back |
| `video` | 2 lines of 2 words, FIFOs of 4, scales 1 and 2 | pixels and colours in step, frames from the first line on, for ever |
| `shell` | 4 entries in every order, an empty, an unsorted and a too large directory | the selection is on the screen, tables are sorted, a key goes to one side and is released |
| `tape_last_header` | as `tape_play`, the .tzx tape ends in a pause block | *violated*: the last block is lost |
| `tape_select` | as `tape_play`, with the stop key and several selections | *violated*: start goes on with the file opened before |

`snapshot_load`: the Z80 starts the loader program only while it is in memory, and the snapshot only
when every page of the file is in its place and the paging port is set, unless a read failed
(`ExecutesWhatWasLoaded`); from the first call of `zx_cpu_modify_pc` on, the program counter is forced only while
the Z80 is halted between two instructions (`PcForcedAtRest`; for the writes before, see 4); every file that could be opened is played, damaged or not
(`OpenedSnapshotRuns`). `snapshot_boot` is *violated*, see 4. Neither has a bound: the eight pages are
those of the machine, and after a load the next one may begin.

`SignalIsTheTape` compares each word sent with `Signal`, which is defined from the list of blocks
and not from the bytes; the bytes of the file are derived from the same list. The .tzx tape of
`tape_play` has a text that is not played, a tone, a loop of two passes around a block of pure data
with a short last byte and a pulse list, a pause, an empty standard block and a turbo block.
`MCTapePlayer` also assumes `WellFormed` of its tapes, so the theorems on well-formed tapes are about these tapes among others.
`ReaderFeedsDecoder` relates two walks along the same file: the reader's, which skips, repeats and reads ahead, and the
decoder's, which sees nothing but bytes.
`tape_play` has one selection and no stop (`OneTapeSpec`); what stops and selections do is the
subject of the other runs.

Bounds. `machine_memory`: with two words and two lanes an access can be confused with any other in word, in
lane and in value. The second word of the last burst is that word again. `tape_logic`: 10 and 7 ns are the periods of the design,
so all phases of the clocks occur; three places make the FIFO full and empty; a word of length 0 is the
case that matters, 1 stands for the rest. `video_update`: two values of each
register are enough to tell old from new; `video`: one page and one colour, since only the mode changes the flow; a FIFO holds two bursts, so that a source can be one ahead of the
other. `shell`: 6 entries in a column and numbers modulo 64 stand for 18 and 2^32, because 64 mod 6 = 2^32
mod 18 = 4; the table of 16 holds more than one screen; one directory level gives enter and leave.

Deadlock is checked except in `video`, where `WholeSpec` ends when a burst is cut, and in `shell`, where
the program may really stop (`hung`) and `Drift` ends a walk in an empty directory.

`tape_play`: a FIFO of 3 bytes is smaller than any header of the tape except that of a loop end, so headers are split between rounds in
every way; a pulse FIFO of 1 or 2 words is full at every word. The number of pilot pulses and the pause are 2 and 1
instead of 6000 and 2000: they are counters that are only decremented. No bound cuts the
behaviour: the tape starts over at its end, so the state space is finite by itself.

`PlaysOrStops` excludes executions in which a start has emptied a byte FIFO that was not empty
(`dropped`). After such a start the decoder may wait for ever for the rest of a block that the
reader has already passed; this is a limit of the code that no document denies, recorded as a hazard.

Fairness: weak fairness of the main loop, which the code calls without condition in an endless
loop, and of the logic's taking a word, which depends on its clock alone. No fairness of keys or of
the card. It matters to `PlaysOrStops` only. In `SnapshotLoader`: weak fairness of the task, which
never blocks but in a delay, of the Z80, which has its clock, and strong fairness of the loader
program's last instruction, because the program is finite. It matters to `OpenedSnapshotRuns` only.

In `MemBus`: weak fairness of the clock, and of each thing the slave owes: taking an address that is
offered, showing a beat or a response, and taking write data. The last is an assumption beyond AXI: the
bus master offers its data only after it has seen the slave ready (zx_addr_data_bus.vhd:162), so a slave
that waits for the data first would wait for ever. In `TapeLogic`: both clocks, and strong fairness
of an edge with a tick and a running Z80. In `VideoUpdate`: the clock. In `Video`: the
clock, the memory's taking addresses and showing beats, and the receiver's taking words. In `Keyboard`: the processing
of a report, which is one call; none for reports.

What these runs assume, with the place that owes it: `UpdatesShown` holds if frames end again and again, which is its
hypothesis and not fairness, because a burst that was cut may end them for good (zx_video.vhd:486, see 4), and
because two writes never come at two clocks in a row (else an update could be lost to the acknowledgement of the one
before, zx_video.vhd:399); `WholeSets` allows a part of a set to be taken over inside a call that overtakes an
earlier one not yet taken over (`Overtakes`), and says that it is to be replaced when that call ends;
`BorderComesBack` excludes a colour the Z80 changed after it was latched, when a call without the latch
bit comes next (zx_spectrum_display_ctrl.c:131); `PulsesInOrder` allows a lost word only after a word of length 0.

## 4. What the violations show

- `tape_last_header`: `zx_tape_routine` opens the file again as soon as its position is at the end
  (S/zx_spectrum_file_io/zx_tape.c:312). When the last block is only a header, the header's bytes
  may still wait for room in the byte FIFO then, and lines 319 to 321 forget them.
- `tape_select`: the same test is the only place where the selected path is used. After a stop in
  the middle of a tape, selecting another and starting plays the rest of the first, although
  zx_tape.h:20 says "Start playback for a selected file".
- `snapshot_boot`: S/speccy2021.c:39 to 42 set two fields of an uninitialised local variable and write
  it to the CPU control register. If the stack happens to have a one at the reset bit, the Z80
  stays in reset, and no program runs until a snapshot is loaded.

`SnapshotLoader` shows another flaw that no document denies: a load that fails to open its file leaves
the machine halted. Line 238 of zx_snapshot.c asks whether the Z80 is halted, and line 115 has just
halted it; the variable `stopped` of line 112, which remembers the state before, is not used there. And because the loader's copy of the register is zero until the
first load, the first write of that load asserts the restore input with address 0: the program that
was running is lost even when the file cannot be opened.

The other models show more of the kind:

- *Video.* Once a burst is given up with words to come, the picture may stop for good. The fetch
  goes through "error" or is reset by a flush while the memory still answers; each word that is offered is
  written to the FIFO selected at that time, taken or not (zx_video.vhd:307), so one FIFO fills up with words of
  the other; the fetch then waits for room in that FIFO, and the frames wait for words in the other. `FairSpec` in
  place of `WholeSpec` shows it in 20 steps. It is likely what issues.txt:8 reports: "Sometimes when changing
  resolution or scaling factor the controller stops producing the picture".
- *Tape input.* A word of length zero is taken twice, because the next edge sees the counter at zero and the FIFO
  output unchanged; the second read throws away a later word. `zx_tape.c` makes such words of a .tzx
  pulse of length 0 or 32768. The last word of a tape waits at the FIFO's output until another is sent.
- *Shell.* The loop of zx_shell.c:536 may never end. Leaving a directory that is not on the first screen of its
  parent makes it the first entry of the screen; from an odd start, whole columns never take an unsigned start to
  entry 0. From an even start it wraps around and ends after seconds. Enter in an empty directory acts on a
  record of the previous one, or on uninitialised memory (zx_shell.c:711). The Enter that loads a file and the F12 that
  closes the shell are also typed into the machine (zx_shell.c:760), and held keys act again with every report.

No property covers these, as the hazards in `PROJECT.json` say: the picture after a cut burst, a flush lost when a call
overtakes another, the Enter and F12 that are typed, and the memory that waits for write data first. The loss after a word of
length 0 is allowed by `PulsesInOrder`, which confines it to that case.

## 5. Proofs

A theorem holds for every value of the constants that satisfies the named assumptions beside their declarations:

- tape player: any file contents (bytes), any depths greater than zero, any loop stack, any number of pilot pulses
  greater than zero; byte FIFO: any size;
- `PeriodsAssumption`: the logic's clock is the faster one (7 against 10 ns in the design). With a slower
  one, a flag could be sampled after the answer, and an edge of a strobe could be missed;
- `RegistersAssumption`: the name that stands for "no register" is none; `WordsAssumption`: lengths of 15 bits, so none is above
  the idle value; `WrittenAssumption`: the two registers and flags that the tape task uses are there;
- `ShellAssumption`: the table and two columns are within the numbers of the type (10000 files against 2^32);
- `StreamAssumption`: a burst of at least two words, and FIFOs of whole bursts; `ScalesAssumption`: factors the three bits of
  the repeaters can count (1 to 7, as the driver's loop over `ZX_MAX_SCALING_FACTOR` finds for every mode it can set).

TLC evaluates these assumptions in every run. Each invariant below was checked by TLC on the instance of its run before it was proved.

- `TapeFifoProofs!TypeCorrect`: `TypeOK` is inductive.
- `TapeFifoProofs!IndicesConsistent`: `TypeOK /\ RingConsistent` is inductive: that
  `write_ptr` is `cntr` places after `read_ptr` needs both indices within the ring.
- `TapeFifoProofs!RingImplementsQueue`: with both, each step is a step of the queue. The lemmas say
  what `Stored` becomes when an index advances: a write appends, a read of n drops the n oldest.
- `TapePlayerProofs!Invariance`: `IInv`, the conjunction of `ControlOK`, `ReaderOK`, `FifoOK`,
  `DecoderOK` and `PulsesOK`, is inductive. It is stronger than `TypeOK` where the code depends on
  it: every byte in a header, in the FIFO or being sent is a place inside its file (otherwise
  `Value` means nothing), the file position is within the file, a saved loop position is one the
  reader has been at, the sizes of a parsed block are natural numbers with `lastbit` a byte, and
  when the full flag has just been seen clear (`pc = "decode"`) there is room for a word.
- `TapePlayerProofs!LineCarriesWholeBlocks`: `WholeBlocks` for any .tap files, keys and card failures. `OnlyTaps` is its hypothesis: no
  file with the .tzx signature, whose blocks may leave out any part, and a pause that is not zero. `LineInv` relates the last word
  on the line and its count to what the decoder has left of the block (`BlockRuns`): so many pilot pulses sent, so many still to
  send, and the same for half bits and pause. A stop touches none of these.
- `TapePlayerProofs!DecoderIsFed` and `CodesAreKnown`: `ReaderFeedsDecoder` and `HeaderCodesKnown` for well-formed tapes of any blocks and any sizes of
  the FIFOs and of the loop stack, selected once and played without stop or failure (`OneTape`; with any of these, bytes of two
  places may meet in the FIFO, see 4 and the hazards). The inductive invariant is `AgreeInv`: the reader is inside a block or at the
  start of one (`ReaderPlace`), the bytes in the FIFO are runs that follow on from each other, or start where a block starts
  (`FifoRuns`), the decoder is inside a block it has parsed from the same bytes (`DecoderPlace`), and the first byte it has not
  taken is the first one in flight (`Meets`). Both find the end of a block with `Parse`, so that `BlockEnd` is the same for both is a lemma on
  `Parse` (`Layout`). `WellFormed` asks the last block to have data if it is to be played at all: without
  that, the reader opens the file again while a header waits in front of the FIFO, which is what `tape_last_header` shows (see 4).
- `TapePlayerProofs!TypeCorrect` and `NoOverrun` follow from `Invariance`. `PulseFifoNeverOverrun` by itself
  is not inductive: it needs the last part of `PulsesOK`, that nothing but the logic, which only
  removes words, changes the pulse FIFO between the look at the flag and the write.

- `SnapshotLoaderProofs!Invariance`: `Inv` is inductive. Beside types it says that a halt is
  acknowledged only between two instructions and never during a reset, that from the first write on
  the loader's copy is the register, what the copy holds where `zx_cpu_modify_pc` relies on it, and
  that a page is read only while one is left.
- `SnapshotLoaderProofs!TypeCorrect` follows, with two lemmas on the orders of pages and banks, and so
  does `ForcedAtRest`: once `zx_cpu_modify_pc` has written an address, only one step asserts the restore input. The
  request to halt is then in the register with reset and restore released, so the Z80 has its clock until it is halted; the
  delay is longer than an instruction (`DelayEnds`, the assumption), and by `HaltGenerator`, a part of the
  invariant, the first start of an instruction after the request acknowledges it.

- `SnapshotLoaderProofs!ExecutesLoaded` needs much more, `LoadInv`: what the control register holds at each step and that
  the Z80 stands still from the first page read until the jump (`Running`); that the bank which comes next in the
  file is the one that belongs into the page which comes next in the order of the code, an arithmetic fact about
  both orders with any page at 0xC000 (`Reading`, with the lemma on `BanksBefore`); and which pages are in their
  place, torn or as before (`Contents`). `InPlace` for the whole file is what is left of it when no page is left.

- `MemBusProofs!Invariance`: `IInv` is inductive for any number of words, lanes and byte values. `Requesting` ties the
  request to the Z80's strobe and the bus master's state; `ReadPath` says which beats the slave owes in each state: at most
  one last beat of an earlier burst, then both beats of the present one, with the memory's bytes at the Z80's
  address; `WritePath` says where a write is between address, data, response and acknowledgement, and that its outcome
  is decided exactly once.
- `MemBusProofs!TypeCorrect` and `LateBeats` follow. `ImplementsAtomicMemory` is the refinement: every clock is a step of
  `AtomicMemory` or leaves its variables alone, a write being the clock at which the slave takes the data
  (`DataIsTheMoment`). That a late beat is never taken for the first of a burst is the heart of `ReadPath`: both slave and bus
  keep the order, and only a last beat can be left behind.

- `VideoUpdateProofs!Invariance`: `IInv` is inductive for any pages, modes and colours. `CallUnderWay` says what can be left
  of a call and that updates are off exactly inside one; `SetsWhole`, that the latched set is the committed one whenever
  updates are on, and that an immediate change that has not been overtaken waits with no call open; `NoPartStays`, that
  the active set is the committed one or about to be replaced, and that an acknowledgement is for what was taken
  over, which is owed to the pace of the writes (`wrote`); `BorderKept`, where
  the machine's colour is to be found: in the border register, or while the shell is open in the latched copy.
- `TypeCorrect`, `BorderIsTheMachines` and `TakesWholeSets` follow.

- `TapeLogicProofs!Invariance`: `IInv` is inductive. `WriteStages` follows the strobe of a write through the flip-flops of the
  crossing, with a bound on the time to the next edge of the fast clock at each stage; `ReadStages` does the
  same for a read, down to the moment at which the answer is taken; `PulseInv` says when a read of the FIFO may come too
  much; `WordHasRoom` carries the room that a clear full flag promises from the sample to the write. No part is
  inductive alone: that a stage cannot last longer is owed to the two clocks, and the room to the task's having no other write under way.
- `TypeCorrect`, `PlaysInOrder`, `NoOverflow`, `WritesDelivered` and `ReadsFresh` follow.
- `TapeLogicProofs!IsPulseQueue` is the refinement of `PulseQueue`, and `TapePlayerProofs!SendsIntoQueue` that `TapePlayer` keeps to
  the same queue from its side. `WordHasRoom` leaves at most one word on its way (`OnTheWayIs`), so each clock of the processor sends a
  word, sees room or only hands that word on, and each clock of the logic takes the oldest word or hands it on. The two
  models have different words (where a pulse comes from, how long it is), and only the queue is common to them.

- `KeyboardProofs!Invariance`: `IInv` is inductive. `Sound` says of every view that the code builds that the selection is in the
  table and on the screen, that the screen starts at a whole column unless leaving a directory placed it, and that the
  loop only hangs then; it is proved of each shell operation before the keys of a report are composed. Of the sort nothing is used. `Registers` relates the two registers to the keys handled so far, at each of the three steps of a report.
- `SelectionStays`, `HangsAfterLeaving` and `OneSide` follow.

- `KeyboardProofs!SortSorts`: `qsort` gives the records of its range in order, each of them once (`SortOf`), for every table and range.
  First the two recursive functions have to exist. The measure of `partition` is twice the distance of the scans, and one more in a pass
  that does not move them: such a pass exchanges two records that the next one moves over (`FirstMovesOver`), which needs
  that `comp_name` is total. That of `qsort` is the length of the range. `PartitionParts` is the pass invariant: what the left scan has
  passed belongs before the pivot, what the right scan has passed after it, and the pivot is the same record all along though its
  index moves. `HalvesSorted` puts the halves together; it needs that `comp_name` is transitive and that each half is
  only rearranged. Induction is by least counterexample (`LeastExists`), once on the measure for existence, once for the result.
- `TypesStay`, `TableStaysSorted` and `LeavingFinds` follow from it with `TInv`, which adds to `IInv` the types that it leaves out and, for
  `UniqueNames`, that the table has no name twice and is in order where `SortLimit` lets it be sorted (`Tidy`). Two
  files of one name would be in the table in either order, and leaving a directory would find the first: hence the hypothesis.

- `VideoProofs!Invariance`: `IInv` is inductive at any pace of the driver, the memory and the receiver, also after a burst was
  cut or a FIFO starved: `InOrder` is claimed only while `upset` is empty, and a flush that upsets nothing gives it back.
  `Fetching` says that the memory owes the burst of the word being fetched and nothing else; `HasPlace`, that its FIFO
  has a place for all of it, so no beat is lost; `InTurn`, that the pixels are ahead of the colours by exactly the
  beats of the present turn, with equal words before; `Numbered` gives each word of a frame its number and says that the pixels that wait
  follow on from what is drawn, frame after frame, which is why the first word of a frame has a multiple of the size of a frame as its number.
- `TypeCorrect`, `ColoursFit` and `TopFirst` follow, for `Spec`; the run's `WholeSpec` has fewer behaviours.

Only model-checked, and why:

- liveness under fairness, outside what the prover does: `PlaysOrStops`, `AlwaysAnswered`, `OpenedSnapshotRuns`, `GoesOn`, `UpdatesShown`,
  `PictureGoesOn`, `Releases`;
- `SignalIsTheTape`: the bytes of a tape and the signal they should give are defined from its list of blocks by recursion, in a module for TLC.
  That each byte reaches the decoder in its turn is `DecoderIsFed`, and what it makes of a block of a .tap file is `LineCarriesWholeBlocks`.

Every invariant and every action property that the passing runs check is a theorem, but for `SignalIsTheTape`.

## 6. Plan

What is left, in the order of importance:

1. An abstract specification of the snapshot loader, in which a load replaces memory and program counter at once, and of
   `Video` (one sequence of words that is drawn), with the refinements that the present invariants already contain.
2. The shadow page in `VideoStream`; attach, remove and enumeration of the USB host with its event queue.

## 7. Not modelled

- Pure output or numbers: drawing and text of the shell, sound, HDMI timing and clock generation, pixel addresses, colours
  and test pattern of the video controller, pulse lengths in `TapePlayer` (`TapeLogic` has lengths).
- Third-party or generated: FatFs, the T80 core, the AY core, the boot loader, TinyUSB with its EHCI driver. They are most of the lines
  of the repository, and the project models what their calls do to the modelled parts. The two hazards of the USB host
  are listed in `PROJECT.json` without a property.
- Combinational: port decoding, paging and clock division of zx_main_top.vhd. (The first two pages are ROM by
  their place only: nothing keeps the Z80 from writing there.)
- Video: the shadow page. A flush while the Z80 shows it starts the pixels without the page's offset
  (zx_video.vhd:496), and at the wrap the attributes leave their base one line early (zx_video.vhd:564). Neither brings the FIFOs out of step. Also
  `sw_enable`, the latency of the flags of the FIFOs, and the length of their reset.
- Snapshot loader: the register contents that the header restores, the TR-DOS flag and the interrupt state.
- Never called: `zx_tape_restart` (and the flag it sets is never read), `zx_shell_file_last_name` (always empty).

## 8. Running

`tlc -config TapePlay.cfg MCTapePlayer.tla` and likewise for the other runs of `PROJECT.json`;
`tlapm TapeFifoProofs.tla`, and likewise for the other seven modules of proofs. `video` takes some minutes, the others less.
