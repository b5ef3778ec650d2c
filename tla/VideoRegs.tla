----------------------------- MODULE VideoRegs -----------------------------
(***************************************************************************)
(* The registers of the video controller (zx_video.vhd, processes          *)
(* p_latching_registers and p_reg_copy_over) and the driver that writes    *)
(* them (zx_spectrum_display_ctrl.c).                                      *)
(*                                                                         *)
(* A register has a latched value, which the driver writes, and an active  *)
(* one, which makes the picture.  The driver switches update off, writes   *)
(* some registers and switches it on; the logic takes all latched values   *)
(* over at once, between two frames.  A step is one clock of the logic.    *)
(***************************************************************************)
EXTENDS Naturals, Sequences

CONSTANTS Pages,        \* pages of video memory the driver can show
          ZxPage,       \* the page of the emulated machine: EMULATOR_VDMA_AREA_OFFSET
          ShellPage,    \* ZX_SHELL_DEFAULT_PAGE
          Modes,        \* resolutions, each with the scaling factor it leads to
          ResetMode,    \* c_horizontal_resolution and the other generics
          Colours       \* of the border

ASSUME PagesAssumption == {ZxPage, ShellPage} \subseteq Pages
ASSUME ModesAssumption == ResetMode \in Modes
ASSUME ColoursAssumption == 0 \in Colours

VARIABLES
    latched,        \* s_bitmap_addr_1, s_color_addr_1, s_active_size_1, ...
    active,         \* s_bitmap_addr_2, ..., s_horizontal_resolution, ...
    pending, flush, \* s_reg_change_pending, s_fifo_flush_req
    regUpdate,      \* s_reg_update
    copyOver,       \* s_sm_reg_copy_over; s_reg_change_ack is high unless idle
    border, prevBorder, \* s_zx_border_color_1, s_prev_border_color
    todo,           \* the register writes left of the driver's present call
    store           \* control_reg_value.bits.latch_border_color

regsVars == <<latched, active, pending, flush, regUpdate, copyOver, border, prevBorder,
              todo, store>>

Addresses == {"bitmap_addr", "color_addr"}
Geometry == {"active_size", "border_size", "aux_attr"}
Register == Addresses \cup Geometry
Flushing == {"active_size", "aux_attr"}
Settings == {s \in [Register -> Pages \cup Modes] :
                \A r \in Register : s[r] \in IF r \in Addresses THEN Pages ELSE Modes}
When == {"immediate", "deferred"}

Data(reg, val) == [reg |-> reg, val |-> val]
Control(update, save) == [reg |-> "control", update |-> update, save |-> save]

RegWrites ==
    [reg : Addresses, val : Pages] \cup [reg : Geometry, val : Modes]
      \cup [reg : {"border_color"}, val : Colours]
      \cup [reg : {"control"}, update : BOOLEAN, save : BOOLEAN]

RegsTypeOK ==
    /\ latched \in Settings /\ active \in Settings
    /\ pending \in [When -> BOOLEAN] /\ flush \in [When -> BOOLEAN]
    /\ regUpdate \in BOOLEAN
    /\ copyOver \in {"idle", "copy", "end"}
    /\ border \in Colours /\ prevBorder \in Colours
    /\ todo \in Seq(RegWrites) /\ Len(todo) <= 5
    /\ store \in BOOLEAN

ResetSettings == [r \in Register |-> IF r \in Addresses THEN ZxPage ELSE ResetMode]

RegsInit ==
    /\ latched = ResetSettings /\ active = ResetSettings
    /\ pending = [w \in When |-> FALSE] /\ flush = [w \in When |-> FALSE]
    /\ regUpdate = TRUE /\ copyOver = "idle"
    /\ border = 0 /\ prevBorder = 0
    /\ todo = <<>> /\ store = FALSE

-----------------------------------------------------------------------------
(* The driver.  A call is the sequence of its register writes.             *)

Begins(save) == <<Control(FALSE, save)>>
Ends(save) == <<Control(TRUE, save)>>

zx_vdma_start_address_set(page, save) ==
    Begins(save) \o <<Data("bitmap_addr", page), Data("color_addr", page)>> \o Ends(save)

zx_resolution_set(mode) ==
    Begins(store)
      \o <<Data("active_size", mode), Data("border_size", mode), Data("aux_attr", mode)>>
      \o Ends(store)

zx_border_color_set(colour) == <<Data("border_color", colour)>>

SetMode(mode) ==
    /\ todo' = zx_resolution_set(mode)
    /\ UNCHANGED store

ShowPage(page, save, also) ==
    /\ todo' = zx_vdma_start_address_set(page, save) \o also
    /\ store' = save

-----------------------------------------------------------------------------
(* The registers.  sends: a write of the driver is delivered at this       *)
(* clock, which may be any number of clocks after the one before it.       *)

(* Written at once, or when update is switched on again. *)
Slot == IF regUpdate THEN "immediate" ELSE "deferred"

WritesDataAtOnce(w) ==      \* mutant: update is not looked at
    /\ latched' = [latched EXCEPT ![w.reg] = w.val]
    /\ pending' = [pending EXCEPT !["immediate"] = TRUE]
    /\ flush' = [flush EXCEPT !["immediate"] = @ \/ w.reg \in Flushing]
    /\ UNCHANGED <<regUpdate, prevBorder>>

WritesData(w) ==
    /\ latched' = [latched EXCEPT ![w.reg] = w.val]
    /\ pending' = [pending EXCEPT ![Slot] = TRUE]
    /\ flush' = [flush EXCEPT ![Slot] = @ \/ w.reg \in Flushing]
    /\ UNCHANGED <<regUpdate, prevBorder>>

(* A commit replaces what was immediate by what was deferred. *)
Commits(w) == w.reg = "control" /\ w.update /\ ~regUpdate
Replaced(bits) == [immediate |-> bits["deferred"], deferred |-> FALSE]

WritesControl(w) ==
    /\ pending' = IF Commits(w) THEN Replaced(pending) ELSE pending
    /\ flush' = IF Commits(w) THEN Replaced(flush) ELSE flush
    /\ regUpdate' = w.update
    /\ prevBorder' = IF w.save THEN border ELSE prevBorder
    /\ UNCHANGED latched

AcknowledgesAll ==          \* mutant: deferred flags are cleared as well
    /\ LET done == copyOver # "idle" /\ pending["immediate"]
       IN  /\ pending' = [w \in When |-> pending[w] /\ ~done]
           /\ flush' = [w \in When |-> flush[w] /\ ~done]
    /\ UNCHANGED <<latched, regUpdate, prevBorder>>

Acknowledged ==
    /\ LET done == copyOver # "idle" /\ pending["immediate"]
       IN  /\ pending' = [pending EXCEPT !["immediate"] = @ /\ ~done]
           /\ flush' = [flush EXCEPT !["immediate"] = @ /\ ~done]
    /\ UNCHANGED <<latched, regUpdate, prevBorder>>

BorderWrittenByAll(w) ==    \* mutant: any register but one sets the border
    IF w.reg # "control" THEN w.val ELSE IF w.save THEN border ELSE prevBorder

(* What the border becomes when the Z80 does not write it. *)
BorderWritten(w) ==
    IF w.reg = "border_color" THEN w.val
    ELSE IF w.reg = "control" /\ ~w.save THEN prevBorder ELSE border

LatchRegisters(sends) ==
    IF sends
    THEN LET w == Head(todo)
         IN  \/ w.reg \in Register /\ WritesData(w)
             \/ w.reg = "control" /\ WritesControl(w)
             \/ w.reg = "border_color" /\ UNCHANGED <<latched, pending, flush, regUpdate, prevBorder>>
    ELSE Acknowledged

(* The strobe of the Z80 wins over a register write at the same clock. *)
BorderRegister(sends, strobes, colour) ==
    border' = IF strobes THEN colour
              ELSE IF sends THEN BorderWritten(Head(todo)) ELSE border

CopyStarts(vsIdle) == copyOver = "idle" /\ vsIdle /\ pending["immediate"]

CopyRegisters(vsIdle) ==
    /\ active' = IF CopyStarts(vsIdle) THEN latched ELSE active
    /\ copyOver' = IF CopyStarts(vsIdle) THEN "copy"
                   ELSE IF copyOver = "copy" THEN "end" ELSE "idle"

Sending(sends) ==
    /\ sends /\ todo # <<>>
    /\ todo' = Tail(todo)
    /\ UNCHANGED store

Resting(sends) == ~sends /\ UNCHANGED <<todo, store>>

(* vsIdle: the picture is between two frames.                              *)
RegsClock(sends, vsIdle, strobes, colour) ==
    /\ LatchRegisters(sends)
    /\ BorderRegister(sends, strobes, colour)
    /\ CopyRegisters(vsIdle)

=============================================================================
