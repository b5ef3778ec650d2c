---------------------------- MODULE VideoUpdate ----------------------------
(***************************************************************************)
(* The users of the display driver (display_ctrl.c, speccy2021.c and the   *)
(* shell), the registers they write and the border colour they share with  *)
(* the Z80.  Of the picture there is only whether it is between two        *)
(* frames.  Nothing here makes a frame end: whether it does is a matter of *)
(* Video, where a burst cut short may stop the picture for good.           *)
(***************************************************************************)
EXTENDS VideoRegs

VARIABLES
    vsIdle,     \* s_sm_videostream = s_vs_idle
    shell,      \* zx_shell_active
    wrote,      \* a write was delivered at the last clock
    committed,  \* history: the set the driver has committed last
    late,       \* history: a call began when a commit had not been taken over
    machine,    \* history: the colour the Z80 has asked for last
    since       \* history: whether it has been latched since, or overwritten

vars == <<regsVars, vsIdle, shell, wrote, committed, late, machine, since>>

TypeOK ==
    /\ RegsTypeOK
    /\ vsIdle \in BOOLEAN /\ shell \in BOOLEAN /\ wrote \in BOOLEAN
    /\ committed \in Settings /\ late \in BOOLEAN
    /\ machine \in Colours /\ since \in {"latched", "changed", "lost"}

Init ==
    /\ RegsInit
    /\ vsIdle = TRUE /\ shell = FALSE /\ wrote = FALSE
    /\ committed = ResetSettings /\ late = FALSE
    /\ machine = 0 /\ since = "latched"

(* The shell shows its page and makes the border black; the machine's page *)
(* comes back with the border that was latched.                            *)
OpenShellBlackFirst ==      \* mutant: the border is black before it is latched
    /\ ~shell /\ shell' = TRUE
    /\ todo' = zx_border_color_set(0) \o zx_vdma_start_address_set(ShellPage, TRUE)
    /\ store' = TRUE

OpenShell ==
    /\ ~shell /\ shell' = TRUE
    /\ ShowPage(ShellPage, TRUE, zx_border_color_set(0))

CloseShell ==
    /\ shell /\ shell' = FALSE
    /\ ShowPage(ZxPage, FALSE, <<>>)

DisplayStart ==
    /\ ~shell /\ UNCHANGED shell
    /\ \/ \E mode \in Modes : SetMode(mode)
       \/ ShowPage(ZxPage, TRUE, <<>>)

Calls ==
    /\ todo = <<>>
    /\ OpenShell \/ CloseShell \/ DisplayStart
    /\ late' = pending["immediate"]

(* A write takes several clocks to arrive (RegisterPort): there is none at *)
(* the clock after one.                                                    *)
Driver(sends) ==
    \/ Sending(sends) /\ ~wrote /\ UNCHANGED <<shell, late>>
    \/ Resting(sends) /\ UNCHANGED <<shell, late>>
    \/ ~sends /\ Calls

SendsControl(sends, save) == sends /\ Head(todo).reg = "control" /\ Head(todo).save = save

Histories(sends, strobes, colour) ==
    /\ committed' = IF sends /\ Commits(Head(todo)) THEN latched ELSE committed
    /\ machine' = IF strobes THEN colour ELSE machine
    /\ since' = IF strobes /\ (colour # machine \/ since = "lost") THEN "changed"
                ELSE IF ~strobes /\ since = "changed" /\ SendsControl(sends, FALSE) THEN "lost"
                ELSE IF ~strobes /\ since = "changed" /\ SendsControl(sends, TRUE) THEN "latched"
                ELSE since

Clock(sends, strobes, colour) ==
    /\ Driver(sends) /\ wrote' = sends
    /\ RegsClock(sends, vsIdle, strobes, colour)
    /\ Histories(sends, strobes, colour)
    /\ vsIdle' \in BOOLEAN
    /\ vsIdle /\ pending["immediate"] => vsIdle'

Next == \E sends, strobes \in BOOLEAN, colour \in Colours : Clock(sends, strobes, colour)

(* The clock never stops. *)
Ticks == Clock(FALSE, FALSE, border) /\ UNCHANGED todo
Spec == Init /\ [][Next]_vars
FairSpec == Spec /\ WF_vars(Ticks)

-----------------------------------------------------------------------------
(* A call overtakes the one before when it begins while the commit of that *)
(* one waits for the end of a frame.  A frame that ends in the middle of   *)
(* the overtaking call takes over a part of its writes, for there is only  *)
(* one latched set (zx_video.vhd:381).                                     *)
Overtakes == late /\ ~regUpdate

(* What the logic takes over is the set that the driver committed last and *)
(* nothing of a call under way, except in the middle of an overtaking      *)
(* call; and a part that was taken over then does not stay: at the end of  *)
(* that call its whole set is waiting to replace it.                       *)
WholeSets ==
    [][/\ active' # active => active' = committed \/ Overtakes
       /\ active # committed => pending["immediate"] \/ Overtakes]_vars

(* When the driver rests and the shell is closed, the border has the       *)
(* colour the Z80 asked for last: neither the black border of the shell    *)
(* nor the two control writes of every call lose it.  It is lost only when *)
(* the Z80 had changed it after it was latched and a call without the      *)
(* latch bit came next (zx_spectrum_display_ctrl.c:131).                   *)
BorderComesBack == ~shell /\ todo = <<>> /\ since # "lost" => border = machine

(* Once the driver rests, what it wrote last makes the picture, if the     *)
(* picture comes to the end of a frame again and again: no pending flag is *)
(* cleared for values that were not taken over.  This is owed to the pace  *)
(* of the writes: a value written and committed in two clocks in a row     *)
(* could be lost to an acknowledgement (zx_video.vhd:399).  That frames    *)
(* end is a condition and no fairness of the logic: after a burst that was *)
(* cut short they may not (zx_video.vhd:486), and nothing is promised.     *)
UpdatesShown == []<>vsIdle /\ <>[](todo = <<>>) => <>[](active = latched)

=============================================================================
