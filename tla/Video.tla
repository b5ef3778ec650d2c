------------------------------- MODULE Video -------------------------------
(***************************************************************************)
(* The video controller and its driver: the registers of VideoRegs decide  *)
(* when the fetch and the frames of VideoStream start over and with which  *)
(* scaling factor, and take over new values between two frames.            *)
(***************************************************************************)
EXTENDS VideoRegs, VideoStream

(* The factors the driver chooses between (ZX_MAX_SCALING_FACTOR is 7) and *)
(* the repeaters have the same three bits.                                 *)
ASSUME ScalesAssumption == Modes \subseteq 1 .. Repeats - 1

vars == <<regsVars, streamVars>>

TypeOK == RegsTypeOK /\ StreamTypeOK

Init == RegsInit /\ StreamInit

(* What starts the display: a new mode, or the page again. *)
Calls == todo = <<>> /\ (ShowPage(ZxPage, TRUE, <<>>) \/ \E mode \in Modes : SetMode(mode))

Driver(sends) == Sending(sends) \/ Resting(sends) \/ (~sends /\ Calls)

Clock(sends, ar, ready) ==
    /\ Driver(sends)
    /\ RegsClock(sends, vs = "idle", FALSE, border)
    /\ StreamClock(ar, ready, flush["immediate"], pending["immediate"],
                   active["aux_attr"], active'["aux_attr"] # active["aux_attr"])

(* The ready signals matter only while they are waited for. *)
MayAccept == IF amba = "wait_addr_ack" /\ Len(owed) < MaxOwed THEN BOOLEAN ELSE {FALSE}
MayDraw == IF vs = "streaming" \/ (ProgFull("pixels") /\ ProgFull("attributes")) THEN BOOLEAN ELSE {FALSE}

Next == \E sends \in BOOLEAN, ar \in MayAccept, ready \in MayDraw : Clock(sends, ar, ready)

(* The clock never stops, the memory takes addresses and shows the beats   *)
(* it owes, the receiver of the picture is ready again and again, and a    *)
(* call of the driver ends.                                                *)
Ticks == \E ar \in MayAccept, ready \in MayDraw : Clock(FALSE, ar, ready) /\ UNCHANGED todo
TakesAddress ==
    TRUE \in MayAccept /\ \E sends \in BOOLEAN, ready \in MayDraw : Clock(sends, TRUE, ready)
ShowsBeat == Next /\ rvalid'
TakesWord ==
    TRUE \in MayDraw /\ \E sends \in BOOLEAN, ar \in MayAccept : Clock(sends, ar, TRUE)

Fairness == WF_vars(Ticks) /\ WF_vars(TakesAddress) /\ WF_vars(ShowsBeat) /\ WF_vars(TakesWord)
Spec == Init /\ [][Next]_vars
FairSpec == Spec /\ Fairness

(* Followed until a burst is cut, which no flush mends, or a FIFO starves. *)
Whole == upset \cap {"cut", "starved"} = {}
WholeSpec == Init /\ [][Whole /\ Next]_vars /\ Fairness

-----------------------------------------------------------------------------
(* A word of pixels is drawn with the colours of its own scan line and of  *)
(* its own repetition, as long as nothing has upset the FIFOs: the fetch   *)
(* fills them in turn and they are emptied together (zx_video.vhd:307).    *)
InStep ==
    upset = {} /\ (\A s \in Source : fifo[s] # <<>>) =>
        Head(fifo["pixels"]) = Head(fifo["attributes"])

(* A frame begins with the first scan line, before and after every change  *)
(* of the scaling factor: what the fetch has ahead of a frame is dropped   *)
(* when the frame it was fetched for is (zx_video.vhd:351).                *)
FromTheTop ==
    [][vs = "idle" /\ vs' = "streaming" /\ upset' = {} =>
        Head(fifo'["pixels"]) = [line |-> 0, rep |-> 0]]_vars

(* Frames go on for ever once the driver rests, if no burst was given up   *)
(* and no FIFO ran empty: neither the fetch nor the frames wait for a FIFO *)
(* the other will never change (issues.txt:5).                             *)
PictureGoesOn ==
    <>[](todo = <<>> /\ Whole) => []<>(vs = "streaming")

=============================================================================
