---------------------------- MODULE VideoStream ----------------------------
(***************************************************************************)
(* The path of the picture in zx_video.vhd: the process p_amba_fsm that    *)
(* fetches scan lines, in turn one of pixels and one of colour attributes, *)
(* the two FIFOs it fills, and the processes p_color_gen and p_mm2s_fsm    *)
(* that empty both together, word by word, to draw frames.                 *)
(* A word of a FIFO is the scan line it was fetched for and the repetition *)
(* of that line.  Operators describe one clock; scale is the active        *)
(* scaling factor, flushed the immediate flush request.                    *)
(***************************************************************************)
EXTENDS Naturals, Sequences

CONSTANTS Lines,        \* c_zx_spec_v_resolution: 192
          Beats,        \* words in a burst, which is one scan line: 4
          Depth,        \* of a FIFO: 512
          Repeats       \* values of a repeater, which has three bits: 8

ASSUME StreamAssumption ==
    /\ Lines \in Nat \ {0} /\ Beats \in Nat \ {0, 1}
    /\ Depth \in Nat \ {0} /\ Depth % Beats = 0 /\ Repeats \in Nat \ {0}

VARIABLES
    amba,       \* s_state_amba; arvalid and rready follow from it
    selector,   \* s_pixel_attr_selector
    line,       \* scan lines from s_ram_bitmap_data_address to s_pixel_address; attributes'
    repeater,   \* s_amba_pixel_repeater, s_amba_color_attr_repeater
    fifo,       \* i_pixel_data_fifo, i_color_attr_fifo
    owed,       \* bursts the memory owes: the word and the beats left
    rvalid,     \* i_axi_mm2s_rvalid: the first of them is offered
    vs,         \* s_sm_videostream; s_vs_eol is part of "streaming"
    drawn,      \* words drawn of this frame
    upset       \* history: what has brought the FIFOs out of step

streamVars == <<amba, selector, line, repeater, fifo, owed, rvalid, vs, drawn, upset>>

Source == {"pixels", "attributes"}
Other == [pixels |-> "attributes", attributes |-> "pixels"]
AmbaStates == {"idle", "set_addr", "wait_addr_ack", "wait_data_start", "read", "error", "done"}
FifoWord == [line : 0 .. Lines - 1, rep : 0 .. Repeats - 1]
Burst == [word : FifoWord, left : 1 .. Beats]
MaxOwed == 2    \* bursts the memory accepts

StreamTypeOK ==
    /\ amba \in AmbaStates /\ selector \in Source
    /\ line \in [Source -> 0 .. Lines - 1]
    /\ repeater \in [Source -> 0 .. Repeats - 1]
    /\ fifo \in [Source -> Seq(FifoWord)] /\ \A s \in Source : Len(fifo[s]) <= Depth
    /\ owed \in Seq(Burst) /\ Len(owed) <= MaxOwed
    /\ rvalid \in BOOLEAN
    /\ vs \in {"idle", "streaming"}
    /\ drawn \in Nat
    /\ upset \subseteq {"cut", "starved", "dropped", "torn"}

StreamInit ==
    /\ amba = "idle" /\ selector = "pixels"
    /\ line = [s \in Source |-> 0] /\ repeater = [s \in Source |-> 0]
    /\ fifo = [s \in Source |-> <<>>]
    /\ owed = <<>> /\ rvalid = FALSE
    /\ vs = "idle" /\ drawn = 0 /\ upset = {}

(* The FIFOs ask for no more when a whole burst would not fit. *)
ProgFull(s) == Len(fifo[s]) > Depth - Beats

-----------------------------------------------------------------------------
(* The memory answers in order, at any pace; a slow one leaves a gap       *)
(* between the beats of a burst.                                           *)

RReady == amba \in {"wait_data_start", "read", "error", "done"}
RLast == rvalid /\ Head(owed).left = 1
ArAccepted(ar) == ar /\ amba = "wait_addr_ack" /\ Len(owed) < MaxOwed

Memory(ar) ==
    LET first == Head(owed)
        rest == IF ~(rvalid /\ RReady) THEN owed
                ELSE IF first.left = 1 THEN Tail(owed)
                ELSE <<[first EXCEPT !.left = @ - 1]>> \o Tail(owed)
        burst == [word |-> [line |-> line[selector], rep |-> repeater[selector]], left |-> Beats]
    IN  /\ owed' = IF ArAccepted(ar) THEN Append(rest, burst) ELSE rest
        /\ rvalid' \in BOOLEAN
        /\ rvalid' => owed' # <<>>
        /\ rvalid /\ ~RReady => rvalid'

-----------------------------------------------------------------------------
(* The fetch.                                                              *)

(* The repeaters have three bits, and a scan line is fetched scale times.  *)
Repeated(s, scale) == (repeater[s] + 1) % Repeats = scale % Repeats
NextLineLate(s) == IF line[s] = Lines THEN 0 ELSE line[s] + 1   \* mutant: one line more

NextLine(s) == IF line[s] + 1 = Lines THEN 0 ELSE line[s] + 1

FetchDone(scale) ==
    /\ repeater' = [repeater EXCEPT ![selector] =
                        IF Repeated(selector, scale) THEN 0 ELSE (@ + 1) % Repeats]
    /\ line' = [line EXCEPT ![selector] = IF Repeated(selector, scale) THEN NextLine(selector) ELSE @]
    /\ selector' = Other[selector]

HasRoomInBoth == \A s \in Source : ~ProgFull(s)     \* mutant: the other FIFO is looked at too

HasRoom == ~ProgFull(selector)

FetchTo(next) == amba' = next /\ UNCHANGED <<selector, line, repeater>>

Fetch(ar, scale) ==
    \/ amba = "idle" /\ FetchTo(IF HasRoom THEN "set_addr" ELSE "idle")
    \/ amba = "set_addr" /\ FetchTo("wait_addr_ack")
    \/ amba = "wait_addr_ack" /\ FetchTo(IF ArAccepted(ar) THEN "wait_data_start" ELSE amba)
    \/ amba = "wait_data_start" /\ FetchTo(IF rvalid /\ ~RLast THEN "read" ELSE amba)
    \/ amba = "read" /\ FetchTo(IF ~rvalid THEN "error" ELSE IF RLast THEN "done" ELSE "read")
    \/ amba = "error" /\ FetchTo("idle")
    \/ amba = "done" /\ amba' = "idle" /\ FetchDone(scale)

FetchResetHalf ==           \* mutant: one repeater is not reset
    /\ amba' = "idle" /\ selector' = "pixels"
    /\ line' = [s \in Source |-> 0]
    /\ repeater' = [repeater EXCEPT !["pixels"] = 0]

FetchResetRunsOn ==         \* mutant: the addresses are not reset
    /\ amba' = "idle" /\ selector' = "pixels"
    /\ repeater' = [s \in Source |-> 0]
    /\ UNCHANGED line

(* Both sources start over.  (While the Z80 shows the shadow page of a     *)
(* 128K machine the first pixel address lacks its offset; this model has   *)
(* one page.)                                                              *)
FetchReset ==
    /\ amba' = "idle" /\ selector' = "pixels"
    /\ line' = [s \in Source |-> 0]
    /\ repeater' = [s \in Source |-> 0]

-----------------------------------------------------------------------------
(* The FIFOs.  A beat is written whenever it is offered, taken or not.     *)

Writes(s) == rvalid /\ selector = s

Fifos(flushed, draws) ==
    fifo' = [s \in Source |->
        LET rest == IF draws /\ fifo[s] # <<>> THEN Tail(fifo[s]) ELSE fifo[s]
        IN  IF flushed THEN <<>>
            ELSE IF Writes(s) /\ Len(fifo[s]) < Depth THEN Append(rest, Head(owed).word)
            ELSE rest]

-----------------------------------------------------------------------------
(* The frames.                                                             *)

FrameWords(scale) == Lines * Beats * scale

Starts(ready, changing) ==
    vs = "idle" /\ ready /\ ProgFull("pixels") /\ ProgFull("attributes") /\ ~changing

Draws(ready) == vs = "streaming" /\ ready

Frames(ready, changing, scale) ==
    /\ vs' = IF Starts(ready, changing) THEN "streaming"
             ELSE IF Draws(ready) /\ drawn + 1 = FrameWords(scale) THEN "idle" ELSE vs
    /\ drawn' = IF Starts(ready, changing) THEN 0
                ELSE IF Draws(ready) /\ vs' = "streaming" THEN drawn + 1
                ELSE IF Draws(ready) THEN 0 ELSE drawn

(* What may bring the FIFOs out of step with each other or with the frame: *)
(* a fetch that is given up with beats to come, a FIFO that is read when   *)
(* it is empty, a flush that ends before the frame does, and a new scaling *)
(* factor that comes without a flush.  A flush mends what came before it.  *)
Upsets(flushed, ready, rescaled) ==
    LET cut == amba' = "error" \/ (amba' = "idle" /\ owed' # <<>>)
        starved == Draws(ready) /\ \E s \in Source : fifo[s] = <<>>
    IN  upset' = IF flushed
                 THEN {u \in {"cut", "dropped"} :
                          IF u = "cut" THEN cut ELSE vs' = "streaming"}
                 ELSE upset \cup {u \in {"cut", "starved", "torn"} :
                          CASE u = "cut" -> cut
                            [] u = "starved" -> starved
                            [] u = "torn" -> rescaled}

StreamClock(ar, ready, flushed, changing, scale, rescaled) ==
    /\ Memory(ar)
    /\ IF flushed THEN FetchReset ELSE Fetch(ar, scale)
    /\ Fifos(flushed, Draws(ready))
    /\ Frames(ready, changing, scale)
    /\ Upsets(flushed, ready, rescaled)

=============================================================================
