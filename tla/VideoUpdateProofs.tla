-------------------------- MODULE VideoUpdateProofs --------------------------
(***************************************************************************)
(* That the picture is made with half of a register set only in the middle *)
(* of a call that has overtaken another, and that the border of the        *)
(* machine comes back after the shell, for all pages, modes and colours.   *)
(* Both rest on the shape of what the driver has still to                  *)
(* write: a call is opened, writes data, and is committed.                 *)
(***************************************************************************)
EXTENDS VideoUpdate, SequenceTheorems, TLAPS

Opens(w) == w.reg = "control" /\ ~w.update
Closes(w) == w.reg = "control" /\ w.update
Colouring(w) == w.reg = "border_color"

Follows(v, w) ==
    \/ Opens(v) /\ w.reg \in Register
    \/ v.reg \in Register /\ (w.reg \in Register \/ Closes(w))
    \/ Closes(v) /\ Colouring(w)

(* A part of a call, up to its end. *)
Shape(t) ==
    /\ \A n \in 1 .. Len(t) - 1 : Follows(t[n], t[n + 1])
    /\ Len(t) > 0 => Closes(t[Len(t)]) \/ Colouring(t[Len(t)])

Saves(t) == \A n \in 1 .. Len(t) : t[n].reg = "control" => t[n].save
Colourless(t) == \A n \in 1 .. Len(t) : ~Colouring(t[n])

(* What is left to write, and whether updates are switched on. *)
CallUnderWay ==
    /\ Shape(todo)
    /\ regUpdate => todo = <<>> \/ Opens(todo[1]) \/ Colouring(todo[1])
    /\ ~regUpdate => todo # <<>> /\ (todo[1].reg \in Register \/ Closes(todo[1]))

(* Between two calls the registers hold what was committed; a call that    *)
(* has overtaken no commit finds none waiting; and a call that is about to *)
(* be committed has written something.                                     *)
SetsWhole ==
    /\ regUpdate => latched = committed
    /\ pending["immediate"] /\ ~late =>
         regUpdate /\ (todo = <<>> \/ Colouring(todo[1]))
    /\ ~regUpdate => pending["deferred"] \/ todo[1].reg \in Register

(* What makes the picture is what was committed, or is about to be         *)
(* replaced; and an acknowledgement is for what was taken over, because no *)
(* two writes arrive at successive clocks.                                 *)
NoPartStays ==
    /\ active # committed => pending["immediate"] \/ Overtakes
    /\ copyOver = "copy" => active = latched \/ (wrote /\ ~regUpdate)
    /\ copyOver = "end" /\ pending["immediate"] =>
         wrote /\ (active = committed \/ Overtakes)

(* The border is the machine's unless the shell has made it black, and has *)
(* been saved unless the machine has changed it since.                     *)
Black ==
    \/ shell /\ todo = <<>>
    \/ ~shell /\ todo # <<>> /\ Opens(todo[1]) /\ ~todo[1].save

BorderKept ==
    /\ shell => Saves(todo)
    /\ ~shell => Colourless(todo)
    /\ since = "latched" => prevBorder = machine
    /\ since # "lost" /\ ~Black => border = machine

IInv == TypeOK /\ CallUnderWay /\ SetsWhole /\ NoPartStays /\ BorderKept

-----------------------------------------------------------------------------
(* The writes left.                                                        *)

LEMMA Writes ==
  ASSUME NEW w \in RegWrites
  PROVE  /\ w.reg \in Register \cup {"border_color", "control"}
         /\ w.reg = "control" => w.update \in BOOLEAN /\ w.save \in BOOLEAN
         /\ w.reg = "border_color" => w.val \in Colours
         /\ w.reg \in Addresses => w.val \in Pages
         /\ w.reg \in Geometry => w.val \in Modes
  BY DEF RegWrites, Register, Addresses, Geometry

LEMMA TailOfCall ==
  ASSUME NEW t \in Seq(RegWrites), t # <<>>, Shape(t)
  PROVE  /\ Tail(t) \in Seq(RegWrites) /\ Len(Tail(t)) = Len(t) - 1 /\ Head(t) = t[1]
         /\ t[1] \in RegWrites
         /\ Shape(Tail(t))
         /\ Tail(t) # <<>> => Follows(t[1], Tail(t)[1])
         /\ Tail(t) = <<>> => Closes(t[1]) \/ Colouring(t[1])
         /\ Saves(t) => Saves(Tail(t))
         /\ Colourless(t) => Colourless(Tail(t))
<1>1. /\ Tail(t) \in Seq(RegWrites) /\ Len(Tail(t)) = Len(t) - 1 /\ Head(t) = t[1]
      /\ Len(t) \in Nat /\ Len(t) > 0 /\ t[1] \in RegWrites
      /\ \A n \in 1 .. Len(Tail(t)) : Tail(t)[n] = t[n + 1]
  BY HeadTailProperties, ElementOfSeq, LenProperties
<1>2. Tail(t) = <<>> <=> Len(t) = 1
  BY <1>1, EmptySeq
<1>3. \A n \in 1 .. Len(Tail(t)) - 1 : Follows(Tail(t)[n], Tail(t)[n + 1])
  <2> TAKE n \in 1 .. Len(Tail(t)) - 1
  <2>1. n \in 1 .. Len(Tail(t)) /\ n + 1 \in 1 .. Len(Tail(t)) /\ n + 1 \in 1 .. Len(t) - 1
    BY <1>1
  <2> QED
    BY <1>1, <2>1 DEF Shape
<1>4. Len(Tail(t)) > 0 => Tail(t)[Len(Tail(t))] = t[Len(t)]
  BY <1>1
<1>5. Tail(t) # <<>> => Follows(t[1], Tail(t)[1])
  <2> SUFFICES ASSUME Tail(t) # <<>> PROVE Follows(t[1], Tail(t)[1])
    OBVIOUS
  <2>1. 1 \in 1 .. Len(t) - 1 /\ Tail(t)[1] = t[1 + 1]
    BY <1>1, <1>2
  <2> QED
    BY <2>1 DEF Shape
<1>6. Tail(t) = <<>> => Closes(t[1]) \/ Colouring(t[1])
  BY <1>1, <1>2 DEF Shape
<1>7. (Saves(t) => Saves(Tail(t))) /\ (Colourless(t) => Colourless(Tail(t)))
  BY <1>1 DEF Saves, Colourless
<1> QED
  BY <1>1, <1>3, <1>4, <1>5, <1>6, <1>7 DEF Shape

(* The elements of a call, and of one that sets the border at its end. *)
LEMMA FourJoined ==
  ASSUME NEW S, NEW a \in S, NEW b \in S, NEW c \in S, NEW d \in S
  PROVE  <<a>> \o <<b, c>> \o <<d>> = <<a, b, c, d>>
<1> DEFINE s == <<a, b, c, d>>
           t == <<a>> \o <<b, c>> \o <<d>>
<1>1. s \in Seq(S) /\ Len(s) = 4 /\ t \in Seq(S) /\ Len(t) = 4
  BY ConcatProperties
<1>2. t[1] = a /\ t[2] = b /\ t[3] = c /\ t[4] = d
  OBVIOUS
<1>3. \A n \in 1 .. Len(t) : t[n] = s[n]
  <2>1. \A n \in 1 .. 4 : n = 1 \/ n = 2 \/ n = 3 \/ n = 4
    OBVIOUS
  <2> QED
    BY <1>1, <1>2, <2>1
<1> HIDE DEF s, t
<1>4. t = s
  BY <1>1, <1>3, SeqEqual
<1> QED
  BY <1>4 DEF s, t

LEMMA FiveJoined ==
  ASSUME NEW S, NEW a \in S, NEW b \in S, NEW c \in S, NEW d \in S, NEW e \in S
  PROVE  <<a>> \o <<b, c, d>> \o <<e>> = <<a, b, c, d, e>>
<1> DEFINE s == <<a, b, c, d, e>>
           t == <<a>> \o <<b, c, d>> \o <<e>>
<1>1. s \in Seq(S) /\ Len(s) = 5 /\ t \in Seq(S) /\ Len(t) = 5
  BY ConcatProperties
<1>2. t[1] = a /\ t[2] = b /\ t[3] = c /\ t[4] = d /\ t[5] = e
  OBVIOUS
<1>3. \A n \in 1 .. Len(t) : t[n] = s[n]
  <2>1. \A n \in 1 .. 5 : n = 1 \/ n = 2 \/ n = 3 \/ n = 4 \/ n = 5
    OBVIOUS
  <2> QED
    BY <1>1, <1>2, <2>1
<1> HIDE DEF s, t
<1>4. t = s
  BY <1>1, <1>3, SeqEqual
<1> QED
  BY <1>4 DEF s, t

LEMMA OneJoined ==
  ASSUME NEW S, NEW a \in S, NEW b \in S, NEW c \in S, NEW d \in S, NEW e \in S
  PROVE  <<a, b, c, d>> \o <<e>> = <<a, b, c, d, e>>
<1> DEFINE s == <<a, b, c, d, e>>
           t == <<a, b, c, d>> \o <<e>>
<1>1. s \in Seq(S) /\ Len(s) = 5 /\ t \in Seq(S) /\ Len(t) = 5
  BY ConcatProperties
<1>2. t[1] = a /\ t[2] = b /\ t[3] = c /\ t[4] = d /\ t[5] = e
  OBVIOUS
<1>3. \A n \in 1 .. Len(t) : t[n] = s[n]
  <2>1. \A n \in 1 .. 5 : n = 1 \/ n = 2 \/ n = 3 \/ n = 4 \/ n = 5
    OBVIOUS
  <2> QED
    BY <1>1, <1>2, <2>1
<1> HIDE DEF s, t
<1>4. t = s
  BY <1>1, <1>3, SeqEqual
<1> QED
  BY <1>4 DEF s, t

(* What every call of the driver is when it begins. *)
Fresh(t, save) ==
    /\ t \in Seq(RegWrites) /\ Len(t) <= 5 /\ t # <<>>
    /\ Shape(t) /\ Opens(t[1]) /\ t[1].save = save

LEMMA WritesOfCall ==
  ASSUME NEW update \in BOOLEAN, NEW save \in BOOLEAN
  PROVE  /\ Control(update, save) \in RegWrites
         /\ \A r \in Addresses, p \in Pages : Data(r, p) \in RegWrites
         /\ \A r \in Geometry, m \in Modes : Data(r, m) \in RegWrites
         /\ \A c \in Colours : Data("border_color", c) \in RegWrites
  BY DEF Control, Data, RegWrites

LEMMA FreshAddresses ==
  ASSUME NEW page \in Pages, NEW save \in BOOLEAN
  PROVE  LET t == zx_vdma_start_address_set(page, save)
             u == t \o zx_border_color_set(0)
         IN  /\ Fresh(t \o <<>>, save) /\ Colourless(t \o <<>>)
             /\ Fresh(u, save) /\ (save => Saves(u))
<1> DEFINE a == Control(FALSE, save)
           b == Data("bitmap_addr", page)
           c == Data("color_addr", page)
           d == Control(TRUE, save)
           e == Data("border_color", 0)
           s4 == <<a, b, c, d>>
           s5 == <<a, b, c, d, e>>
<1>1. /\ a \in RegWrites /\ b \in RegWrites /\ c \in RegWrites /\ d \in RegWrites
      /\ e \in RegWrites
  BY WritesOfCall, ColoursAssumption DEF Addresses
<1>2. /\ zx_vdma_start_address_set(page, save) \o <<>> = s4
      /\ zx_vdma_start_address_set(page, save) \o zx_border_color_set(0) = s5
  <2>1. zx_vdma_start_address_set(page, save) = <<a>> \o <<b, c>> \o <<d>>
    BY DEF zx_vdma_start_address_set, Begins, Ends
  <2>2. zx_border_color_set(0) = <<e>>
    BY DEF zx_border_color_set
  <2> HIDE DEF a, b, c, d, e
  <2>3. <<a>> \o <<b, c>> \o <<d>> = s4
    BY <1>1, FourJoined
  <2>4. s4 \o <<e>> = s5
    BY <1>1, OneJoined
  <2>5. s4 \o <<>> = s4
    BY <1>1
  <2> HIDE DEF s4, s5
  <2> QED
    BY <2>1, <2>2, <2>3, <2>4, <2>5, Zenon
<1>3. /\ Opens(a) /\ a.save = save /\ Closes(d) /\ d.save = save /\ Colouring(e)
      /\ a.reg = "control" /\ d.reg = "control" /\ b.reg \in Register /\ c.reg \in Register
      /\ ~Colouring(a) /\ ~Colouring(b) /\ ~Colouring(c) /\ ~Colouring(d)
      /\ b.reg # "control" /\ c.reg # "control" /\ e.reg # "control"
  BY DEF Opens, Closes, Colouring, Control, Data, Register, Addresses
<1> HIDE DEF a, b, c, d, e
<1>4. Follows(a, b) /\ Follows(b, c) /\ Follows(c, d) /\ Follows(d, e)
  BY <1>3 DEF Follows
<1>5. /\ s4 \in Seq(RegWrites) /\ Len(s4) = 4 /\ s5 \in Seq(RegWrites) /\ Len(s5) = 5
      /\ s4[1] = a /\ s4[2] = b /\ s4[3] = c /\ s4[4] = d
      /\ s5[1] = a /\ s5[2] = b /\ s5[3] = c /\ s5[4] = d /\ s5[5] = e
  BY <1>1
<1> HIDE DEF s4, s5
<1>6. /\ \A n \in 1 .. 3 : n = 1 \/ n = 2 \/ n = 3
      /\ \A n \in 1 .. 4 : n = 1 \/ n = 2 \/ n = 3 \/ n = 4
      /\ \A n \in 1 .. 5 : n = 1 \/ n = 2 \/ n = 3 \/ n = 4 \/ n = 5
      /\ 4 - 1 = 3 /\ 5 - 1 = 4
  OBVIOUS
<1>7. Shape(s4)
  <2>1. \A n \in 1 .. 3 : Follows(s4[n], s4[n + 1])
    BY <1>4, <1>5, <1>6
  <2> QED
    BY <1>3, <1>5, <1>6, <2>1 DEF Shape
<1>8. Shape(s5)
  <2>1. \A n \in 1 .. 4 : Follows(s5[n], s5[n + 1])
    BY <1>4, <1>5, <1>6
  <2> QED
    BY <1>3, <1>5, <1>6, <2>1 DEF Shape
<1>9. Colourless(s4) /\ (save => Saves(s5))
  <2>1. \A n \in 1 .. 4 : ~Colouring(s4[n])
    BY <1>3, <1>5, <1>6
  <2>2. save => Saves(s5)
    BY <1>3, <1>5, <1>6 DEF Saves
  <2> QED
    BY <1>5, <2>1, <2>2 DEF Colourless
<1>10. s4 # <<>> /\ s5 # <<>>
  BY <1>5, EmptySeq
<1>11. Fresh(s4, save) /\ Fresh(s5, save)
  BY <1>3, <1>5, <1>7, <1>8, <1>10 DEF Fresh
<1> QED
  BY <1>2, <1>9, <1>11, Zenon

LEMMA FreshMode ==
  ASSUME NEW mode \in Modes, store \in BOOLEAN
  PROVE  Fresh(zx_resolution_set(mode), store) /\ Colourless(zx_resolution_set(mode))
<1> DEFINE a == Control(FALSE, store)
           b == Data("active_size", mode)
           c == Data("border_size", mode)
           d == Data("aux_attr", mode)
           e == Control(TRUE, store)
           s5 == <<a, b, c, d, e>>
<1>1. /\ a \in RegWrites /\ b \in RegWrites /\ c \in RegWrites /\ d \in RegWrites
      /\ e \in RegWrites
  BY WritesOfCall DEF Geometry
<1>2. zx_resolution_set(mode) = s5
  <2>1. zx_resolution_set(mode) = <<a>> \o <<b, c, d>> \o <<e>>
    BY DEF zx_resolution_set, Begins, Ends
  <2> HIDE DEF a, b, c, d, e
  <2>2. <<a>> \o <<b, c, d>> \o <<e>> = s5
    BY <1>1, FiveJoined
  <2> QED
    BY <2>1, <2>2, Zenon
<1>3. /\ Opens(a) /\ a.save = store /\ Closes(e)
      /\ b.reg \in Register /\ c.reg \in Register /\ d.reg \in Register
      /\ ~Colouring(a) /\ ~Colouring(b) /\ ~Colouring(c) /\ ~Colouring(d) /\ ~Colouring(e)
  BY DEF Opens, Closes, Colouring, Control, Data, Register, Geometry
<1> HIDE DEF a, b, c, d, e
<1>4. Follows(a, b) /\ Follows(b, c) /\ Follows(c, d) /\ Follows(d, e)
  BY <1>3 DEF Follows
<1>5. /\ s5 \in Seq(RegWrites) /\ Len(s5) = 5
      /\ s5[1] = a /\ s5[2] = b /\ s5[3] = c /\ s5[4] = d /\ s5[5] = e
  BY <1>1
<1> HIDE DEF s5
<1>6. /\ \A n \in 1 .. 4 : n = 1 \/ n = 2 \/ n = 3 \/ n = 4
      /\ \A n \in 1 .. 5 : n = 1 \/ n = 2 \/ n = 3 \/ n = 4 \/ n = 5
      /\ 5 - 1 = 4
  OBVIOUS
<1>7. Shape(s5)
  <2>1. \A n \in 1 .. 4 : Follows(s5[n], s5[n + 1])
    BY <1>4, <1>5, <1>6
  <2> QED
    BY <1>3, <1>5, <1>6, <2>1 DEF Shape
<1>8. Colourless(s5)
  <2>1. \A n \in 1 .. 5 : ~Colouring(s5[n])
    BY <1>3, <1>5, <1>6
  <2> QED
    BY <1>5, <2>1 DEF Colourless
<1>9. s5 # <<>>
  BY <1>5, EmptySeq
<1> QED
  BY <1>2, <1>3, <1>5, <1>7, <1>8, <1>9 DEF Fresh

-----------------------------------------------------------------------------
(* The steps.                                                              *)

LEMMA CallBegins ==
  ASSUME IInv, Calls
  PROVE  /\ todo = <<>>
         /\ todo' \in Seq(RegWrites) /\ Len(todo') <= 5 /\ todo' # <<>>
         /\ Shape(todo') /\ Opens(todo'[1])
         /\ shell' \in BOOLEAN /\ store' \in BOOLEAN
         /\ shell' => ~shell /\ Saves(todo')
         /\ ~shell' => Colourless(todo')
         /\ shell => ~todo'[1].save
<1>1. /\ todo = <<>> /\ store \in BOOLEAN /\ shell \in BOOLEAN
      /\ ZxPage \in Pages /\ ShellPage \in Pages
  BY PagesAssumption DEF Calls, IInv, TypeOK, RegsTypeOK
<1>2. CASE OpenShell
  <2>1. /\ ~shell /\ shell' = TRUE /\ store' = TRUE
        /\ todo' = zx_vdma_start_address_set(ShellPage, TRUE) \o zx_border_color_set(0)
    BY <1>2 DEF OpenShell, ShowPage
  <2>2. Fresh(todo', TRUE) /\ Saves(todo')
    BY <1>1, <2>1, FreshAddresses
  <2> QED
    BY <1>1, <2>1, <2>2 DEF Fresh
<1>3. CASE CloseShell
  <2>1. /\ shell /\ shell' = FALSE /\ store' = FALSE
        /\ todo' = zx_vdma_start_address_set(ZxPage, FALSE) \o <<>>
    BY <1>3 DEF CloseShell, ShowPage
  <2>2. Fresh(todo', FALSE) /\ Colourless(todo')
    BY <1>1, <2>1, FreshAddresses
  <2> QED
    BY <1>1, <2>1, <2>2 DEF Fresh
<1>4. CASE DisplayStart
  <2>1. ~shell /\ shell' = shell
    BY <1>4 DEF DisplayStart
  <2>2. CASE \E mode \in Modes : SetMode(mode)
    <3>1. PICK mode \in Modes : todo' = zx_resolution_set(mode) /\ store' = store
      BY <2>2 DEF SetMode
    <3>2. Fresh(todo', store) /\ Colourless(todo')
      BY <1>1, <3>1, FreshMode
    <3> QED
      BY <1>1, <2>1, <3>1, <3>2 DEF Fresh
  <2>3. CASE ShowPage(ZxPage, TRUE, <<>>)
    <3>1. store' = TRUE /\ todo' = zx_vdma_start_address_set(ZxPage, TRUE) \o <<>>
      BY <2>3 DEF ShowPage
    <3>2. Fresh(todo', TRUE) /\ Colourless(todo')
      BY <1>1, <3>1, FreshAddresses
    <3> QED
      BY <1>1, <2>1, <3>1, <3>2 DEF Fresh
  <2> QED
    BY <1>4, <2>2, <2>3 DEF DisplayStart
<1> QED
  BY <1>2, <1>3, <1>4 DEF Calls

(* What the delivery of the next write does, by the kind of the write. *)
LEMMA Delivery ==
  ASSUME IInv, NEW strobes \in BOOLEAN, NEW colour \in Colours, Clock(TRUE, strobes, colour)
  PROVE  /\ todo # <<>> /\ todo' = Tail(todo) /\ Head(todo) = todo[1] /\ todo[1] \in RegWrites
         /\ UNCHANGED <<store, shell, late>>
         /\ \/ /\ Opens(todo[1]) /\ regUpdate /\ regUpdate' = FALSE
               /\ UNCHANGED <<latched, pending, flush, committed>>
            \/ /\ todo[1].reg \in Register /\ ~regUpdate /\ regUpdate' = regUpdate
               /\ latched' = [latched EXCEPT ![todo[1].reg] = todo[1].val]
               /\ pending' = [pending EXCEPT !["deferred"] = TRUE]
               /\ flush' = [flush EXCEPT !["deferred"] = @ \/ todo[1].reg \in Flushing]
               /\ UNCHANGED <<prevBorder, committed>>
            \/ /\ Closes(todo[1]) /\ ~regUpdate /\ regUpdate' = TRUE
               /\ pending' = Replaced(pending) /\ flush' = Replaced(flush)
               /\ UNCHANGED latched /\ committed' = latched
            \/ /\ Colouring(todo[1]) /\ regUpdate
               /\ UNCHANGED <<latched, pending, flush, regUpdate, prevBorder, committed>>
<1>1. /\ todo # <<>> /\ todo' = Tail(todo) /\ UNCHANGED <<store, shell, late>>
  BY DEF Clock, Driver, Sending, Resting
<1>2. Head(todo) = todo[1] /\ todo[1] \in RegWrites
  BY <1>1, TailOfCall DEF IInv, TypeOK, RegsTypeOK, CallUnderWay
<1> DEFINE w == todo[1]
<1>3. /\ w.reg \in Register \cup {"border_color", "control"}
      /\ w.reg = "control" => w.update \in BOOLEAN
      /\ regUpdate \in BOOLEAN
  BY <1>2, Writes DEF IInv, TypeOK, RegsTypeOK
<1>4. /\ regUpdate => Opens(w) \/ Colouring(w)
      /\ ~regUpdate => w.reg \in Register \/ Closes(w)
  BY <1>1 DEF IInv, CallUnderWay
<1>5. /\ \/ w.reg \in Register /\ WritesData(w)
         \/ w.reg = "control" /\ WritesControl(w)
         \/ w.reg = "border_color" /\ UNCHANGED <<latched, pending, flush, regUpdate, prevBorder>>
      /\ committed' = IF Commits(w) THEN latched ELSE committed
  BY <1>2 DEF Clock, RegsClock, LatchRegisters, Histories
<1>6. "control" \notin Register /\ "border_color" \notin Register
  BY DEF Register, Addresses, Geometry
<1> HIDE DEF w
<1>7. CASE Opens(w)
  <2>1. w.reg = "control" /\ ~w.update /\ regUpdate /\ ~Commits(w)
    BY <1>4, <1>6, <1>7 DEF Opens, Closes, Commits
  <2>2. regUpdate' = FALSE /\ UNCHANGED <<latched, pending, flush, committed>>
    BY <1>3, <1>5, <1>6, <2>1 DEF WritesControl
  <2> QED
    BY <1>1, <1>2, <1>7, <2>1, <2>2 DEF w
<1>8. CASE w.reg \in Register
  <2>1. ~regUpdate /\ ~Commits(w) /\ WritesData(w) /\ Slot = "deferred"
    BY <1>4, <1>5, <1>6, <1>8 DEF Opens, Colouring, Commits, Slot
  <2> QED
    BY <1>1, <1>2, <1>5, <1>8, <2>1 DEF WritesData, w
<1>9. CASE Closes(w)
  <2>1. w.reg = "control" /\ w.update /\ ~regUpdate /\ Commits(w)
    BY <1>4, <1>6, <1>9 DEF Opens, Closes, Colouring, Commits
  <2>2. /\ regUpdate' = TRUE /\ UNCHANGED latched /\ committed' = latched
        /\ pending' = Replaced(pending) /\ flush' = Replaced(flush)
    BY <1>3, <1>5, <1>6, <2>1 DEF WritesControl
  <2> QED
    BY <1>1, <1>2, <1>9, <2>1, <2>2 DEF w
<1>10. CASE Colouring(w)
  <2>1. regUpdate /\ ~Commits(w) /\ w.reg = "border_color"
    BY <1>4, <1>6, <1>10 DEF Opens, Closes, Colouring, Commits
  <2> QED
    BY <1>1, <1>2, <1>5, <1>6, <1>10, <2>1 DEF w
<1> QED
  BY <1>3, <1>7, <1>8, <1>9, <1>10 DEF Opens, Closes, Colouring

(* At a clock without a delivery the driver rests or begins a call. *)
LEMMA NoDelivery ==
  ASSUME IInv, NEW strobes \in BOOLEAN, NEW colour \in Colours, Clock(FALSE, strobes, colour)
  PROVE  /\ UNCHANGED <<latched, regUpdate, prevBorder, committed>>
         /\ pending' \in [When -> BOOLEAN] /\ flush' \in [When -> BOOLEAN]
         /\ pending'["immediate"] = (copyOver = "idle" /\ pending["immediate"])
         /\ pending'["deferred"] = pending["deferred"]
         /\ \/ UNCHANGED <<todo, store, shell, late>>
            \/ Calls /\ late' = pending["immediate"]
<1>1. Acknowledged /\ committed' = committed
  BY DEF Clock, RegsClock, LatchRegisters, Histories
<1>2. pending \in [When -> BOOLEAN] /\ flush \in [When -> BOOLEAN] /\ When = {"immediate", "deferred"}
  BY DEF IInv, TypeOK, RegsTypeOK, When
<1>3. /\ pending' \in [When -> BOOLEAN] /\ flush' \in [When -> BOOLEAN]
      /\ pending'["immediate"] = (copyOver = "idle" /\ pending["immediate"])
      /\ pending'["deferred"] = pending["deferred"]
  <2> DEFINE done == copyOver # "idle" /\ pending["immediate"]
  <2>1. /\ pending' = [pending EXCEPT !["immediate"] = @ /\ ~done]
        /\ flush' = [flush EXCEPT !["immediate"] = @ /\ ~done]
    BY <1>1 DEF Acknowledged
  <2>2. done \in BOOLEAN
    BY <1>2
  <2>3. pending["immediate"] \in BOOLEAN /\ flush["immediate"] \in BOOLEAN
    BY <1>2
  <2>4. (pending["immediate"] /\ ~done) = (copyOver = "idle" /\ pending["immediate"])
    BY <2>3
  <2> HIDE DEF done
  <2>5. /\ pending'["immediate"] = (pending["immediate"] /\ ~done)
        /\ pending'["deferred"] = pending["deferred"]
    BY <1>2, <2>1
  <2> QED
    BY <1>2, <2>1, <2>2, <2>3, <2>4, <2>5
<1>4. \/ UNCHANGED <<todo, store, shell, late>>
      \/ Calls /\ late' = pending["immediate"]
  BY DEF Clock, Driver, Sending, Resting, Calls
<1> QED
  BY <1>1, <1>3, <1>4 DEF Acknowledged

LEMMA SettingsWritten ==
  ASSUME NEW s \in Settings, NEW w \in RegWrites, w.reg \in Register
  PROVE  [s EXCEPT ![w.reg] = w.val] \in Settings
<1>1. /\ w.reg \in Addresses => w.val \in Pages
      /\ w.reg \in Geometry => w.val \in Modes
  BY Writes
<1>2. s \in [Register -> Pages \cup Modes]
  BY DEF Settings
<1>3. w.val \in IF w.reg \in Addresses THEN Pages ELSE Modes
  BY <1>1 DEF Register
<1> DEFINE t == [s EXCEPT ![w.reg] = w.val]
<1>4. t \in [Register -> Pages \cup Modes]
  BY <1>2, <1>3
<1>5. \A r \in Register : t[r] \in IF r \in Addresses THEN Pages ELSE Modes
  BY <1>2, <1>3 DEF Settings
<1> QED
  BY <1>4, <1>5 DEF Settings

LEMMA ReplacedFlags ==
  ASSUME NEW f \in [When -> BOOLEAN]
  PROVE  /\ Replaced(f) \in [When -> BOOLEAN]
         /\ Replaced(f)["immediate"] = f["deferred"]
<1>1. f["deferred"] \in BOOLEAN /\ When = {"immediate", "deferred"}
  BY DEF When
<1> DEFINE r == [immediate |-> f["deferred"], deferred |-> FALSE]
<1>2. r = [x \in DOMAIN r |-> r[x]] /\ DOMAIN r = {"immediate", "deferred"}
  OBVIOUS
<1>3. r["immediate"] = f["deferred"] /\ r["deferred"] = FALSE
  OBVIOUS
<1> HIDE DEF r
<1>4. r \in [When -> BOOLEAN]
  BY <1>1, <1>2, <1>3
<1> QED
  BY <1>3, <1>4 DEF r, Replaced

LEMMA KeepsType ==
  ASSUME IInv, NEW sends \in BOOLEAN, NEW strobes \in BOOLEAN, NEW colour \in Colours,
         Clock(sends, strobes, colour)
  PROVE  TypeOK'
<1>1. RegsTypeOK /\ TypeOK
  BY DEF IInv, TypeOK
<1>2. copyOver' \in {"idle", "copy", "end"} /\ active' \in Settings
  BY <1>1 DEF Clock, RegsClock, CopyRegisters, RegsTypeOK
<1>3. /\ vsIdle' \in BOOLEAN /\ wrote' \in BOOLEAN /\ machine' \in Colours
      /\ since' \in {"latched", "changed", "lost"}
  BY <1>1 DEF Clock, Histories, TypeOK
<1>4. CASE sends = TRUE
  <2>1. Clock(TRUE, strobes, colour)
    BY <1>4
  <2>2. /\ todo # <<>> /\ todo' = Tail(todo) /\ Head(todo) = todo[1] /\ todo[1] \in RegWrites
        /\ store' = store /\ shell' = shell /\ late' = late
    BY <2>1, Delivery
  <2>3. todo' \in Seq(RegWrites) /\ Len(todo') <= 5
    <3>1. todo \in Seq(RegWrites) /\ Len(todo) <= 5 /\ Shape(todo)
      BY DEF IInv, TypeOK, RegsTypeOK, CallUnderWay
    <3>2. todo' \in Seq(RegWrites) /\ Len(todo') = Len(todo) - 1 /\ Len(todo) \in Nat
      BY <2>2, <3>1, TailOfCall, LenProperties
    <3> QED
      BY <3>1, <3>2
  <2>4. /\ latched' \in Settings /\ committed' \in Settings /\ regUpdate' \in BOOLEAN
        /\ pending' \in [When -> BOOLEAN] /\ flush' \in [When -> BOOLEAN]
    <3>1. todo[1].reg \in Register => [latched EXCEPT ![todo[1].reg] = todo[1].val] \in Settings
      BY <1>1, <2>2, SettingsWritten DEF RegsTypeOK
    <3>2. \A f \in [When -> BOOLEAN] :
             /\ Replaced(f) \in [When -> BOOLEAN]
             /\ \A b \in BOOLEAN : [f EXCEPT !["deferred"] = @ \/ b] \in [When -> BOOLEAN]
             /\ [f EXCEPT !["deferred"] = TRUE] \in [When -> BOOLEAN]
      <4> TAKE f \in [When -> BOOLEAN]
      <4>1. f["deferred"] \in BOOLEAN /\ When = {"immediate", "deferred"}
        BY DEF When
      <4>2. Replaced(f) \in [When -> BOOLEAN]
        BY ReplacedFlags
      <4> QED
        BY <4>1, <4>2
    <3>3. (todo[1].reg \in Flushing) \in BOOLEAN
      OBVIOUS
    <3> QED
      BY <1>1, <2>1, <3>1, <3>2, <3>3, Delivery DEF RegsTypeOK, TypeOK
  <2>5. prevBorder' \in Colours /\ border' \in Colours
    <3>1. prevBorder' = prevBorder \/ prevBorder' = border
      BY <2>1 DEF Clock, RegsClock, LatchRegisters, WritesData, WritesControl
    <3>2. todo[1].reg = "border_color" => todo[1].val \in Colours
      BY <2>2, Writes
    <3>3. border' \in {colour, todo[1].val, prevBorder, border}
          /\ (border' = todo[1].val => border' \in {colour, prevBorder, border}
                                         \/ todo[1].reg = "border_color")
      BY <2>1, <2>2 DEF Clock, RegsClock, BorderRegister, BorderWritten
    <3> QED
      BY <1>1, <3>1, <3>2, <3>3 DEF RegsTypeOK
  <2> QED
    BY <1>1, <1>2, <1>3, <2>2, <2>3, <2>4, <2>5 DEF TypeOK, RegsTypeOK
<1>5. CASE sends = FALSE
  <2>1. Clock(FALSE, strobes, colour)
    BY <1>5
  <2>2. border' \in Colours
    BY <1>1, <2>1 DEF Clock, RegsClock, BorderRegister, RegsTypeOK
  <2>3. /\ todo' \in Seq(RegWrites) /\ Len(todo') <= 5 /\ store' \in BOOLEAN
        /\ shell' \in BOOLEAN /\ late' \in BOOLEAN
    <3>1. CASE UNCHANGED <<todo, store, shell, late>>
      BY <1>1, <3>1 DEF TypeOK, RegsTypeOK
    <3>2. CASE Calls /\ late' = pending["immediate"]
      <4>1. pending["immediate"] \in BOOLEAN
        BY <1>1 DEF RegsTypeOK, When
      <4> QED
        BY <3>2, <4>1, CallBegins
    <3> QED
      BY <2>1, <3>1, <3>2, NoDelivery
  <2>4. /\ latched' \in Settings /\ committed' \in Settings /\ regUpdate' \in BOOLEAN
        /\ pending' \in [When -> BOOLEAN] /\ flush' \in [When -> BOOLEAN]
        /\ prevBorder' \in Colours
    BY <1>1, <2>1, NoDelivery DEF TypeOK, RegsTypeOK
  <2> QED
    BY <1>2, <1>3, <2>2, <2>3, <2>4 DEF TypeOK, RegsTypeOK
<1> QED
  BY <1>4, <1>5

LEMMA KeepsCall ==
  ASSUME IInv, NEW sends \in BOOLEAN, NEW strobes \in BOOLEAN, NEW colour \in Colours,
         Clock(sends, strobes, colour)
  PROVE  CallUnderWay'
<1>1. /\ Shape(todo) /\ todo \in Seq(RegWrites) /\ regUpdate \in BOOLEAN
      /\ regUpdate => todo = <<>> \/ Opens(todo[1]) \/ Colouring(todo[1])
      /\ ~regUpdate => todo # <<>> /\ (todo[1].reg \in Register \/ Closes(todo[1]))
  BY DEF IInv, CallUnderWay, TypeOK, RegsTypeOK
<1>2. CASE sends = TRUE
  <2>1. Clock(TRUE, strobes, colour)
    BY <1>2
  <2>2. /\ todo # <<>> /\ todo' = Tail(todo) /\ todo[1] \in RegWrites
    BY <2>1, Delivery
  <2>3. /\ Shape(todo')
        /\ todo' # <<>> => Follows(todo[1], todo'[1])
        /\ todo' = <<>> => Closes(todo[1]) \/ Colouring(todo[1])
    BY <1>1, <2>2, TailOfCall
  <2>4. "control" \notin Register /\ "border_color" \notin Register
    BY DEF Register, Addresses, Geometry
  <2>5. /\ Opens(todo[1]) => regUpdate' = FALSE
        /\ Closes(todo[1]) => regUpdate' = TRUE
        /\ todo[1].reg \in Register => regUpdate' = FALSE
        /\ Colouring(todo[1]) => regUpdate' = TRUE
        /\ \/ Opens(todo[1]) \/ Closes(todo[1]) \/ Colouring(todo[1])
           \/ todo[1].reg \in Register
    BY <1>1, <2>1, <2>4, Delivery DEF Opens, Closes, Colouring
  <2> QED
    BY <2>3, <2>4, <2>5 DEF CallUnderWay, Follows, Opens, Closes, Colouring
<1>3. CASE sends = FALSE
  <2>1. Clock(FALSE, strobes, colour)
    BY <1>3
  <2>2. CASE todo' = todo
    BY <1>1, <2>1, <2>2, NoDelivery DEF CallUnderWay
  <2>3. CASE Calls
    <3>1. todo = <<>> /\ Shape(todo') /\ todo' # <<>> /\ Opens(todo'[1])
      BY <2>3, CallBegins
    <3>2. regUpdate /\ regUpdate' = regUpdate
      BY <1>1, <2>1, <3>1, NoDelivery
    <3> QED
      BY <3>1, <3>2 DEF CallUnderWay
  <2> QED
    BY <2>1, <2>2, <2>3, NoDelivery
<1> QED
  BY <1>2, <1>3

LEMMA KeepsSets ==
  ASSUME IInv, NEW sends \in BOOLEAN, NEW strobes \in BOOLEAN, NEW colour \in Colours,
         Clock(sends, strobes, colour)
  PROVE  SetsWhole'
<1>1. /\ todo \in Seq(RegWrites) /\ Shape(todo) /\ regUpdate \in BOOLEAN
      /\ pending \in [When -> BOOLEAN]
      /\ regUpdate => latched = committed
      /\ pending["immediate"] /\ ~late => regUpdate /\ (todo = <<>> \/ Colouring(todo[1]))
      /\ ~regUpdate => pending["deferred"] \/ todo[1].reg \in Register
  BY DEF IInv, CallUnderWay, SetsWhole, TypeOK, RegsTypeOK
<1>2. CASE sends = TRUE
  <2>1. Clock(TRUE, strobes, colour)
    BY <1>2
  <2>2. todo # <<>> /\ todo' = Tail(todo) /\ todo[1] \in RegWrites /\ late' = late
    BY <2>1, Delivery
  <2>3. /\ todo' # <<>> => Follows(todo[1], todo'[1])
    BY <1>1, <2>2, TailOfCall
  <2>4. "control" \notin Register /\ "border_color" \notin Register
    BY DEF Register, Addresses, Geometry
  <2>5. CASE Opens(todo[1])
    <3>1. regUpdate' = FALSE /\ pending' = pending /\ ~Colouring(todo[1])
      BY <2>1, <2>4, <2>5, Delivery DEF Opens, Closes, Colouring
    <3>2. todo'[1].reg \in Register
      BY <1>1, <2>1, <2>2, <2>3, <2>4, <2>5, <3>1, KeepsCall DEF CallUnderWay, Follows, Opens,
         Closes
    <3> QED
      BY <1>1, <2>2, <3>1, <3>2 DEF SetsWhole
  <2>6. CASE todo[1].reg \in Register
    <3>1. ~regUpdate /\ regUpdate' = FALSE /\ pending' = [pending EXCEPT !["deferred"] = TRUE]
      BY <1>1, <2>1, <2>4, <2>6, Delivery DEF Opens, Closes, Colouring
    <3>2. pending'["immediate"] = pending["immediate"] /\ pending'["deferred"]
      BY <1>1, <3>1 DEF When
    <3> QED
      BY <1>1, <2>2, <3>1, <3>2 DEF SetsWhole
  <2>7. CASE Closes(todo[1])
    <3>1. regUpdate' = TRUE /\ latched' = latched /\ committed' = latched
      BY <2>1, <2>4, <2>7, Delivery DEF Opens, Closes, Colouring
    <3>2. todo' # <<>> => Colouring(todo'[1])
      BY <2>3, <2>4, <2>7 DEF Follows, Opens, Closes
    <3> QED
      BY <3>1, <3>2 DEF SetsWhole
  <2>8. CASE Colouring(todo[1])
    <3>1. /\ regUpdate /\ regUpdate' = regUpdate
          /\ UNCHANGED <<latched, pending, committed>>
      BY <2>1, <2>4, <2>8, Delivery DEF Opens, Closes, Colouring
    <3>2. todo' = <<>>
      BY <2>3, <2>4, <2>8 DEF Follows, Opens, Closes, Colouring
    <3> QED
      BY <1>1, <3>1, <3>2 DEF SetsWhole
  <2> QED
    BY <2>1, <2>5, <2>6, <2>7, <2>8, Delivery
<1>3. CASE sends = FALSE
  <2>1. Clock(FALSE, strobes, colour)
    BY <1>3
  <2>2. /\ UNCHANGED <<latched, regUpdate, committed>>
        /\ pending'["immediate"] => pending["immediate"]
        /\ pending'["deferred"] = pending["deferred"]
    BY <2>1, NoDelivery
  <2>3. \/ UNCHANGED <<todo, late>>
        \/ todo = <<>> /\ late' = pending["immediate"]
    BY <2>1, NoDelivery DEF Calls
  <2>4. todo = <<>> => regUpdate
    BY DEF IInv, CallUnderWay
  <2> QED
    BY <1>1, <2>2, <2>3, <2>4 DEF SetsWhole
<1> QED
  BY <1>2, <1>3

(* What a clock does to the set that makes the picture, to its copying and *)
(* to the pace of the writes.                                              *)
LEMMA Copying ==
  ASSUME IInv, NEW sends \in BOOLEAN, NEW strobes \in BOOLEAN, NEW colour \in Colours,
         Clock(sends, strobes, colour)
  PROVE  /\ wrote' = sends
         /\ sends => ~wrote
         /\ \/ /\ copyOver = "idle" /\ pending["immediate"]
               /\ copyOver' = "copy" /\ active' = latched
            \/ copyOver = "idle" /\ copyOver' = "idle" /\ active' = active
            \/ copyOver = "copy" /\ copyOver' = "end" /\ active' = active
            \/ copyOver = "end" /\ copyOver' = "idle" /\ active' = active
<1>1. wrote' = sends /\ (sends => ~wrote)
  BY DEF Clock, Driver, Sending, Resting
<1>2. copyOver \in {"idle", "copy", "end"}
  BY DEF IInv, TypeOK, RegsTypeOK
<1> QED
  BY <1>1, <1>2 DEF Clock, RegsClock, CopyRegisters, CopyStarts

LEMMA KeepsNoPart ==
  ASSUME IInv, NEW sends \in BOOLEAN, NEW strobes \in BOOLEAN, NEW colour \in Colours,
         Clock(sends, strobes, colour)
  PROVE  NoPartStays'
<1>1. /\ regUpdate \in BOOLEAN /\ wrote \in BOOLEAN /\ late \in BOOLEAN
      /\ pending \in [When -> BOOLEAN] /\ pending["immediate"] \in BOOLEAN
      /\ regUpdate => latched = committed
      /\ pending["immediate"] /\ ~regUpdate => late
      /\ ~regUpdate => pending["deferred"] \/ todo[1].reg \in Register
      /\ todo = <<>> => regUpdate
  BY DEF IInv, CallUnderWay, SetsWhole, TypeOK, RegsTypeOK, When
<1>2. /\ active # committed => pending["immediate"] \/ (late /\ ~regUpdate)
      /\ copyOver = "copy" => active = latched \/ (wrote /\ ~regUpdate)
      /\ copyOver = "end" /\ pending["immediate"] =>
           wrote /\ (active = committed \/ (late /\ ~regUpdate))
  BY DEF IInv, NoPartStays, Overtakes
<1>3. CASE sends = TRUE
  <2>1. Clock(TRUE, strobes, colour)
    BY <1>3
  <2>2. wrote' = TRUE /\ ~wrote /\ late' = late
    BY <1>3, <2>1, Copying, Delivery
  <2>3. "control" \notin Register /\ "border_color" \notin Register
    BY DEF Register, Addresses, Geometry
  <2>4. CASE Opens(todo[1]) \/ Colouring(todo[1])
    <3>1. regUpdate /\ UNCHANGED <<latched, pending, committed>>
      BY <2>1, <2>3, <2>4, Delivery DEF Opens, Closes, Colouring
    <3> QED
      BY <1>1, <1>2, <2>1, <2>2, <3>1, Copying DEF NoPartStays, Overtakes
  <2>5. CASE todo[1].reg \in Register
    <3>1. /\ ~regUpdate /\ regUpdate' = FALSE /\ committed' = committed
          /\ pending' = [pending EXCEPT !["deferred"] = TRUE]
      BY <1>1, <2>1, <2>3, <2>5, Delivery DEF Opens, Closes, Colouring
    <3>2. pending'["immediate"] = pending["immediate"]
      BY <1>1, <3>1 DEF When
    <3> QED
      BY <1>1, <1>2, <2>1, <2>2, <3>1, <3>2, Copying DEF NoPartStays, Overtakes
  <2>6. CASE Closes(todo[1])
    <3>1. /\ ~regUpdate /\ latched' = latched /\ committed' = latched
          /\ pending' = Replaced(pending)
      BY <2>1, <2>3, <2>6, Delivery DEF Opens, Closes, Colouring
    <3>2. pending["deferred"]
      BY <1>1, <2>3, <2>6, <3>1 DEF Closes
    <3>3. pending'["immediate"]
      BY <1>1, <3>1, <3>2, ReplacedFlags
    <3> QED
      BY <1>1, <1>2, <2>1, <2>2, <3>1, <3>3, Copying DEF NoPartStays, Overtakes
  <2> QED
    BY <2>1, <2>4, <2>5, <2>6, Delivery
<1>4. CASE sends = FALSE
  <2>1. Clock(FALSE, strobes, colour)
    BY <1>4
  <2>2. /\ UNCHANGED <<latched, regUpdate, committed>>
        /\ pending'["immediate"] = (copyOver = "idle" /\ pending["immediate"])
        /\ late' = late \/ regUpdate
    BY <1>1, <2>1, NoDelivery DEF Calls
  <2>3. active # committed /\ ~pending'["immediate"] => late /\ ~regUpdate
    BY <1>1, <1>2, <1>4, <2>1, <2>2, Copying
  <2> QED
    BY <1>1, <1>2, <2>1, <2>2, <2>3, Copying DEF NoPartStays, Overtakes
<1> QED
  BY <1>3, <1>4

LEMMA KeepsBorder ==
  ASSUME IInv, NEW sends \in BOOLEAN, NEW strobes \in BOOLEAN, NEW colour \in Colours,
         Clock(sends, strobes, colour)
  PROVE  BorderKept'
<1>1. /\ todo \in Seq(RegWrites) /\ Shape(todo)
      /\ shell => Saves(todo)
      /\ ~shell => Colourless(todo)
      /\ since = "latched" => prevBorder = machine
      /\ since # "lost" /\ ~Black => border = machine
      /\ since \in {"latched", "changed", "lost"}
  BY DEF IInv, CallUnderWay, BorderKept, TypeOK, RegsTypeOK
<1>2. /\ machine' = IF strobes THEN colour ELSE machine
      /\ strobes => border' = colour
      /\ strobes /\ since' = "latched" => since = "latched" /\ colour = machine
  BY DEF Clock, RegsClock, BorderRegister, Histories
<1>3. CASE sends = TRUE
  <2>1. Clock(TRUE, strobes, colour)
    BY <1>3
  <2> DEFINE w == todo[1]
  <2>2. todo # <<>> /\ todo' = Tail(todo) /\ w \in RegWrites /\ Head(todo) = w /\ shell' = shell
    BY <2>1, Delivery
  <2>3. /\ Saves(todo) => Saves(todo')
        /\ Colourless(todo) => Colourless(todo')
        /\ todo' # <<>> => Follows(w, todo'[1])
    BY <1>1, <2>2, TailOfCall
  <2>4. /\ "control" \notin Register /\ "border_color" \notin Register
        /\ w.reg \in Register \cup {"border_color", "control"}
        /\ w.reg = "control" => w.save \in BOOLEAN /\ w.update \in BOOLEAN
    BY <2>2, Writes DEF Register, Addresses, Geometry
  <2>5. ~strobes => border' = BorderWritten(w)
    BY <2>1, <2>2 DEF Clock, RegsClock, BorderRegister
  <2>6. ~strobes => since' = IF since = "changed" /\ w.reg = "control" /\ w.save = FALSE THEN "lost"
                             ELSE IF since = "changed" /\ w.reg = "control" /\ w.save = TRUE
                             THEN "latched" ELSE since
    BY <2>1, <2>2 DEF Clock, Histories, SendsControl
  <2>7. /\ w.reg = "control" => prevBorder' = IF w.save THEN border ELSE prevBorder
        /\ w.reg # "control" => prevBorder' = prevBorder
    BY <2>1, <2>2, <2>4 DEF Clock, RegsClock, LatchRegisters, WritesData, WritesControl
  <2>8. Black <=> ~shell /\ Opens(w) /\ ~w.save
    BY <2>2 DEF Black
  <2> HIDE DEF w
  <2>9. since' = "latched" => prevBorder' = machine'
    <3>1. CASE w.reg = "control" /\ w.save
      BY <1>1, <1>2, <2>4, <2>6, <2>7, <2>8, <3>1
    <3>2. CASE ~(w.reg = "control" /\ w.save)
      BY <1>1, <1>2, <2>4, <2>6, <2>7, <3>2
    <3> QED
      BY <3>1, <3>2
  <2>10. since' # "lost" /\ ~Black' => border' = machine'
    <3>1. CASE strobes
      BY <1>2, <3>1
    <3>2. CASE ~strobes /\ w.reg = "control"
      BY <1>1, <1>2, <2>4, <2>5, <2>6, <2>8, <3>2 DEF BorderWritten
    <3>3. CASE ~strobes /\ w.reg \in Register
      BY <1>1, <1>2, <2>4, <2>5, <2>6, <2>8, <3>3 DEF BorderWritten, Opens
    <3>4. CASE w.reg = "border_color"
      <4>1. todo' = <<>>
        BY <2>3, <2>4, <3>4 DEF Follows, Opens, Closes
      <4>2. shell
        <5>1. 1 \in 1 .. Len(todo)
          BY <1>1, <2>2, EmptySeq
        <5> QED
          BY <1>1, <3>4, <5>1 DEF Colourless, Colouring, w
      <4> QED
        BY <2>2, <4>1, <4>2 DEF Black
    <3> QED
      BY <2>4, <3>1, <3>2, <3>3, <3>4
  <2> QED
    BY <1>1, <2>2, <2>3, <2>9, <2>10 DEF BorderKept
<1>4. CASE sends = FALSE
  <2>1. Clock(FALSE, strobes, colour)
    BY <1>4
  <2>2. /\ prevBorder' = prevBorder
        /\ ~strobes => border' = border /\ since' = since
        /\ \/ UNCHANGED <<todo, shell>>
           \/ Calls
    BY <2>1, NoDelivery DEF Clock, RegsClock, BorderRegister, Histories, SendsControl
  <2>3. since' = "latched" => prevBorder' = machine'
    BY <1>1, <1>2, <2>2
  <2>4. CASE UNCHANGED <<todo, shell>>
    BY <1>1, <1>2, <2>2, <2>3, <2>4 DEF BorderKept, Black
  <2>5. CASE Calls
    <3>1. /\ todo = <<>> /\ todo' # <<>> /\ Opens(todo'[1])
          /\ shell' \in BOOLEAN
          /\ shell' => ~shell /\ Saves(todo')
          /\ ~shell' => Colourless(todo')
          /\ shell => ~todo'[1].save
      BY <2>5, CallBegins
    <3>2. CASE shell
      BY <2>3, <3>1, <3>2 DEF BorderKept, Black
    <3>3. CASE ~shell
      BY <1>1, <1>2, <2>2, <2>3, <3>1, <3>3 DEF BorderKept, Black
    <3> QED
      BY <3>2, <3>3
  <2> QED
    BY <2>2, <2>4, <2>5
<1> QED
  BY <1>3, <1>4

-----------------------------------------------------------------------------
(* The theorems.                                                           *)

LEMMA Starts == Init => IInv
<1> SUFFICES ASSUME Init PROVE IInv
  OBVIOUS
<1>1. ResetSettings \in Settings
  BY PagesAssumption, ModesAssumption DEF ResetSettings, Settings, Register, Addresses, Geometry
<1>2. <<>> \in Seq(RegWrites) /\ Len(<<>>) = 0
  BY EmptySeq
<1>3. TypeOK
  <2>1. todo \in Seq(RegWrites) /\ Len(todo) <= 5
    BY <1>2 DEF Init, RegsInit
  <2>2. pending \in [When -> BOOLEAN] /\ flush \in [When -> BOOLEAN]
    BY DEF Init, RegsInit
  <2>3. /\ latched \in Settings /\ active \in Settings /\ committed \in Settings
        /\ border \in Colours /\ prevBorder \in Colours /\ machine \in Colours
    BY <1>1, ColoursAssumption DEF Init, RegsInit
  <2>4. /\ regUpdate \in BOOLEAN /\ copyOver \in {"idle", "copy", "end"} /\ store \in BOOLEAN
        /\ vsIdle \in BOOLEAN /\ shell \in BOOLEAN /\ wrote \in BOOLEAN /\ late \in BOOLEAN
        /\ since \in {"latched", "changed", "lost"}
    BY DEF Init, RegsInit
  <2> QED
    BY <2>1, <2>2, <2>3, <2>4 DEF TypeOK, RegsTypeOK
<1>4. CallUnderWay
  BY <1>2 DEF Init, RegsInit, CallUnderWay, Shape
<1>5. SetsWhole
  BY DEF Init, RegsInit, SetsWhole, When
<1>6. BorderKept
  BY <1>2 DEF Init, RegsInit, BorderKept, Black, Saves, Colourless
<1>7. NoPartStays
  BY DEF Init, RegsInit, NoPartStays
<1> QED
  BY <1>3, <1>4, <1>5, <1>6, <1>7 DEF IInv

LEMMA Keeps == IInv /\ [Next]_vars => IInv'
<1> SUFFICES ASSUME IInv, [Next]_vars PROVE IInv'
  OBVIOUS
<1>1. CASE Next
  <2>1. PICK sends \in BOOLEAN, strobes \in BOOLEAN, colour \in Colours :
            Clock(sends, strobes, colour)
    BY <1>1 DEF Next
  <2> QED
    BY <2>1, KeepsType, KeepsCall, KeepsSets, KeepsNoPart, KeepsBorder DEF IInv
<1>2. CASE UNCHANGED vars
  BY <1>2 DEF vars, regsVars, IInv, TypeOK, RegsTypeOK, CallUnderWay, SetsWhole, NoPartStays,
     Overtakes, BorderKept, Black
<1> QED
  BY <1>1, <1>2

(* The driver's call under way, the flags and the border stay in step, for *)
(* any pages, modes and colours and any pace of writes and frames          *)
(* (zx_video.vhd, p_latching_registers and p_reg_copy_over).               *)
THEOREM Invariance == Spec => []IInv
BY Starts, Keeps, PTL DEF Spec

(* The registers, flags and writes left keep their types, and a call is at *)
(* most five writes.                                                       *)
THEOREM TypeCorrect == Spec => []TypeOK
<1>1. IInv => TypeOK
  BY DEF IInv
<1> QED
  BY <1>1, Invariance, PTL

(* The border of the machine comes back after the shell.                   *)
THEOREM BorderIsTheMachines == Spec => []BorderComesBack
<1>1. IInv => BorderComesBack
  BY DEF IInv, BorderKept, BorderComesBack, Black
<1> QED
  BY <1>1, Invariance, PTL

(* What the logic takes over is the set that the driver committed last, or *)
(* a part of a call that has overtaken another; and such a part is about   *)
(* to be replaced when that call ends.                                     *)
THEOREM TakesWholeSets == Spec => WholeSets
<1> DEFINE A == /\ active' # active => active' = committed \/ Overtakes
                /\ active # committed => pending["immediate"] \/ Overtakes
<1>1. IInv /\ [Next]_vars => [A]_vars
  <2> SUFFICES ASSUME IInv, Next PROVE A
    OBVIOUS
  <2>1. active' # active => active' = latched /\ pending["immediate"]
    BY DEF Next, Clock, RegsClock, CopyRegisters, CopyStarts
  <2>2. regUpdate \in BOOLEAN /\ late \in BOOLEAN
    BY DEF IInv, TypeOK, RegsTypeOK
  <2> QED
    BY <2>1, <2>2 DEF IInv, SetsWhole, NoPartStays, Overtakes
<1> QED
  BY <1>1, Invariance, PTL DEF Spec, WholeSets

=============================================================================
