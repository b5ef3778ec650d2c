---------------------------- MODULE KeyboardProofs ----------------------------
(***************************************************************************)
(* That the selection of the file browser stays in its table and on the    *)
(* screen, that the loop of calc_sel ends wherever leave_dir has not placed*)
(* the screen, and that the keys of a report reach one side: for a table   *)
(* and a screen of any size, any directories and any reports.  Then that   *)
(* the sort of the table ends, in order and with every record once, and    *)
(* with it the types, the sorted table and the directory that is found     *)
(* again in its parent.                                                    *)
(***************************************************************************)
EXTENDS Keyboard, WellFoundedInduction, NaturalsInduction, SequenceTheorems, TLAPS

-----------------------------------------------------------------------------
(* Arithmetic. *)

LEMMA LeastExists ==
  ASSUME NEW S \in SUBSET Nat, NEW k \in S
  PROVE  Min(S) \in S /\ \A n \in S : Min(S) <= n
<1>1. PICK low \in S : \A n \in S : ~(n < low)
  <2> DEFINE Less == {p \in Nat \X Nat : p[1] < p[2]}
  <2>1. IsWellFoundedOn(Less, Nat)
    BY NatLessThanWellFounded DEF OpToRel
  <2>2. PICK x \in S : \A y \in S : ~(<<y, x>> \in Less)
    BY <2>1, WFMin
  <2>3. ASSUME NEW y \in S, y < x PROVE FALSE
    <3>1. <<y, x>> \in Nat \X Nat
      OBVIOUS
    <3>2. <<y, x>> \in Less
      BY <2>3, <3>1
    <3> QED
      BY <2>2, <3>2
  <2> QED
    BY <2>2, <2>3
<1>2. \A n \in S : low <= n
  BY <1>1
<1> QED
  BY <1>2 DEF Min

LEMMA Sizes ==
  /\ Row \in Nat /\ Row > 0 /\ Modulus \in Nat /\ Modulus > 0
  /\ FilesPerDir \in Nat /\ FilesPerDir > 0 /\ FilesPerDir < Modulus
  BY ShellAssumption, SortAssumption

LEMMA Residues ==
  ASSUME NEW a \in Int
  PROVE  a % Modulus \in 0 .. Modulus - 1 /\ (a \in 0 .. Modulus - 1 => a % Modulus = a)
  BY Sizes

LEMMA Columns ==
  ASSUME NEW a \in Nat
  PROVE  a \div Row \in Int /\ Row * (a \div Row) <= a /\ a < Row * (a \div Row) + Row
  BY Sizes

(* So many whole columns. *)
Whole(start) == \E m \in Nat : start = m * Row

LEMMA Fewer ==
  ASSUME NEW m \in Nat, NEW n \in Nat, n <= m
  PROVE  m <= m * Row /\ m * Row - n * Row = (m - n) * Row /\ m - n \in Nat
         /\ m * Row - n * Row \in Nat /\ m * Row - n * Row <= m * Row
  BY Sizes

LEMMA More ==
  ASSUME NEW m \in Nat, NEW q \in Int, q >= 1
  PROVE  m * Row + Row * (q - 1) = (m + q - 1) * Row /\ m + q - 1 \in Nat
         /\ Row * (q - 1) = Row * q - Row /\ Row * (q - 1) \in Nat
  BY Sizes

LEMMA Several ==
  ASSUME NEW q \in Int, Row * q + Row > 2 * Row
  PROVE  q >= 2
  BY Sizes

-----------------------------------------------------------------------------
(* The screen. *)

(* A start of whole columns can be taken back: to the first entry, or less.*)
LEMMA WholeRetreats ==
  ASSUME NEW sel \in Nat, NEW m \in Nat, m * Row < Modulus
  PROVE  /\ m \in Retreats(sel, m * Row)
         /\ Retreat(sel, m * Row) <= sel
         /\ Whole(Retreat(sel, m * Row))
<1> DEFINE start == m * Row
<1>0. start = m * Row
  OBVIOUS
<1>1. start \in 0 .. Modulus - 1 /\ m <= start
  BY Sizes, Fewer
<1> HIDE DEF start
<1>2. m \in Retreats(sel, start)
  <2>1. start - m * Row = 0
    BY <1>0, <1>1
  <2>2. Back(start, m) = 0
    BY <2>1, Residues, Sizes DEF Back
  <2>3. m \in 0 .. Modulus - 1
    BY <1>1, Sizes
  <2> QED
    BY <2>2, <2>3 DEF Retreats
<1>3. Retreats(sel, start) \subseteq Nat
  BY Sizes DEF Retreats
<1> DEFINE n == Min(Retreats(sel, start))
<1>4. n \in Retreats(sel, start) /\ n <= m /\ n \in Nat
  BY <1>2, <1>3, LeastExists
<1>5. Back(start, n) <= sel
  BY <1>4 DEF Retreats
<1> HIDE DEF n
<1>6. Back(start, n) = (m - n) * Row /\ m - n \in Nat
  <2>1. /\ start - n * Row = (m - n) * Row /\ m - n \in Nat
        /\ start - n * Row \in Nat /\ start - n * Row <= start
    BY <1>0, <1>4, Fewer
  <2> DEFINE back == start - n * Row
  <2> HIDE DEF back
  <2>2. back \in 0 .. Modulus - 1
    <3>1. back \in Nat /\ back <= start
      BY <2>1 DEF back
    <3> QED
      BY <1>1, <3>1, Sizes
  <2>3. back % Modulus = back
    BY <2>2, Residues
  <2> QED
    BY <2>1, <2>3 DEF Back, back
<1>7. Retreat(sel, start) = IF start <= sel THEN start ELSE Back(start, n)
  BY DEF Retreat, n
<1>8. Retreat(sel, start) <= sel /\ Whole(Retreat(sel, start))
  BY <1>0, <1>1, <1>5, <1>6, <1>7 DEF Whole
<1> QED
  BY <1>0, <1>2, <1>8

LEMMA Retreated ==
  ASSUME NEW sel \in Nat, NEW start \in 0 .. Modulus - 1, Retreats(sel, start) # {}
  PROVE  Retreat(sel, start) \in 0 .. Modulus - 1 /\ Retreat(sel, start) <= sel
<1>1. CASE start <= sel
  BY <1>1 DEF Retreat
<1>2. CASE ~(start <= sel)
  <2> DEFINE n == Min(Retreats(sel, start))
  <2>1. n \in Retreats(sel, start)
    <3>1. Retreats(sel, start) \in SUBSET Nat
      BY Sizes DEF Retreats
    <3> QED
      BY <3>1, LeastExists
  <2>2. n \in Nat /\ Back(start, n) <= sel
    BY <2>1, Sizes DEF Retreats
  <2> HIDE DEF n
  <2>3. start - n * Row \in Int
    BY <2>2, Sizes
  <2>4. Back(start, n) \in 0 .. Modulus - 1
    BY <2>3, Residues DEF Back
  <2>5. Retreat(sel, start) = Back(start, n)
    BY <1>2 DEF Retreat, n
  <2> QED
    BY <2>2, <2>4, <2>5
<1> QED
  BY <1>1, <1>2

(* The screen is taken forward by whole columns, up to the selection.      *)
LEMMA Advanced ==
  ASSUME NEW sel \in Nat, NEW start \in Nat, start <= sel
  PROVE  /\ Advance(sel, start) \in Nat
         /\ Advance(sel, start) <= sel /\ sel < Advance(sel, start) + 2 * Row
         /\ Whole(start) => Whole(Advance(sel, start))
<1>1. CASE sel < start + 2 * Row
  BY <1>1 DEF Advance
<1>2. CASE ~(sel < start + 2 * Row)
  <2> DEFINE q == (sel - start) \div Row
  <2>1. q \in Int /\ Row * q <= sel - start /\ sel - start < Row * q + Row
    <3>1. sel - start \in Nat
      OBVIOUS
    <3> QED
      BY <3>1, Columns
  <2>2. Advance(sel, start) = start + Row * (q - 1)
    BY <1>2 DEF Advance
  <2> HIDE DEF q
  <2>3. Row * q \in Int
    BY <2>1, Sizes
  <2>4. q >= 2
    <3>1. Row * q + Row > 2 * Row
      BY <1>2, <2>1, <2>3, Sizes
    <3> QED
      BY <2>1, <3>1, Several
  <2>5. Row * (q - 1) = Row * q - Row /\ Row * (q - 1) \in Nat
    BY <2>1, <2>4, More
  <2>6. ASSUME Whole(start) PROVE Whole(Advance(sel, start))
    <3>1. PICK m \in Nat : start = m * Row
      BY <2>6 DEF Whole
    <3>2. m * Row + Row * (q - 1) = (m + q - 1) * Row /\ m + q - 1 \in Nat
      BY <2>1, <2>4, More
    <3> QED
      BY <2>2, <3>1, <3>2 DEF Whole
  <2>7. Advance(sel, start) = start + (Row * q - Row)
    BY <2>2, <2>5
  <2> QED
    BY <2>1, <2>3, <2>5, <2>6, <2>7, Sizes
<1> QED
  BY <1>1, <1>2

-----------------------------------------------------------------------------
(* The browser, as far as its table is not read. *)

Fields == {"path", "files", "total", "tooMany", "sel", "start", "placed", "hung"}

IsView(v) ==
  /\ v = [f \in Fields |-> v[f]]
  /\ v.total \in 0 .. FilesPerDir
  /\ v.sel \in Int /\ v.start \in 0 .. Modulus - 1
  /\ v.placed \in BOOLEAN /\ v.hung \in BOOLEAN

(* What calc_sel needs, and what it establishes. *)
Columned(v) == ~v.placed => Whole(v.start)

Onscreen(v) ==
  v.total > 0 => /\ v.sel \in 0 .. v.total - 1
                 /\ v.start <= v.sel /\ v.sel < v.start + 2 * Row

Sound(v) ==
  /\ IsView(v) /\ Columned(v)
  /\ v.hung => v.placed
  /\ ~v.hung => Onscreen(v)

LEMMA Calculated ==
  ASSUME NEW v, IsView(v), Columned(v), ~v.hung
  PROVE  Sound(calc_sel(v))
<1> DEFINE sel == Clamped(v)
           start == Advance(sel, Retreat(sel, v.start))
           stuck == [v EXCEPT !.sel = sel, !.hung = TRUE]
           moved == [v EXCEPT !.sel = sel, !.start = start]
<1>1. calc_sel(v) = IF v.total = 0 THEN v
                    ELSE IF Retreats(sel, v.start) = {} THEN stuck ELSE moved
  BY DEF calc_sel
<1>2. /\ stuck.total = v.total /\ stuck.sel = sel /\ stuck.start = v.start
      /\ stuck.placed = v.placed /\ stuck.hung = TRUE
      /\ stuck = [f \in Fields |-> stuck[f]]
  BY DEF IsView, Fields
<1>3. /\ moved.total = v.total /\ moved.sel = sel /\ moved.start = start
      /\ moved.placed = v.placed /\ moved.hung = v.hung
      /\ moved = [f \in Fields |-> moved[f]]
  BY DEF IsView, Fields
<1>4. v.total # 0 => sel \in 0 .. v.total - 1 /\ sel \in Nat
  BY Sizes DEF IsView, Clamped
<1> HIDE DEF sel, stuck
<1>5. CASE v.total = 0
  BY <1>1, <1>5 DEF Sound, Onscreen
<1>6. CASE v.total # 0 /\ Retreats(sel, v.start) = {}
  <2>1. v.placed
    <3> SUFFICES ASSUME ~v.placed PROVE FALSE
      OBVIOUS
    <3>1. PICK m \in Nat : v.start = m * Row
      BY DEF Columned, Whole
    <3>2. m * Row < Modulus
      <4>1. v.start < Modulus
        BY Sizes DEF IsView
      <4> QED
        BY <3>1, <4>1
    <3> QED
      BY <1>4, <1>6, <3>1, <3>2, WholeRetreats
  <2>2. sel \in Int
    BY <1>4, <1>6
  <2> QED
    BY <1>1, <1>2, <1>6, <2>1, <2>2 DEF Sound, IsView, Columned
<1>7. CASE v.total # 0 /\ Retreats(sel, v.start) # {}
  <2> DEFINE back == Retreat(sel, v.start)
  <2>1. back \in Nat /\ back <= sel
    BY <1>4, <1>7, Retreated DEF IsView
  <2>2. ~v.placed => Whole(back)
    <3> SUFFICES ASSUME ~v.placed PROVE Whole(back)
      OBVIOUS
    <3>1. PICK m \in Nat : v.start = m * Row
      BY DEF Columned, Whole
    <3>2. m * Row < Modulus
      <4>1. v.start < Modulus
        BY Sizes DEF IsView
      <4> QED
        BY <3>1, <4>1
    <3> QED
      BY <1>4, <1>7, <3>1, <3>2, WholeRetreats
  <2> HIDE DEF back
  <2>3. start = Advance(sel, back)
    BY DEF back
  <2>4. start \in Nat /\ start <= sel /\ sel < start + 2 * Row /\ (~v.placed => Whole(start))
    BY <1>4, <1>7, <2>1, <2>2, <2>3, Advanced
  <2> HIDE DEF start, moved
  <2>5. calc_sel(v) = moved
    BY <1>1, <1>7
  <2>6. start \in 0 .. Modulus - 1 /\ sel \in Int
    BY <1>4, <1>7, <2>4, Sizes DEF IsView
  <2>7. IsView(moved)
    BY <1>3, <2>6 DEF IsView
  <2> QED
    BY <1>3, <1>4, <1>7, <2>4, <2>5, <2>7 DEF Sound, Columned, Onscreen
<1> QED
  BY <1>5, <1>6, <1>7

LEMMA EntriesCounted ==
  ASSUME NEW path, NEW listing \in Listings
  PROVE  Len(Entries(path, listing)) \in Nat
<1>1. listing \in Seq(Records) /\ Dot \in Records
  BY ShellAssumption DEF Records, Dot
<1>2. <<>> \in Seq(Records) /\ <<Dot>> \in Seq(Records)
  BY <1>1
<1>3. Entries(path, listing) \in Seq(Records)
  BY <1>1, <1>2, ConcatProperties DEF Entries
<1> QED
  BY <1>3, LenProperties

LEMMA DirectoryRead ==
  ASSUME NEW v, IsView(v), NEW listing \in Listings
  PROVE  LET w == read_dir(v, listing) IN
         IsView(w) /\ w.start = 0 /\ ~w.placed /\ w.hung = v.hung
<1> DEFINE entries == Entries(v.path, listing)
           many == Len(entries) > FilesPerDir
           total == IF ~many THEN Len(entries) ELSE IF v.path = <<>> THEN 0 ELSE 1
           files == Stored(v.files, entries)
           table == IF 0 < total /\ total < SortLimit
                    THEN qsort[[files |-> files, l |-> 0, h |-> total - 1]] ELSE files
           dir == read_dir(v, listing)
<1>1. dir = [v EXCEPT !.files = table, !.total = total, !.tooMany = many,
                    !.sel = 0, !.start = 0, !.placed = FALSE]
  BY DEF read_dir
<1>2. total \in 0 .. FilesPerDir
  <2> DEFINE n == Len(entries)
  <2>1. n \in Nat
    BY EntriesCounted
  <2>2. total = IF ~(n > FilesPerDir) THEN n ELSE IF v.path = <<>> THEN 0 ELSE 1
    OBVIOUS
  <2> HIDE DEF n, total
  <2> QED
    BY <2>1, <2>2, Sizes
<1> HIDE DEF entries, many, total, files, table, dir
<1>3. /\ dir = [f \in Fields |-> dir[f]]
      /\ dir.total = total /\ dir.sel = 0 /\ dir.start = 0 /\ dir.placed = FALSE /\ dir.hung = v.hung
  BY <1>1 DEF IsView, Fields
<1>4. 0 \in 0 .. Modulus - 1
  BY Sizes
<1>5. IsView(dir)
  <2>1. dir.total \in 0 .. FilesPerDir /\ dir.sel \in Int /\ dir.start \in 0 .. Modulus - 1
    BY <1>2, <1>3, <1>4
  <2>2. dir.placed \in BOOLEAN /\ dir.hung \in BOOLEAN
    BY <1>3, Zenon DEF IsView
  <2> QED
    BY <1>3, <2>1, <2>2 DEF IsView
<1>6. IsView(dir) /\ dir.start = 0 /\ ~dir.placed /\ dir.hung = v.hung
  BY <1>3, <1>5
<1>7. dir = read_dir(v, listing)
  BY DEF dir
<1> QED
  BY <1>6, <1>7

LEMMA WholeFromTheTop == Whole(0)
<1>1. 0 = 0 * Row
  BY Sizes
<1> QED
  BY <1>1 DEF Whole

LEMMA PathChanged ==
  ASSUME NEW v, IsView(v), NEW path
  PROVE  LET w == [v EXCEPT !.path = path] IN
         IsView(w) /\ w.hung = v.hung /\ w.start = v.start /\ w.placed = v.placed
  BY DEF IsView, Fields

LEMMA DirectoryLeft ==
  ASSUME NEW v, IsView(v), Columned(v), ~v.hung, NEW listing \in Listings
  PROVE  LET w == leave_dir(v, listing) IN IsView(w) /\ Columned(w) /\ ~w.hung
<1> DEFINE up == [v EXCEPT !.path = Front(v.path)]
           parent == read_dir(up, listing)
           sel == Found(parent, Last(v.path))
           far == parent.start + 2 * Row - 1 < sel
           top == IF far THEN sel ELSE parent.start
           w == [parent EXCEPT !.sel = sel, !.placed = far, !.start = top]
<1>1. leave_dir(v, listing) = IF v.path = <<>> THEN v ELSE w
  BY DEF leave_dir
<1>2. IsView(up) /\ ~up.hung
  BY PathChanged
<1> HIDE DEF up
<1>3. IsView(parent) /\ parent.start = 0 /\ ~parent.hung
  BY <1>2, DirectoryRead
<1> HIDE DEF parent
<1>4. sel \in 0 .. parent.total
  <2> DEFINE places == {n \in 0 .. parent.total - 1 : parent.files[n].name = Last(v.path)} \cup {parent.total}
  <2>1. places \in SUBSET Nat /\ parent.total \in places /\ places \subseteq 0 .. parent.total
    BY <1>3, Sizes DEF IsView
  <2>2. sel = Min(places)
    BY DEF Found
  <2> HIDE DEF places, sel
  <2>3. Min(places) \in places
    BY <2>1, LeastExists
  <2> QED
    BY <2>1, <2>2, <2>3
<1> HIDE DEF sel
<1>5. sel \in Int /\ top \in 0 .. Modulus - 1 /\ far \in BOOLEAN
  BY <1>3, <1>4, Sizes DEF IsView
<1>6. ~far => top = 0
  BY <1>3
<1> HIDE DEF far, top
<1>7. /\ w.sel = sel /\ w.placed = far /\ w.start = top /\ w.total = parent.total
      /\ w.hung = parent.hung /\ w = [f \in Fields |-> w[f]]
  BY <1>3 DEF IsView, Fields
<1> HIDE DEF w
<1>8. IsView(w) /\ Columned(w) /\ ~w.hung
  BY <1>3, <1>5, <1>6, <1>7, WholeFromTheTop DEF IsView, Columned
<1> QED
  BY <1>1, <1>8

LEMMA DirectoryEntered ==
  ASSUME NEW v, IsView(v), Columned(v), ~v.hung, NEW name, NEW listing \in Listings
  PROVE  LET w == enter_dir(v, name, listing) IN IsView(w) /\ Columned(w) /\ ~w.hung
<1> DEFINE sub == [v EXCEPT !.path = Append(v.path, name)]
<1>1. enter_dir(v, name, listing) = IF Len(v.path) < PathRoom THEN read_dir(sub, listing) ELSE v
  BY DEF enter_dir
<1>2. IsView(sub) /\ ~sub.hung
  BY PathChanged
<1> HIDE DEF sub
<1>3. LET w == read_dir(sub, listing) IN IsView(w) /\ w.start = 0 /\ ~w.placed /\ ~w.hung
  BY <1>2, DirectoryRead
<1> QED
  BY <1>1, <1>3, WholeFromTheTop DEF Columned

-----------------------------------------------------------------------------
(* The keys. *)

ViewOK == Sound(view)

LEMMA KeyKeepsView ==
  ASSUME ViewOK, ~view.hung, NEW key, Handle(key)
  PROVE  ViewOK'
<1>1. IsView(view) /\ Columned(view)
  BY DEF ViewOK, Sound
<1>2. ASSUME NEW listing \in Listings, Toggles(listing)
      PROVE  ViewOK'
  <2>1. CASE active
    BY <1>2, <2>1 DEF Toggles, ViewOK
  <2>2. CASE ~active
    <3> DEFINE w == read_dir(view, listing)
    <3>1. IsView(w) /\ w.start = 0 /\ ~w.hung
      BY <1>1, DirectoryRead
    <3>2. view' = calc_sel(w)
      BY <1>2, <2>2 DEF Toggles, zx_shell_browser
    <3> HIDE DEF w
    <3> QED
      BY <3>1, <3>2, Calculated, WholeFromTheTop DEF ViewOK, Columned
  <2> QED
    BY <2>1, <2>2
<1>3. ASSUME key \in Arrows, Moves(key)
      PROVE  ViewOK'
  <2> DEFINE sel == view.sel + Step(key)
             w == [view EXCEPT !.sel = sel]
  <2>1. sel \in Int
    <3>1. Step(key) \in Int
      <4>1. key = "Right" \/ key = "Left" \/ key = "Up" \/ key = "Down"
        BY <1>3 DEF Arrows
      <4>2. key = "Right" => Step(key) = Row
        BY Zenon DEF Step
      <4>3. key = "Left" => Step(key) = -Row
        BY Zenon DEF Step
      <4>4. key = "Up" => Step(key) = -1
        BY Zenon DEF Step
      <4>5. key = "Down" => Step(key) = 1
        BY Zenon DEF Step
      <4> QED
        BY <4>1, <4>2, <4>3, <4>4, <4>5, Sizes
    <3> QED
      BY <1>1, <3>1 DEF IsView
  <2> HIDE DEF sel
  <2>2. IsView(w) /\ Columned(w) /\ ~w.hung
    BY <1>1, <2>1 DEF IsView, Columned, Fields
  <2>3. view' = calc_sel(w)
    BY <1>3 DEF Moves, sel
  <2> HIDE DEF w
  <2> QED
    BY <2>2, <2>3, Calculated DEF ViewOK
<1>4. ASSUME NEW listing \in Listings, Enters(listing)
      PROVE  ViewOK'
  <2>1. PICK record \in Selected : OpensDir(record, listing) \/ OpensFile(record)
    BY <1>4 DEF Enters
  <2>2. CASE OpensFile(record)
    BY <2>2 DEF OpensFile, ViewOK
  <2>3. CASE OpensDir(record, listing)
    <3> DEFINE w == IF record = Dot THEN leave_dir(view, listing)
                    ELSE enter_dir(view, record.name, listing)
    <3>1. IsView(w) /\ Columned(w) /\ ~w.hung
      BY <1>1, DirectoryLeft, DirectoryEntered
    <3>2. view' = calc_sel(w)
      BY <2>3 DEF OpensDir
    <3> HIDE DEF w
    <3> QED
      BY <3>1, <3>2, Calculated DEF ViewOK
  <2> QED
    BY <2>1, <2>2, <2>3
<1>5. CASE Others(key)
  BY <1>5 DEF Others, ViewOK
<1> QED
  BY <1>2, <1>3, <1>4, <1>5 DEF Handle

LEMMA KeyKeepsSide ==
  ASSUME NEW key, key \notin {"F12", "Enter"}, Handle(key)
  PROVE  active' = active
  BY DEF Handle, Moves, Others

-----------------------------------------------------------------------------
(* The reports. *)

Pressed(count) == {report.keys[n] : n \in 1 .. count} \cap (Port1 \cup Port2)
AllPressed == {report.keys[n] : n \in DOMAIN report.keys} \cap (Port1 \cup Port2)
ToTheMachine(pressed) == IF active THEN {} ELSE pressed
Shift == IF report.shift THEN {ShiftKey} ELSE {}
Plain == {report.keys[n] : n \in DOMAIN report.keys} \cap {"F12", "Enter"} = {}

ReportOK ==
  /\ report \in [keys : Seq(Keys), shift : BOOLEAN]
  /\ next \in 1 .. Len(report.keys) + 1
  /\ pc \in {"wait", "keys", "write2"}

(* A loop without end leaves the report where it is. *)
Stuck == view.hung => pc = "keys"

(* The registers as far as the keys of the report have been handled. *)
Registers ==
  Plain => /\ pc = "keys" => down = ToTheMachine(Pressed(next - 1))
           /\ pc = "write2" => /\ down = Shift \cup ToTheMachine(AllPressed)
                               /\ matrix1 = down \cap Regs1
           /\ pc = "wait" => matrix1 \cup matrix2 = Shift \cup ToTheMachine(AllPressed)

IInv == ViewOK /\ ReportOK /\ Stuck /\ Registers

LEMMA Starts == Init => IInv
<1> SUFFICES ASSUME Init PROVE IInv
  OBVIOUS
<1>1. ViewOK
  <2>1. /\ view.total = 0 /\ view.sel = 0 /\ view.start = 0 /\ view.placed = FALSE /\ view.hung = FALSE
        /\ view = [f \in Fields |-> view[f]]
    BY DEF Init, ShellInit, Fields
  <2>2. 0 \in 0 .. Modulus - 1 /\ 0 \in 0 .. FilesPerDir
    BY Sizes
  <2>3. IsView(view)
    <3>1. view.total \in 0 .. FilesPerDir /\ view.sel \in Int /\ view.start \in 0 .. Modulus - 1
      BY <2>1, <2>2
    <3>2. view.placed \in BOOLEAN /\ view.hung \in BOOLEAN
      BY <2>1, Zenon
    <3> QED
      BY <2>1, <3>1, <3>2 DEF IsView
  <2>4. Columned(view) /\ Onscreen(view)
    BY <2>1, WholeFromTheTop DEF Columned, Onscreen
  <2> QED
    BY <2>1, <2>3, <2>4 DEF ViewOK, Sound
<1>2. report.keys = <<>> /\ report.shift = FALSE /\ report \in [keys : Seq(Keys), shift : BOOLEAN]
  BY DEF Init, Nothing
<1>3. ReportOK
  BY <1>2, EmptySeq DEF Init, ReportOK
<1>4. Stuck
  BY DEF Init, ShellInit, Stuck
<1>5. Registers
  <2>1. DOMAIN report.keys = {}
    BY <1>2
  <2>2. AllPressed = {} /\ Shift = {}
    BY <1>2, <2>1 DEF AllPressed, Shift
  <2> QED
    BY <2>2 DEF Init, Registers, ToTheMachine
<1> QED
  BY <1>1, <1>3, <1>4, <1>5 DEF IInv

LEMMA ReportArrives ==
  ASSUME IInv, Arrives
  PROVE  IInv'
<1>1. ViewOK' /\ view' = view /\ pc = "wait" /\ pc' = "keys"
  BY DEF IInv, Arrives, shellVars, ViewOK
<1>2. report' \in [keys : Seq(Keys), shift : BOOLEAN]
  BY KeyboardAssumption DEF Arrives
<1>3. Len(report'.keys) \in Nat /\ next' = 1
  BY <1>2, LenProperties DEF Arrives
<1>4. ReportOK'
  BY <1>1, <1>2, <1>3 DEF ReportOK
<1>5. Stuck'
  BY <1>1 DEF Stuck
<1>6. Registers'
  <2>1. down' = {}
    BY DEF Arrives
  <2>2. Pressed(next - 1)' = {}
    <3>1. 1 .. (next' - 1) = {}
      BY <1>3
    <3> QED
      BY <3>1 DEF Pressed
  <2> QED
    BY <1>1, <2>1, <2>2 DEF Registers, ToTheMachine
<1> QED
  BY <1>1, <1>4, <1>5, <1>6 DEF IInv

LEMMA KeyHandled ==
  ASSUME IInv, Key
  PROVE  IInv'
<1> DEFINE key == report.keys[next]
<1>1. /\ pc = "keys" /\ pc' = "keys" /\ ~view.hung /\ Handle(key)
      /\ report' = report /\ next' = next + 1 /\ next <= Len(report.keys)
      /\ down' = IF active' THEN down ELSE down \cup ({key} \cap (Port1 \cup Port2))
  BY DEF Key
<1>2. ViewOK'
  BY <1>1, KeyKeepsView DEF IInv
<1>3. report.keys \in Seq(Keys) /\ Len(report.keys) \in Nat /\ DOMAIN report.keys = 1 .. Len(report.keys)
  BY LenProperties DEF IInv, ReportOK
<1>4. next \in 1 .. Len(report.keys) /\ next' \in 1 .. Len(report.keys) + 1
  BY <1>1, <1>3 DEF IInv, ReportOK
<1>5. ReportOK'
  BY <1>1, <1>4 DEF IInv, ReportOK
<1>6. Stuck'
  BY <1>1 DEF Stuck
<1>7. Registers'
  <2> SUFFICES ASSUME Plain PROVE down' = ToTheMachine(Pressed(next - 1))'
    BY <1>1 DEF Registers, Plain
  <2>1. key \notin {"F12", "Enter"}
    BY <1>3, <1>4 DEF Plain
  <2>2. active' = active
    BY <1>1, <2>1, KeyKeepsSide
  <2>3. down = ToTheMachine(Pressed(next - 1))
    BY <1>1 DEF IInv, Registers
  <2>4. Pressed(next - 1)' = Pressed(next - 1) \cup ({key} \cap (Port1 \cup Port2))
    <3>1. 1 .. (next' - 1) = (1 .. (next - 1)) \cup {next}
      BY <1>1, <1>4
    <3> QED
      BY <1>1, <3>1 DEF Pressed
  <2> QED
    BY <1>1, <2>2, <2>3, <2>4 DEF ToTheMachine
<1> QED
  BY <1>2, <1>5, <1>6, <1>7 DEF IInv

LEMMA FirstWritten ==
  ASSUME IInv, Write1
  PROVE  IInv'
<1>1. /\ pc = "keys" /\ pc' = "write2" /\ ~view.hung /\ next > Len(report.keys)
      /\ UNCHANGED <<active, view, report, next>>
      /\ down' = down \cup Shift /\ matrix1' = down' \cap Regs1
  BY DEF Write1, shellVars, Shift
<1>2. ViewOK' /\ ReportOK' /\ Stuck'
  BY <1>1 DEF IInv, ViewOK, ReportOK, Stuck
<1>3. Registers'
  <2> SUFFICES ASSUME Plain PROVE down' = Shift \cup ToTheMachine(AllPressed)
    BY <1>1 DEF Registers, Plain, Shift, AllPressed, ToTheMachine
  <2>1. Len(report.keys) \in Nat /\ DOMAIN report.keys = 1 .. Len(report.keys)
    BY LenProperties DEF IInv, ReportOK
  <2>2. next - 1 = Len(report.keys)
    BY <1>1, <2>1 DEF IInv, ReportOK
  <2>3. Pressed(next - 1) = AllPressed
    BY <2>1, <2>2 DEF Pressed, AllPressed
  <2>4. down = ToTheMachine(Pressed(next - 1))
    BY <1>1 DEF IInv, Registers
  <2> QED
    BY <1>1, <2>3, <2>4
<1> QED
  BY <1>2, <1>3 DEF IInv

LEMMA SecondWritten ==
  ASSUME IInv, Write2
  PROVE  IInv'
<1>1. /\ pc = "write2" /\ pc' = "wait" /\ UNCHANGED <<active, view, report, matrix1>>
      /\ matrix2' = down \cap Port2 /\ next' = 1
  BY DEF Write2, shellVars
<1>2. ViewOK'
  BY <1>1 DEF IInv, ViewOK
<1>3. ReportOK'
  <2>1. Len(report.keys) \in Nat
    BY LenProperties DEF IInv, ReportOK
  <2> QED
    BY <1>1, <2>1 DEF IInv, ReportOK
<1>4. Stuck'
  BY <1>1 DEF IInv, Stuck
<1>5. Registers'
  <2> SUFFICES ASSUME Plain PROVE matrix1 \cup matrix2' = Shift \cup ToTheMachine(AllPressed)
    BY <1>1 DEF Registers, Plain, Shift, AllPressed, ToTheMachine
  <2>1. down = Shift \cup ToTheMachine(AllPressed) /\ matrix1 = down \cap Regs1
    BY <1>1 DEF IInv, Registers
  <2>2. down \subseteq Regs1 \cup Port2
    BY <2>1 DEF Shift, ToTheMachine, AllPressed, Regs1
  <2> QED
    BY <1>1, <2>1, <2>2
<1> QED
  BY <1>2, <1>3, <1>4, <1>5 DEF IInv

(* The shell and the keyboard keep the selection in the table and on the   *)
(* screen, and the registers in step with the keys handled so far.         *)
THEOREM Invariance == Spec => []IInv
<1>1. ASSUME IInv, UNCHANGED vars
      PROVE  IInv'
  <2>1. UNCHANGED <<active, view, report, next, down, matrix1, matrix2, pc>>
    BY <1>1 DEF vars, shellVars
  <2> QED
    BY <1>1, <2>1 DEF IInv, ViewOK, ReportOK, Stuck, Registers, Plain, Shift, Pressed,
       AllPressed, ToTheMachine
<1>2. IInv /\ [Next]_vars => IInv'
  BY <1>1, ReportArrives, KeyHandled, FirstWritten, SecondWritten DEF Next
<1> QED
  BY Starts, <1>2, PTL DEF Spec

(* Between two reports the selection of the shown shell is an entry of its *)
(* table and on the screen, after any moves and any directories read, left *)
(* and entered (calc_sel of zx_shell.c).                                   *)
THEOREM SelectionStays == Spec => []SelectionShown
<1>1. IInv => SelectionShown
  BY DEF IInv, Stuck, ViewOK, Sound, Onscreen, SelectionShown
<1> QED
  BY Invariance, <1>1, PTL

(* The loop of calc_sel that takes the screen back always ends where       *)
(* leave_dir has not placed the screen, and the selection survives it.     *)
THEOREM HangsAfterLeaving == Spec => []HangsOnlyPlaced
<1>1. IInv => HangsOnlyPlaced
  BY DEF IInv, ViewOK, Sound, HangsOnlyPlaced
<1> QED
  BY Invariance, <1>1, PTL

(* After a report without F12 or Enter the two registers show its keys and *)
(* the shift, or the shift alone while the shell has the keys              *)
(* (tuh_hid_report_received_cb and hid_keycode_cb).                        *)
THEOREM OneSide == Spec => []KeysReachOneSide
<1>1. IInv => KeysReachOneSide
  BY DEF IInv, Registers, Plain, Shift, AllPressed, ToTheMachine, KeysReachOneSide
<1> QED
  BY Invariance, <1>1, PTL

-----------------------------------------------------------------------------
(* The order of the records. *)

LEMMA GreatestExists ==
  ASSUME NEW S \in SUBSET Nat, NEW k \in S, NEW b \in Nat, \A n \in S : n <= b
  PROVE  Max(S) \in S /\ \A n \in S : n <= Max(S)
<1> DEFINE T == {b - n : n \in S}
<1>1. T \in SUBSET Nat /\ b - k \in T
  OBVIOUS
<1> DEFINE low == Min(T)
<1>2. low \in T /\ \A n \in T : low <= n
  BY <1>1, LeastExists
<1> HIDE DEF low
<1>3. PICK top \in S : low = b - top
  BY <1>2
<1>4. \A n \in S : n <= top
  <2> SUFFICES ASSUME NEW n \in S PROVE n <= top
    OBVIOUS
  <2>1. low <= b - n
    BY <1>2
  <2> QED
    BY <1>3, <2>1
<1>5. \E x \in S : \A n \in S : x >= n
  BY <1>4
<1> QED
  BY <1>5 DEF Max

LEMMA RecordTypes ==
  ASSUME NEW a \in Records
  PROVE  a.dir \in BOOLEAN /\ a.name \in Nat
  BY SortAssumption DEF Records

LEMMA Comparable ==
  ASSUME NEW a \in Records, NEW b \in Records, ~comp_name(a, b)
  PROVE  comp_name(b, a)
<1>1. a.dir \in BOOLEAN /\ b.dir \in BOOLEAN /\ a.name \in Nat /\ b.name \in Nat
  BY RecordTypes
<1>2. ~(a.name <= b.name) => b.name <= a.name
  BY <1>1
<1> QED
  BY <1>1, <1>2, Zenon DEF comp_name

LEMMA InOrder ==
  ASSUME NEW a \in Records, NEW b \in Records, NEW c \in Records,
         comp_name(a, b), comp_name(b, c)
  PROVE  comp_name(a, c)
<1>1. /\ a.dir \in BOOLEAN /\ b.dir \in BOOLEAN /\ c.dir \in BOOLEAN
      /\ a.name \in Nat /\ b.name \in Nat /\ c.name \in Nat
  BY RecordTypes
<1>2. a.name <= b.name /\ b.name <= c.name => a.name <= c.name
  BY <1>1
<1> QED
  BY <1>1, <1>2, Zenon DEF comp_name

LEMMA Reflexive ==
  ASSUME NEW a \in Records
  PROVE  comp_name(a, a)
<1>1. a.name <= a.name
  BY RecordTypes
<1> QED
  BY <1>1 DEF comp_name

-----------------------------------------------------------------------------
(* A pass of the sort. *)

LEMMA ScanTypes ==
  ASSUME NEW c \in Scans
  PROVE  /\ c = [files |-> c.files, i |-> c.i, j |-> c.j, k |-> c.k]
         /\ c.files \in Tables /\ c.i \in Slots /\ c.j \in Slots /\ c.k \in Slots
         /\ c.i \in Nat /\ c.j \in Nat /\ c.k \in Nat
         /\ c.i <= c.k /\ c.k <= c.j
         /\ \A n \in c.i .. c.j : n \in Slots
  BY Sizes DEF Scans, Slots

LEMMA LeftScan ==
  ASSUME NEW c \in Scans
  PROVE  LET left == LeftStop(c) IN
         /\ left \in c.i .. c.k
         /\ left # c.k => ~comp_name(c.files[left], c.files[c.k])
         /\ \A n \in c.i .. left - 1 : comp_name(c.files[n], c.files[c.k])
<1> DEFINE stops == {n \in c.i .. c.k : n = c.k \/ ~comp_name(c.files[n], c.files[c.k])}
           left == LeftStop(c)
<1>1. stops \in SUBSET Nat /\ c.k \in stops
  BY ScanTypes
<1>2. left = Min(stops)
  BY DEF LeftStop
<1>3. \A n \in stops : n \in c.i .. c.k /\ (n = c.k \/ ~comp_name(c.files[n], c.files[c.k]))
  OBVIOUS
<1>4. \A n \in c.i .. c.k : n \notin stops => comp_name(c.files[n], c.files[c.k])
  OBVIOUS
<1> HIDE DEF stops, left
<1>5. left \in stops /\ \A n \in stops : left <= n
  BY <1>1, <1>2, LeastExists
<1>6. left \in c.i .. c.k
  BY <1>3, <1>5
<1>7. \A n \in c.i .. left - 1 : n \in c.i .. c.k /\ n \notin stops
  BY <1>5, <1>6, ScanTypes
<1> QED
  BY <1>3, <1>4, <1>5, <1>6, <1>7 DEF left

LEMMA RightScan ==
  ASSUME NEW c \in Scans
  PROVE  LET right == RightStop(c) IN
         /\ right \in c.k .. c.j
         /\ right # c.k => ~comp_name(c.files[c.k], c.files[right])
         /\ \A n \in right + 1 .. c.j : comp_name(c.files[c.k], c.files[n])
<1> DEFINE stops == {n \in c.k .. c.j : n = c.k \/ ~comp_name(c.files[c.k], c.files[n])}
           right == RightStop(c)
<1>1. stops \in SUBSET Nat /\ c.k \in stops /\ c.j \in Nat /\ \A n \in stops : n <= c.j
  BY ScanTypes
<1>2. right = Max(stops)
  BY DEF RightStop
<1>3. \A n \in stops : n \in c.k .. c.j /\ (n = c.k \/ ~comp_name(c.files[c.k], c.files[n]))
  OBVIOUS
<1>4. \A n \in c.k .. c.j : n \notin stops => comp_name(c.files[c.k], c.files[n])
  OBVIOUS
<1> HIDE DEF stops, right
<1>5. right \in stops /\ \A n \in stops : n <= right
  BY <1>1, <1>2, GreatestExists
<1>6. right \in c.k .. c.j
  BY <1>3, <1>5
<1>7. \A n \in right + 1 .. c.j : n \in c.k .. c.j /\ n \notin stops
  BY <1>5, <1>6, ScanTypes
<1> QED
  BY <1>3, <1>4, <1>5, <1>6, <1>7 DEF right

(* The records of g are those of f, moved within l .. h. *)
Permutes(p, l, h) ==
  /\ p \in [Slots -> Slots]
  /\ \A n \in Slots : n \notin l .. h => p[n] = n
  /\ \A n \in Slots : n \in l .. h => p[n] \in l .. h
  /\ \A m, n \in Slots : p[m] = p[n] => m = n

Rearranged(f, g, l, h) ==
  \E p : Permutes(p, l, h) /\ \A n \in Slots : g[n] = f[p[n]]

LEMMA Same ==
  ASSUME NEW f, NEW l, NEW h
  PROVE  Rearranged(f, f, l, h)
<1> DEFINE p == [n \in Slots |-> n]
<1>1. Permutes(p, l, h) /\ \A n \in Slots : f[n] = f[p[n]]
  BY DEF Permutes
<1> QED
  BY <1>1 DEF Rearranged

LEMMA Composed ==
  ASSUME NEW f, NEW g, NEW e, NEW l \in Int, NEW h \in Int,
         NEW ll \in Int, NEW hh \in Int, l <= ll, hh <= h,
         Rearranged(f, g, l, h), Rearranged(g, e, ll, hh)
  PROVE  Rearranged(f, e, l, h)
<1>1. PICK p : Permutes(p, l, h) /\ \A n \in Slots : g[n] = f[p[n]]
  BY DEF Rearranged
<1>2. PICK q : Permutes(q, ll, hh) /\ \A n \in Slots : e[n] = g[q[n]]
  BY DEF Rearranged
<1> DEFINE r == [n \in Slots |-> p[q[n]]]
<1>3. \A n \in Slots : q[n] \in Slots /\ p[n] \in Slots
  BY <1>1, <1>2 DEF Permutes
<1>4. r \in [Slots -> Slots]
  BY <1>3
<1>5. \A n \in Slots : e[n] = f[r[n]]
  BY <1>1, <1>2, <1>3
<1>6. \A m, n \in Slots : r[m] = r[n] => m = n
  BY <1>1, <1>2, <1>3 DEF Permutes
<1>7. \A n \in ll .. hh : n \in l .. h
  OBVIOUS
<1>8. \A n \in Slots : n \notin l .. h => r[n] = n
  BY <1>1, <1>2, <1>7 DEF Permutes
<1>9. \A n \in Slots : n \in l .. h => r[n] \in l .. h
  <2> SUFFICES ASSUME NEW n \in Slots, n \in l .. h PROVE p[q[n]] \in l .. h
    OBVIOUS
  <2>1. q[n] \in l .. h
    BY <1>2, <1>7 DEF Permutes
  <2> QED
    BY <1>1, <1>3, <2>1 DEF Permutes
<1> HIDE DEF r
<1>10. Permutes(r, l, h)
  BY <1>4, <1>6, <1>8, <1>9 DEF Permutes
<1> QED
  BY <1>5, <1>10 DEF Rearranged

LEMMA Widened ==
  ASSUME NEW f, NEW g, NEW l \in Int, NEW h \in Int,
         NEW ll \in Int, NEW hh \in Int, l <= ll, hh <= h,
         Rearranged(f, g, ll, hh)
  PROVE  Rearranged(f, g, l, h)
  BY Same, Composed

LEMMA RecordsExchanged ==
  ASSUME NEW f \in Tables, NEW a \in Slots, NEW b \in Slots, a <= b
  PROVE  LET g == swap_name(f, a, b) IN
         /\ g \in Tables /\ g[a] = f[b] /\ g[b] = f[a]
         /\ Rearranged(f, g, a, b)
<1> DEFINE g == swap_name(f, a, b)
           p == [n \in Slots |-> IF n = a THEN b ELSE IF n = b THEN a ELSE n]
<1>1. g \in Tables /\ g[a] = f[b] /\ g[b] = f[a] /\ \A n \in Slots : n # a /\ n # b => g[n] = f[n]
  BY DEF swap_name, Tables
<1>2. Permutes(p, a, b)
  BY Sizes DEF Permutes, Slots
<1>3. \A n \in Slots : g[n] = f[p[n]]
  BY <1>1
<1> HIDE DEF p, g
<1>4. Rearranged(f, g, a, b)
  BY <1>2, <1>3 DEF Rearranged
<1> QED
  BY <1>1, <1>4 DEF g

LEMMA PassExchanges ==
  ASSUME NEW c \in Scans, LeftStop(c) # RightStop(c)
  PROVE  LET d == Exchanged(c) IN
         /\ d \in Scans /\ d.i = LeftStop(c) /\ d.j = RightStop(c)
         /\ d.files = swap_name(c.files, d.i, d.j)
         /\ d.files[d.k] = c.files[c.k]
         /\ Rearranged(c.files, d.files, d.i, d.j)
<1> DEFINE left == LeftStop(c)
           right == RightStop(c)
           files == swap_name(c.files, left, right)
           k == IF left = c.k THEN right ELSE IF right = c.k THEN left ELSE c.k
           d == Exchanged(c)
<1>1. d = [files |-> files, i |-> left, j |-> right, k |-> k]
  BY DEF Exchanged
<1>2. left \in c.i .. c.k /\ right \in c.k .. c.j
  BY LeftScan, RightScan
<1>3. left \in Slots /\ right \in Slots /\ left <= right /\ left \in Nat /\ right \in Nat
  BY <1>2, ScanTypes
<1> HIDE DEF left, right
<1>4. files \in Tables /\ files[left] = c.files[right] /\ files[right] = c.files[left]
      /\ Rearranged(c.files, files, left, right)
  BY <1>3, RecordsExchanged, ScanTypes
<1>5. k \in left .. right /\ k \in Slots
  BY <1>2, <1>3, ScanTypes
<1>6. files[k] = c.files[c.k]
  <2>1. CASE left = c.k \/ right = c.k
    BY <1>4, <2>1 DEF left, right
  <2>2. CASE left # c.k /\ right # c.k
    BY <1>3, <2>2, ScanTypes DEF swap_name, Tables
  <2> QED
    BY <2>1, <2>2
<1> HIDE DEF files, k, d
<1>7. d \in Scans /\ d.i = left /\ d.j = right /\ d.files = files /\ d.k = k
  BY <1>1, <1>3, <1>4, <1>5 DEF Scans
<1> QED
  BY <1>4, <1>6, <1>7 DEF d, left, right, files

-----------------------------------------------------------------------------
(* The passes end.  A pass whose scans do not move - a record of each side *)
(* is out of place at once - leaves records the next one moves over.       *)

Fresh(c) == LeftStop(c) = c.i /\ RightStop(c) = c.j
Grade(c) == 2 * (c.j - c.i) + (IF Fresh(c) THEN 1 ELSE 0)
Grades == 0 .. 2 * FilesPerDir + 1

LEMMA Graded ==
  ASSUME NEW c \in Scans
  PROVE  Grade(c) \in Nat /\ Grade(c) <= 2 * FilesPerDir + 1
  BY Sizes DEF Scans, Slots, Grade

LEMMA FirstMovesOver ==
  ASSUME NEW c \in Scans, LeftStop(c) # RightStop(c), Fresh(c)
  PROVE  ~Fresh(Exchanged(c))
<1> DEFINE d == Exchanged(c)
           f == c.files
           g == d.files
<1>1. /\ d \in Scans /\ d.i = c.i /\ d.j = c.j
      /\ g = swap_name(f, c.i, c.j) /\ g[d.k] = f[c.k]
  BY PassExchanges DEF Fresh
<1>2. c.i # c.j /\ c.i \in Slots /\ c.j \in Slots /\ f \in Tables /\ c.k \in Slots
  BY ScanTypes DEF Fresh
<1>3. g[c.i] = f[c.j] /\ g[c.j] = f[c.i]
  BY <1>1, <1>2, RecordsExchanged, ScanTypes
<1>4. f[c.i] \in Records /\ f[c.j] \in Records /\ f[c.k] \in Records
  BY <1>2 DEF Tables
<1>5. d.k = IF c.i = c.k THEN c.j ELSE IF c.j = c.k THEN c.i ELSE c.k
  BY DEF Exchanged, Fresh
<1> HIDE DEF d
<1>6. CASE c.j # c.k
  <2>1. ~comp_name(f[c.k], f[c.j])
    BY <1>6, RightScan DEF Fresh
  <2>2. comp_name(g[c.i], g[d.k])
    BY <1>1, <1>3, <1>4, <2>1, Comparable
  <2>3. d.k # c.i
    BY <1>2, <1>5, <1>6
  <2>4. LeftStop(d) # d.i
    BY <1>1, <2>2, <2>3, LeftScan
  <2> QED
    BY <2>4 DEF Fresh, d
<1>7. CASE c.j = c.k
  <2>1. ~comp_name(f[c.i], f[c.k])
    BY <1>2, <1>7, LeftScan DEF Fresh
  <2>2. comp_name(g[d.k], g[c.j])
    BY <1>1, <1>3, <1>4, <2>1, Comparable
  <2>3. d.k # c.j
    BY <1>2, <1>5, <1>7
  <2>4. RightStop(d) # d.j
    BY <1>1, <2>2, <2>3, RightScan
  <2> QED
    BY <2>4 DEF Fresh, d
<1> QED
  BY <1>6, <1>7

LEMMA PassesShrink ==
  ASSUME NEW c \in Scans, LeftStop(c) # RightStop(c)
  PROVE  Grade(Exchanged(c)) < Grade(c)
<1> DEFINE d == Exchanged(c)
<1>1. d \in Scans /\ d.i = LeftStop(c) /\ d.j = RightStop(c)
  BY PassExchanges
<1> HIDE DEF d
<1>2. d.i \in c.i .. c.k /\ d.j \in c.k .. c.j
  BY <1>1, LeftScan, RightScan
<1>3. d.i \in Nat /\ d.j \in Nat /\ c.i \in Nat /\ c.j \in Nat /\ c.k \in Nat
  BY <1>1, ScanTypes
<1>4. CASE Fresh(c)
  <2>1. ~Fresh(d)
    BY <1>4, FirstMovesOver DEF d
  <2>2. d.i = c.i /\ d.j = c.j
    BY <1>1, <1>4 DEF Fresh
  <2> QED
    BY <1>3, <1>4, <2>1, <2>2 DEF Grade, d
<1>5. CASE ~Fresh(c)
  <2>1. d.i # c.i \/ d.j # c.j
    BY <1>1, <1>5 DEF Fresh
  <2>2. d.j - d.i < c.j - c.i
    BY <1>2, <1>3, <2>1
  <2>3. 2 * (d.j - d.i) + 1 < 2 * (c.j - c.i)
    BY <1>3, <2>2
  <2>4. Grade(d) <= 2 * (d.j - d.i) + 1 /\ Grade(c) = 2 * (c.j - c.i) /\ Grade(d) \in Int
    BY <1>3, <1>5 DEF Grade
  <2> QED
    BY <1>3, <2>3, <2>4 DEF d
<1> QED
  BY <1>4, <1>5

Passes(g, n) ==
  \A c \in Scans : Grade(c) <= n =>
    g[c] = IF LeftStop(c) = RightStop(c) THEN [files |-> c.files, k |-> c.k] ELSE g[Exchanged(c)]

LEMMA MorePasses ==
  ASSUME NEW n \in Int, NEW g, Passes(g, n)
  PROVE  \E h : Passes(h, n + 1)
<1> DEFINE body(c) == IF LeftStop(c) = RightStop(c) THEN [files |-> c.files, k |-> c.k]
                      ELSE g[Exchanged(c)]
           h == [c \in Scans |-> IF Grade(c) <= n THEN g[c] ELSE body(c)]
<1>1. \A c \in Scans : h[c] = body(c)
  BY DEF Passes
<1>2. \A c \in Scans : Grade(c) <= n => h[c] = g[c]
  OBVIOUS
<1>3. ASSUME NEW c \in Scans, Grade(c) <= n + 1, LeftStop(c) # RightStop(c)
      PROVE  h[Exchanged(c)] = g[Exchanged(c)]
  <2>1. Exchanged(c) \in Scans /\ Grade(Exchanged(c)) < Grade(c)
    BY <1>3, PassExchanges, PassesShrink
  <2>2. Grade(Exchanged(c)) <= n
    BY <1>3, <2>1, Graded
  <2> QED
    BY <1>2, <2>1, <2>2
<1> HIDE DEF h
<1>4. Passes(h, n + 1)
  BY <1>1, <1>3 DEF Passes
<1> QED
  BY <1>4

LEMMA PassesExist == \A n \in Nat : \E g : Passes(g, n)
<1> DEFINE S == {n \in Nat : ~\E g : Passes(g, n)}
<1> SUFFICES ASSUME S # {} PROVE FALSE
  OBVIOUS
<1>1. PICK n \in S : \A m \in S : n <= m
  <2>1. S \in SUBSET Nat /\ \E k : k \in S
    OBVIOUS
  <2> HIDE DEF S
  <2> QED
    BY <2>1, LeastExists
<1>2. n \in Nat /\ ~\E g : Passes(g, n)
  BY <1>1
<1>3. \E g : Passes(g, n - 1)
  <2>1. CASE n = 0
    <3>1. \A c \in Scans : ~(Grade(c) <= -1)
      BY Graded
    <3> QED
      BY <2>1, <3>1 DEF Passes
  <2>2. CASE n # 0
    <3>1. n - 1 \in Nat /\ ~(n <= n - 1)
      BY <1>2, <2>2
    <3> QED
      BY <1>1, <3>1
  <2> QED
    BY <2>1, <2>2
<1>4. \E g : Passes(g, (n - 1) + 1)
  BY <1>2, <1>3, MorePasses
<1> QED
  BY <1>2, <1>4

LEMMA PartitionDefined ==
  ASSUME NEW c \in Scans
  PROVE  partition[c] = IF LeftStop(c) = RightStop(c) THEN [files |-> c.files, k |-> c.k]
                        ELSE partition[Exchanged(c)]
<1> DEFINE P(g) == g = [d \in Scans |-> IF LeftStop(d) = RightStop(d)
                                        THEN [files |-> d.files, k |-> d.k]
                                        ELSE g[Exchanged(d)]]
<1>1. PICK g : Passes(g, 2 * FilesPerDir + 1)
  BY PassesExist, Sizes
<1> DEFINE h == [d \in Scans |-> g[d]]
<1>2. \A d \in Scans : h[d] = IF LeftStop(d) = RightStop(d) THEN [files |-> d.files, k |-> d.k]
                              ELSE h[Exchanged(d)]
  BY <1>1, Graded, PassExchanges DEF Passes
<1>3. P(h)
  <2> HIDE DEF h
  <2>1. h = [d \in Scans |-> h[d]]
    BY DEF h
  <2> QED
    BY <1>2, <2>1
<1>4. partition = CHOOSE f : P(f)
  BY DEF partition
<1> HIDE DEF P, h
<1>5. P(partition)
  BY <1>3, <1>4
<1> QED
  BY <1>5 DEF P

-----------------------------------------------------------------------------
(* What a pass leaves: the pivot between the records that belong before it *)
(* and those that belong after it.                                         *)

LEMMA Outside ==
  ASSUME NEW f, NEW g, NEW l, NEW h, Rearranged(f, g, l, h), NEW n \in Slots, n \notin l .. h
  PROVE  g[n] = f[n]
  BY DEF Rearranged, Permutes

LEMMA Inside ==
  ASSUME NEW f, NEW g, NEW l, NEW h, Rearranged(f, g, l, h), NEW n \in Slots, n \in l .. h
  PROVE  \E m \in Slots : m \in l .. h /\ g[n] = f[m]
  BY DEF Rearranged, Permutes

LEMMA Unrepeated ==
  ASSUME NEW f, NEW g, NEW l, NEW h, Rearranged(f, g, l, h),
         NEW m \in Slots, NEW n \in Slots, m \in l .. h, n \in l .. h, m # n
  PROVE  \E a, b \in Slots : /\ a \in l .. h /\ b \in l .. h /\ a # b
                             /\ g[m] = f[a] /\ g[n] = f[b]
<1>1. PICK p : Permutes(p, l, h) /\ \A x \in Slots : g[x] = f[p[x]]
  BY DEF Rearranged
<1>2. /\ p[m] \in Slots /\ p[n] \in Slots /\ p[m] \in l .. h /\ p[n] \in l .. h
      /\ p[m] # p[n] /\ g[m] = f[p[m]] /\ g[n] = f[p[n]]
  BY <1>1 DEF Permutes
<1> QED
  BY <1>2

Parted(c, r) ==
  /\ r.files \in Tables /\ r.k \in Slots /\ r.k \in c.i .. c.j
  /\ r.files[r.k] = c.files[c.k]
  /\ Rearranged(c.files, r.files, c.i, c.j)
  /\ \A n \in c.i .. r.k - 1 : comp_name(r.files[n], r.files[r.k])
  /\ \A n \in r.k + 1 .. c.j : comp_name(r.files[r.k], r.files[n])

LEMMA ScansMeet ==
  ASSUME NEW c \in Scans, LeftStop(c) = RightStop(c)
  PROVE  Parted(c, [files |-> c.files, k |-> c.k])
<1>1. LeftStop(c) = c.k /\ RightStop(c) = c.k
  BY LeftScan, RightScan, ScanTypes
<1>2. /\ \A n \in c.i .. c.k - 1 : comp_name(c.files[n], c.files[c.k])
      /\ \A n \in c.k + 1 .. c.j : comp_name(c.files[c.k], c.files[n])
  BY <1>1, LeftScan, RightScan
<1> QED
  BY <1>2, Same, ScanTypes DEF Parted

LEMMA PassParts ==
  ASSUME NEW c \in Scans, LeftStop(c) # RightStop(c), NEW r, Parted(Exchanged(c), r)
  PROVE  Parted(c, r)
<1> DEFINE d == Exchanged(c)
           pivot == c.files[c.k]
<1>1. /\ d \in Scans /\ d.i = LeftStop(c) /\ d.j = RightStop(c)
      /\ d.files[d.k] = pivot /\ Rearranged(c.files, d.files, d.i, d.j)
  BY PassExchanges
<1>2. Parted(d, r)
  OBVIOUS
<1> HIDE DEF d
<1>3. /\ d.i \in c.i .. c.k /\ d.j \in c.k .. c.j
      /\ \A n \in c.i .. d.i - 1 : comp_name(c.files[n], pivot)
      /\ \A n \in d.j + 1 .. c.j : comp_name(pivot, c.files[n])
  BY <1>1, LeftScan, RightScan
<1>4. /\ c.i \in Nat /\ c.j \in Nat /\ c.k \in Nat /\ d.i \in Nat /\ d.j \in Nat
      /\ c.i <= d.i /\ d.j <= c.j /\ d.i <= d.j
      /\ \A n \in c.i .. c.j : n \in Slots
  BY <1>1, <1>3, ScanTypes
<1>5. r.k \in Slots /\ r.k \in d.i .. d.j /\ r.k \in Nat /\ r.files \in Tables /\ r.files[r.k] = pivot
  BY <1>1, <1>2, <1>4, Sizes DEF Parted
<1>6. Rearranged(d.files, r.files, d.i, d.j)
  BY <1>2 DEF Parted
<1>7. Rearranged(c.files, r.files, c.i, c.j)
  <2>1. Rearranged(c.files, d.files, c.i, c.j)
    BY <1>1, <1>4, Widened
  <2> QED
    BY <1>4, <1>6, <2>1, Composed
<1>8. ASSUME NEW n \in Slots, n \notin d.i .. d.j PROVE r.files[n] = c.files[n]
  BY <1>1, <1>6, <1>8, Outside
<1>9. ASSUME NEW n \in c.i .. r.k - 1 PROVE comp_name(r.files[n], pivot)
  <2>1. n \in Nat /\ n \in Slots
    BY <1>4, <1>5
  <2>2. CASE n < d.i
    <3>1. n \in c.i .. d.i - 1 /\ n \notin d.i .. d.j
      BY <1>4, <2>1, <2>2
    <3> QED
      BY <1>3, <1>8, <2>1, <3>1
  <2>3. CASE ~(n < d.i)
    <3>1. n \in d.i .. r.k - 1
      BY <1>4, <1>5, <2>1, <2>3
    <3> QED
      BY <1>2, <1>5, <3>1 DEF Parted
  <2> QED
    BY <2>2, <2>3
<1>10. ASSUME NEW n \in r.k + 1 .. c.j PROVE comp_name(pivot, r.files[n])
  <2>1. n \in Nat /\ n \in Slots
    BY <1>4, <1>5
  <2>2. CASE n > d.j
    <3>1. n \in d.j + 1 .. c.j /\ n \notin d.i .. d.j
      BY <1>4, <2>1, <2>2
    <3> QED
      BY <1>3, <1>8, <2>1, <3>1
  <2>3. CASE ~(n > d.j)
    <3>1. n \in r.k + 1 .. d.j
      BY <1>4, <1>5, <2>1, <2>3
    <3> QED
      BY <1>2, <1>5, <3>1 DEF Parted
  <2> QED
    BY <2>2, <2>3
<1>11. r.k \in c.i .. c.j
  BY <1>4, <1>5
<1> QED
  BY <1>5, <1>7, <1>9, <1>10, <1>11 DEF Parted

(* The records before the pivot belong before it, those after it after it, *)
(* whatever table, range and pivot the sort of zx_shell.c starts from.     *)
LEMMA PartitionParts ==
  ASSUME NEW c \in Scans
  PROVE  Parted(c, partition[c])
<1> DEFINE S == {Grade(d) : d \in {e \in Scans : ~Parted(e, partition[e])}}
<1> SUFFICES ASSUME ~Parted(c, partition[c]) PROVE FALSE
  OBVIOUS
<1>1. S \in SUBSET Nat /\ Grade(c) \in S
  BY Graded
<1>2. \A e \in Scans : ~Parted(e, partition[e]) => Grade(e) \in S
  OBVIOUS
<1>3. \A n \in S : \E e \in Scans : ~Parted(e, partition[e]) /\ Grade(e) = n
  OBVIOUS
<1> HIDE DEF S
<1>4. Min(S) \in S /\ \A n \in S : Min(S) <= n
  BY <1>1, LeastExists
<1>5. PICK d \in Scans : ~Parted(d, partition[d]) /\ Grade(d) = Min(S)
  BY <1>3, <1>4
<1>6. CASE LeftStop(d) = RightStop(d)
  BY <1>5, <1>6, PartitionDefined, ScansMeet
<1>7. CASE LeftStop(d) # RightStop(d)
  <2> DEFINE e == Exchanged(d)
  <2>1. e \in Scans /\ Grade(e) < Grade(d) /\ Grade(e) \in Nat /\ Grade(d) \in Nat
    BY <1>7, PassExchanges, PassesShrink, Graded
  <2>2. Parted(e, partition[e])
    <3> SUFFICES ASSUME ~Parted(e, partition[e]) PROVE FALSE
      OBVIOUS
    <3>1. Grade(d) <= Grade(e)
      BY <1>2, <1>4, <1>5, <2>1
    <3> QED
      BY <2>1, <3>1
  <2> QED
    BY <1>5, <1>7, <2>2, PartitionDefined, PassParts
<1> QED
  BY <1>6, <1>7

-----------------------------------------------------------------------------
(* The sort. *)

Ordered(f, l, h) ==
  \A m, n \in Slots : l <= m /\ m < n /\ n <= h => comp_name(f[m], f[n])

SortOf(r, f) ==
  f \in Tables /\ Rearranged(r.files, f, r.l, r.h) /\ Ordered(f, r.l, r.h)

FullScan(r) == [files |-> r.files, i |-> r.l, j |-> r.h, k |-> (r.l + r.h) \div 2]
Below(r, split) == [files |-> split.files, l |-> r.l, h |-> split.k - 1]
Above(r, split, lower) == [files |-> lower, l |-> split.k + 1, h |-> r.h]

LEMMA RangeTypes ==
  ASSUME NEW r \in Ranges
  PROVE  /\ r.files \in Tables /\ r.l \in Slots /\ r.h \in Slots
         /\ r.l \in Nat /\ r.h \in Nat /\ r.l <= r.h /\ r.h < FilesPerDir
         /\ \A n \in r.l .. r.h : n \in Slots
  BY Sizes DEF Ranges, Slots

LEMMA FirstScan ==
  ASSUME NEW r \in Ranges
  PROVE  FullScan(r) \in Scans
<1>1. (r.l + r.h) \div 2 \in r.l .. r.h
  BY RangeTypes
<1> QED
  BY <1>1, RangeTypes DEF FullScan, Scans

LEMMA HalvesSorted ==
  ASSUME NEW r \in Ranges, NEW split, Parted(FullScan(r), split), NEW lower, NEW f,
         IF r.l < split.k - 1 THEN SortOf(Below(r, split), lower) ELSE lower = split.files,
         IF split.k + 1 < r.h THEN SortOf(Above(r, split, lower), f) ELSE f = lower
  PROVE  SortOf(r, f)
<1> DEFINE k == split.k
           pivot == split.files[k]
<1>1. /\ split.files \in Tables /\ k \in Slots /\ k \in r.l .. r.h
      /\ Rearranged(r.files, split.files, r.l, r.h)
      /\ \A n \in r.l .. k - 1 : comp_name(split.files[n], pivot)
      /\ \A n \in k + 1 .. r.h : comp_name(pivot, split.files[n])
  BY DEF Parted, FullScan
<1>2. /\ r.l \in Nat /\ r.h \in Nat /\ k \in Nat /\ r.l <= k /\ k <= r.h
      /\ k - 1 \in Int /\ k + 1 \in Int
      /\ \A n \in r.l .. r.h : n \in Slots
      /\ \A n \in Slots : n \in Nat
  BY <1>1, RangeTypes, Sizes DEF Slots
<1>3. /\ lower \in Tables /\ Rearranged(split.files, lower, r.l, k - 1)
      /\ Ordered(lower, r.l, k - 1)
  <2>1. CASE r.l < k - 1
    BY <2>1 DEF SortOf, Below
  <2>2. CASE ~(r.l < k - 1)
    <3>1. Ordered(split.files, r.l, k - 1)
      BY <1>2, <2>2 DEF Ordered
    <3> QED
      BY <1>1, <2>2, <3>1, Same
  <2> QED
    BY <2>1, <2>2
<1>4. /\ f \in Tables /\ Rearranged(lower, f, k + 1, r.h) /\ Ordered(f, k + 1, r.h)
  <2>1. CASE k + 1 < r.h
    BY <2>1 DEF SortOf, Above
  <2>2. CASE ~(k + 1 < r.h)
    <3>1. Ordered(lower, k + 1, r.h)
      BY <1>2, <2>2 DEF Ordered
    <3> QED
      BY <1>3, <2>2, <3>1, Same
  <2> QED
    BY <2>1, <2>2
<1> HIDE DEF k, pivot
<1>5. Rearranged(r.files, f, r.l, r.h)
  <2>1. Rearranged(r.files, lower, r.l, r.h)
    <3>1. r.l <= r.l /\ k - 1 <= r.h
      BY <1>2
    <3> QED
      BY <1>1, <1>2, <1>3, <3>1, Composed
  <2>2. r.l <= k + 1 /\ r.h <= r.h
    BY <1>2
  <2> QED
    BY <1>2, <1>4, <2>1, <2>2, Composed
<1>6. lower[k] = pivot /\ f[k] = pivot
  <2>1. k \notin r.l .. k - 1 /\ k \notin k + 1 .. r.h
    BY <1>2
  <2> QED
    BY <1>1, <1>3, <1>4, <2>1, Outside DEF k, pivot
<1>7. ASSUME NEW n \in Slots, r.l <= n, n < k
      PROVE  f[n] = lower[n] /\ comp_name(f[n], pivot)
  <2>1. n \in r.l .. k - 1 /\ n \notin k + 1 .. r.h
    BY <1>2, <1>7
  <2>2. f[n] = lower[n]
    BY <1>4, <2>1, Outside
  <2>3. PICK m \in Slots : m \in r.l .. k - 1 /\ lower[n] = split.files[m]
    BY <1>3, <2>1, Inside
  <2> QED
    BY <1>1, <2>2, <2>3
<1>8. ASSUME NEW n \in Slots, k < n, n <= r.h
      PROVE  comp_name(pivot, f[n])
  <2>1. n \in k + 1 .. r.h
    BY <1>2, <1>8
  <2>2. PICK m \in Slots : m \in k + 1 .. r.h /\ f[n] = lower[m]
    BY <1>4, <2>1, Inside
  <2>3. m \notin r.l .. k - 1
    BY <1>2, <2>2
  <2>4. lower[m] = split.files[m]
    BY <1>3, <2>3, Outside
  <2> QED
    BY <1>1, <2>2, <2>4
<1>9. Ordered(f, r.l, r.h)
  <2> SUFFICES ASSUME NEW m \in Slots, NEW n \in Slots, r.l <= m, m < n, n <= r.h
               PROVE  comp_name(f[m], f[n])
    BY DEF Ordered
  <2>1. m \in Nat /\ n \in Nat
    BY <1>2
  <2>2. CASE n < k
    <3>1. m < k /\ r.l <= n /\ n <= k - 1
      BY <1>2, <2>1, <2>2
    <3>2. f[m] = lower[m] /\ f[n] = lower[n]
      BY <1>7, <2>2, <3>1
    <3> QED
      BY <1>3, <3>1, <3>2 DEF Ordered
  <2>3. CASE n = k
    BY <1>6, <1>7, <2>3
  <2>4. CASE m = k
    BY <1>6, <1>8, <2>4
  <2>5. CASE m < k /\ k < n
    <3>1. f[m] \in Records /\ pivot \in Records /\ f[n] \in Records
      BY <1>1, <1>4 DEF Tables, pivot, k
    <3> QED
      BY <1>7, <1>8, <2>5, <3>1, InOrder
  <2>6. CASE k < m
    <3>1. k + 1 <= m
      BY <1>2, <2>1, <2>6
    <3> QED
      BY <1>4, <3>1 DEF Ordered
  <2> QED
    BY <1>2, <2>1, <2>2, <2>3, <2>4, <2>5, <2>6
<1> QED
  BY <1>4, <1>5, <1>9 DEF SortOf

(* One call of the sort, with g for the calls it makes. *)
Split(r) == partition[FullScan(r)]
LowerSorted(g, r) ==
  IF r.l < Split(r).k - 1 THEN g[Below(r, Split(r))] ELSE Split(r).files
Halved(g, r) ==
  IF Split(r).k + 1 < r.h THEN g[Above(r, Split(r), LowerSorted(g, r))] ELSE LowerSorted(g, r)

Sorts(g, n) ==
  \A r \in Ranges : r.h - r.l <= n => g[r] = Halved(g, r) /\ SortOf(r, g[r])

LEMMA CallSorts ==
  ASSUME NEW n \in Int, NEW g, Sorts(g, n), NEW r \in Ranges, r.h - r.l <= n + 1,
         NEW h, \A q \in Ranges : q.h - q.l <= n => h[q] = g[q]
  PROVE  Halved(h, r) = Halved(g, r) /\ SortOf(r, Halved(g, r))
<1> DEFINE split == Split(r)
           lower == LowerSorted(g, r)
<1>1. Parted(FullScan(r), split)
  BY FirstScan, PartitionParts DEF Split
<1>2. split.files \in Tables /\ split.k \in Slots /\ split.k \in r.l .. r.h
  BY <1>1 DEF Parted, FullScan
<1>3. /\ r.l \in Nat /\ r.h \in Nat /\ split.k \in Nat /\ r.l <= split.k /\ split.k <= r.h
      /\ \A m \in r.l .. r.h : m \in Slots
      /\ r.l \in Slots /\ r.h \in Slots
  BY <1>2, RangeTypes
<1> HIDE DEF split
<1>4. LowerSorted(h, r) = lower
      /\ IF r.l < split.k - 1 THEN SortOf(Below(r, split), lower) ELSE lower = split.files
  <2>1. CASE r.l < split.k - 1
    <3> DEFINE q == Below(r, split)
    <3>1. split.k - 1 \in r.l .. r.h
      BY <1>3, <2>1
    <3>2. q = [files |-> split.files, l |-> r.l, h |-> split.k - 1]
      BY DEF Below
    <3>3. q \in Ranges /\ q.l = r.l /\ q.h = split.k - 1
      BY <1>2, <1>3, <2>1, <3>1, <3>2 DEF Ranges
    <3>4. q.h - q.l <= n
      BY <1>3, <3>3
    <3> HIDE DEF q
    <3>5. h[q] = g[q] /\ SortOf(q, g[q])
      BY <3>3, <3>4 DEF Sorts
    <3>6. LowerSorted(h, r) = h[q] /\ lower = g[q]
      BY <2>1 DEF LowerSorted, q, split
    <3> QED
      BY <2>1, <3>5, <3>6 DEF q
  <2>2. CASE ~(r.l < split.k - 1)
    BY <2>2 DEF LowerSorted, split
  <2> QED
    BY <2>1, <2>2
<1>5. lower \in Tables
  BY <1>2, <1>4 DEF SortOf
<1> HIDE DEF lower
<1>6. Halved(h, r) = Halved(g, r)
      /\ IF split.k + 1 < r.h THEN SortOf(Above(r, split, lower), Halved(g, r))
         ELSE Halved(g, r) = lower
  <2>1. CASE split.k + 1 < r.h
    <3> DEFINE q == Above(r, split, lower)
    <3>1. split.k + 1 \in r.l .. r.h
      BY <1>3, <2>1
    <3>2. q = [files |-> lower, l |-> split.k + 1, h |-> r.h]
      BY DEF Above
    <3>3. q \in Ranges /\ q.l = split.k + 1 /\ q.h = r.h
      BY <1>3, <1>5, <2>1, <3>1, <3>2 DEF Ranges
    <3>4. q.h - q.l <= n
      BY <1>3, <3>3
    <3> HIDE DEF q
    <3>5. h[q] = g[q] /\ SortOf(q, g[q])
      BY <3>3, <3>4 DEF Sorts
    <3>6. Halved(h, r) = h[q] /\ Halved(g, r) = g[q]
      BY <1>4, <2>1 DEF Halved, q, split, lower
    <3> QED
      BY <2>1, <3>5, <3>6 DEF q
  <2>2. CASE ~(split.k + 1 < r.h)
    BY <1>4, <2>2 DEF Halved, split, lower
  <2> QED
    BY <2>1, <2>2
<1> QED
  BY <1>1, <1>4, <1>6, HalvesSorted

LEMMA MoreSorts ==
  ASSUME NEW n \in Int, NEW g, Sorts(g, n)
  PROVE  \E h : Sorts(h, n + 1)
<1> DEFINE h == [r \in Ranges |-> IF r.h - r.l <= n THEN g[r] ELSE Halved(g, r)]
<1>1. \A q \in Ranges : q.h - q.l <= n => h[q] = g[q]
  OBVIOUS
<1>2. \A r \in Ranges : h[r] = Halved(g, r)
  BY DEF Sorts
<1> HIDE DEF h
<1>3. ASSUME NEW r \in Ranges, r.h - r.l <= n + 1
      PROVE  h[r] = Halved(h, r) /\ SortOf(r, h[r])
  BY <1>1, <1>2, <1>3, CallSorts
<1> QED
  BY <1>3 DEF Sorts

LEMMA SortsExist == \A n \in Nat : \E g : Sorts(g, n)
<1> DEFINE S == {n \in Nat : ~\E g : Sorts(g, n)}
<1> SUFFICES ASSUME S # {} PROVE FALSE
  OBVIOUS
<1>1. PICK n \in S : \A m \in S : n <= m
  <2>1. S \in SUBSET Nat /\ \E k : k \in S
    OBVIOUS
  <2> HIDE DEF S
  <2> QED
    BY <2>1, LeastExists
<1>2. n \in Nat /\ ~\E g : Sorts(g, n)
  BY <1>1
<1>3. \E g : Sorts(g, n - 1)
  <2>1. CASE n = 0
    <3>1. \A r \in Ranges : ~(r.h - r.l <= -1)
      BY RangeTypes
    <3> QED
      BY <2>1, <3>1 DEF Sorts
  <2>2. CASE n # 0
    <3>1. n - 1 \in Nat /\ ~(n <= n - 1)
      BY <1>2, <2>2
    <3> QED
      BY <1>1, <3>1
  <2> QED
    BY <2>1, <2>2
<1>4. \E g : Sorts(g, (n - 1) + 1)
  BY <1>2, <1>3, MoreSorts
<1> QED
  BY <1>2, <1>4

LEMMA SortDefined ==
  ASSUME NEW r \in Ranges
  PROVE  qsort[r] = Halved(qsort, r)
<1> DEFINE P(g) == g = [q \in Ranges |-> Halved(g, q)]
<1>1. PICK g : Sorts(g, FilesPerDir)
  BY SortsExist, Sizes
<1>2. \A q \in Ranges : q.h - q.l <= FilesPerDir
  BY RangeTypes, Sizes
<1> DEFINE h == [q \in Ranges |-> g[q]]
<1>3. \A q \in Ranges : h[q] = g[q]
  OBVIOUS
<1>4. \A q \in Ranges : h[q] = Halved(h, q)
  <2> SUFFICES ASSUME NEW q \in Ranges PROVE h[q] = Halved(h, q)
    OBVIOUS
  <2>1. q.h - q.l <= FilesPerDir + 1
    BY <1>2, RangeTypes, Sizes
  <2> HIDE DEF h
  <2>2. Halved(h, q) = Halved(g, q)
    BY <1>1, <1>3, <2>1, CallSorts, Sizes
  <2> QED
    BY <1>1, <1>2, <1>3, <2>2 DEF Sorts
<1>5. P(h)
  <2>1. h = [q \in Ranges |-> h[q]]
    OBVIOUS
  <2> HIDE DEF h
  <2> QED
    BY <1>4, <2>1
<1>6. qsort = CHOOSE f : P(f)
  BY DEF qsort, Halved, LowerSorted, Split, FullScan, Below, Above
<1> HIDE DEF P, h
<1>7. P(qsort)
  BY <1>5, <1>6
<1> QED
  BY <1>7 DEF P

(* The sort of zx_shell.c ends with the records of the range in order,     *)
(* each of them once, whatever the table holds and wherever the pivots go. *)
THEOREM SortSorts ==
  ASSUME NEW r \in Ranges
  PROVE  SortOf(r, qsort[r])
<1> DEFINE S == {q.h - q.l : q \in {e \in Ranges : ~SortOf(e, qsort[e])}}
<1> SUFFICES ASSUME ~SortOf(r, qsort[r]) PROVE FALSE
  OBVIOUS
<1>1. \A e \in Ranges : ~SortOf(e, qsort[e]) => e.h - e.l \in S
  OBVIOUS
<1>2. \A n \in S : \E e \in Ranges : ~SortOf(e, qsort[e]) /\ e.h - e.l = n
  OBVIOUS
<1> HIDE DEF S
<1>3. S \in SUBSET Nat
  BY <1>2, RangeTypes
<1> DEFINE low == Min(S)
<1>4. low \in S /\ \A n \in S : low <= n
  BY <1>1, <1>3, LeastExists
<1> HIDE DEF low
<1>5. PICK q \in Ranges : ~SortOf(q, qsort[q]) /\ q.h - q.l = low
  BY <1>2, <1>4
<1> DEFINE n == low - 1
<1>6. n \in Int /\ q.h - q.l <= n + 1 /\ low \in Nat
  BY <1>3, <1>4, <1>5
<1>7. ASSUME NEW e \in Ranges, e.h - e.l <= n
      PROVE  SortOf(e, qsort[e])
  <2>1. e.h - e.l \in Int /\ e.h - e.l < low
    BY <1>6, <1>7, RangeTypes
  <2>2. ~(low <= e.h - e.l)
    BY <1>6, <2>1
  <2> QED
    BY <1>1, <1>4, <2>2
<1> HIDE DEF n
<1>8. Sorts(qsort, n)
  BY <1>7, SortDefined DEF Sorts
<1>9. SortOf(q, Halved(qsort, q))
  BY <1>6, <1>8, CallSorts
<1> QED
  BY <1>5, <1>9, SortDefined

-----------------------------------------------------------------------------
(* The table of the browser: what a directory leaves in it. *)

LEMMA EntriesTyped ==
  ASSUME NEW path, NEW listing \in Listings
  PROVE  /\ Entries(path, listing) \in Seq(Records)
         /\ listing \in Seq(Records) /\ Len(listing) \in Nat
         /\ path = <<>> => Entries(path, listing) = listing
         /\ path # <<>> =>
              /\ Len(Entries(path, listing)) = Len(listing) + 1
              /\ Entries(path, listing)[1] = Dot
              /\ \A n \in 1 .. Len(listing) : Entries(path, listing)[n + 1] = listing[n]
<1>1. listing \in Seq(Records) /\ Dot \in Records
  BY ShellAssumption DEF Records, Dot
<1>2. Len(listing) \in Nat
  BY <1>1, LenProperties
<1>3. CASE path = <<>>
  <2>1. <<>> \o listing = listing
    BY <1>1, ConcatEmptySeq
  <2> QED
    BY <1>1, <1>2, <1>3, <2>1 DEF Entries
<1>4. CASE path # <<>>
  <2> DEFINE s == <<Dot>>
  <2>1. s \in Seq(Records) /\ Len(s) = 1 /\ s[1] = Dot
    BY <1>1
  <2> HIDE DEF s
  <2>2. /\ s \o listing \in Seq(Records)
        /\ Len(s \o listing) = Len(s) + Len(listing)
        /\ \A i \in 1 .. Len(s) + Len(listing) :
             (s \o listing)[i] = IF i <= Len(s) THEN s[i] ELSE listing[i - Len(s)]
    BY <1>1, <2>1, ConcatProperties
  <2>3. Entries(path, listing) = s \o listing
    BY <1>4 DEF Entries, s
  <2> DEFINE e == s \o listing
  <2> HIDE DEF e
  <2>4. /\ e \in Seq(Records) /\ Len(e) = Len(listing) + 1
        /\ \A i \in 1 .. Len(listing) + 1 : e[i] = IF i <= 1 THEN Dot ELSE listing[i - 1]
    BY <1>2, <2>1, <2>2 DEF e
  <2>5. e[1] = Dot
    BY <1>2, <2>4
  <2>6. \A n \in 1 .. Len(listing) : e[n + 1] = listing[n]
    <3> SUFFICES ASSUME NEW n \in 1 .. Len(listing) PROVE e[n + 1] = listing[n]
      OBVIOUS
    <3>1. n + 1 \in 1 .. Len(listing) + 1 /\ ~(n + 1 <= 1) /\ (n + 1) - 1 = n
      BY <1>2
    <3> QED
      BY <2>4, <3>1
  <2>7. Entries(path, listing) = e
    BY <2>3 DEF e
  <2> QED
    BY <1>1, <1>2, <1>4, <2>4, <2>5, <2>6, <2>7
<1> QED
  BY <1>3, <1>4

LEMMA EntriesDistinct ==
  ASSUME NEW path, NEW listing \in Listings, DistinctNames(listing),
         NEW m \in 1 .. Len(Entries(path, listing)),
         NEW n \in 1 .. Len(Entries(path, listing)), m # n
  PROVE  Entries(path, listing)[m].name # Entries(path, listing)[n].name
<1> DEFINE e == Entries(path, listing)
<1>1. listing \in Seq(Records) /\ Len(listing) \in Nat
  BY EntriesTyped
<1>2. DOMAIN listing = 1 .. Len(listing)
  BY <1>1, LenProperties
<1>3. \A a, b \in 1 .. Len(listing) :
         listing[a].name # Parent /\ (a # b => listing[a].name # listing[b].name)
  BY <1>2 DEF DistinctNames
<1>4. Dot.name = Parent
  BY DEF Dot
<1>5. CASE path = <<>>
  BY <1>3, <1>5, EntriesTyped
<1>6. CASE path # <<>>
  <2>1. /\ Len(e) = Len(listing) + 1 /\ e[1] = Dot
        /\ \A a \in 1 .. Len(listing) : e[a + 1] = listing[a]
    BY <1>6, EntriesTyped
  <2> HIDE DEF e
  <2>2. \A a \in 1 .. Len(e) : a # 1 => a - 1 \in 1 .. Len(listing) /\ e[a] = listing[a - 1]
    <3> SUFFICES ASSUME NEW a \in 1 .. Len(e), a # 1
                 PROVE  a - 1 \in 1 .. Len(listing) /\ e[a] = listing[a - 1]
      OBVIOUS
    <3>1. a - 1 \in 1 .. Len(listing) /\ (a - 1) + 1 = a
      BY <1>1, <2>1
    <3> QED
      BY <2>1, <3>1
  <2>3. m \in 1 .. Len(e) /\ n \in 1 .. Len(e)
    BY DEF e
  <2>4. e[m].name # e[n].name
    <3>1. CASE m = 1
      BY <1>3, <1>4, <2>1, <2>2, <2>3, <3>1
    <3>2. CASE n = 1
      BY <1>3, <1>4, <2>1, <2>2, <2>3, <3>2
    <3>3. CASE m # 1 /\ n # 1
      <4>1. m - 1 # n - 1
        BY <1>1, <2>1, <2>3
      <4> QED
        BY <1>3, <2>2, <2>3, <3>3, <4>1
    <3> QED
      BY <3>1, <3>2, <3>3
  <2> QED
    BY <2>4 DEF e
<1> QED
  BY <1>5, <1>6

LEMMA StoredTyped ==
  ASSUME NEW files \in Tables, NEW entries \in Seq(Records)
  PROVE  /\ Stored(files, entries) \in Tables
         /\ \A n \in Slots : n < Len(entries) =>
              n + 1 \in 1 .. Len(entries) /\ Stored(files, entries)[n] = entries[n + 1]
<1>1. Len(entries) \in Nat
  BY LenProperties
<1>2. \A n \in Slots : n \in Nat /\ (n < Len(entries) => n + 1 \in 1 .. Len(entries))
  BY <1>1, Sizes DEF Slots
<1>3. \A n \in 1 .. Len(entries) : entries[n] \in Records
  BY ElementOfSeq
<1>4. \A n \in Slots : files[n] \in Records
  BY DEF Tables
<1> QED
  BY <1>2, <1>3, <1>4 DEF Stored, Tables

(* The fields IsView leaves out; the entries of the table have names of    *)
(* their own, and are in order when they have been sorted.                 *)
Listed(v) ==
  /\ v.path \in Seq(Names) /\ Len(v.path) <= PathRoom
  /\ v.files \in Tables /\ v.tooMany \in BOOLEAN

NoRepeats(files, total) ==
  \A m, n \in Slots : m < total /\ n < total /\ m # n => files[m].name # files[n].name

Tidy(v) ==
  /\ NoRepeats(v.files, v.total)
  /\ 0 < v.total /\ v.total < SortLimit => Ordered(v.files, 0, v.total - 1)

LEMMA SortKeepsNames ==
  ASSUME NEW f \in Tables, NEW g, NEW total \in 1 .. FilesPerDir,
         Rearranged(f, g, 0, total - 1), NoRepeats(f, total)
  PROVE  NoRepeats(g, total)
<1> SUFFICES ASSUME NEW m \in Slots, NEW n \in Slots, m < total, n < total, m # n
             PROVE  g[m].name # g[n].name
  BY DEF NoRepeats
<1>1. \A x \in Slots : x < total <=> x \in 0 .. total - 1
  BY Sizes DEF Slots
<1>2. PICK a \in Slots, b \in Slots :
        a \in 0 .. total - 1 /\ b \in 0 .. total - 1 /\ a # b /\ g[m] = f[a] /\ g[n] = f[b]
  <2>1. m \in 0 .. total - 1 /\ n \in 0 .. total - 1
    BY <1>1
  <2> QED
    BY <2>1, Unrepeated
<1> QED
  BY <1>1, <1>2 DEF NoRepeats

LEMMA TableRead ==
  ASSUME NEW v, IsView(v), Listed(v), NEW listing \in Listings
  PROVE  LET w == read_dir(v, listing) IN
         Listed(w) /\ w.path = v.path /\ (UniqueNames => Tidy(w))
<1> DEFINE entries == Entries(v.path, listing)
           many == Len(entries) > FilesPerDir
           total == IF ~many THEN Len(entries) ELSE IF v.path = <<>> THEN 0 ELSE 1
           files == Stored(v.files, entries)
           r == [files |-> files, l |-> 0, h |-> total - 1]
           table == IF 0 < total /\ total < SortLimit THEN qsort[r] ELSE files
           w == read_dir(v, listing)
<1>1. w = [v EXCEPT !.files = table, !.total = total, !.tooMany = many,
                    !.sel = 0, !.start = 0, !.placed = FALSE]
  BY DEF read_dir
<1>2. entries \in Seq(Records) /\ Len(entries) \in Nat
  BY EntriesTyped, LenProperties
<1>3. total \in 0 .. FilesPerDir /\ (total = Len(entries) \/ total = 0 \/ total = 1)
      /\ total <= Len(entries)
  <2> DEFINE n == Len(entries)
  <2>1. n \in Nat
    BY <1>2
  <2>2. total = IF ~(n > FilesPerDir) THEN n ELSE IF v.path = <<>> THEN 0 ELSE 1
    OBVIOUS
  <2> HIDE DEF n, total
  <2>3. total \in 0 .. FilesPerDir /\ (total = n \/ total = 0 \/ total = 1) /\ total <= n
    BY <2>1, <2>2, Sizes
  <2> QED
    BY <2>3 DEF n
<1>4. many \in BOOLEAN
  OBVIOUS
<1>5. /\ files \in Tables
      /\ \A n \in Slots : n < Len(entries) =>
           n + 1 \in 1 .. Len(entries) /\ files[n] = entries[n + 1]
  BY <1>2, StoredTyped DEF Listed
<1>6. ASSUME UniqueNames PROVE NoRepeats(files, total)
  <2>1. \A m, n \in 1 .. Len(entries) : m # n => entries[m].name # entries[n].name
    BY <1>6, EntriesDistinct DEF UniqueNames
  <2>2. \A n \in Slots : n \in Int /\ (n < total => n < Len(entries))
    BY <1>2, <1>3, Sizes DEF Slots
  <2> HIDE DEF entries, files, total
  <2>3. \A m, n \in Slots : m # n => m + 1 # n + 1
    BY <2>2
  <2> QED
    BY <1>5, <2>1, <2>2, <2>3 DEF NoRepeats
<1> HIDE DEF entries, many, total, files, table, w
<1>7. ASSUME 0 < total, total < SortLimit
      PROVE  table \in Tables /\ Rearranged(files, table, 0, total - 1) /\ Ordered(table, 0, total - 1)
  <2>1. r \in Ranges /\ r.files = files /\ r.l = 0 /\ r.h = total - 1
    BY <1>3, <1>5, <1>7, Sizes DEF Ranges, Slots
  <2>2. table = qsort[r]
    BY <1>7 DEF table
  <2> HIDE DEF r
  <2> QED
    BY <2>1, <2>2, SortSorts DEF SortOf
<1>8. table \in Tables
  <2>1. ~(0 < total /\ total < SortLimit) => table = files
    BY DEF table
  <2> QED
    BY <1>5, <1>7, <2>1
<1>9. ASSUME UniqueNames PROVE NoRepeats(table, total)
  <2>1. CASE 0 < total /\ total < SortLimit
    <3>1. total \in 1 .. FilesPerDir
      BY <1>3, <2>1, Sizes
    <3> QED
      BY <1>5, <1>6, <1>7, <1>9, <2>1, <3>1, SortKeepsNames
  <2>2. CASE ~(0 < total /\ total < SortLimit)
    BY <1>6, <1>9, <2>2 DEF table
  <2> QED
    BY <2>1, <2>2
<1>10. w.path = v.path /\ w.files = table /\ w.total = total /\ w.tooMany = many
  BY <1>1 DEF IsView, Fields
<1>11. Listed(w)
  BY <1>4, <1>8, <1>10, Zenon DEF Listed
<1>12. UniqueNames => Tidy(w)
  BY <1>7, <1>9, <1>10 DEF Tidy
<1> QED
  BY <1>10, <1>11, <1>12 DEF w

LEMMA CalcKeepsTable ==
  ASSUME NEW v, IsView(v)
  PROVE  LET w == calc_sel(v) IN
         /\ w.path = v.path /\ w.files = v.files /\ w.total = v.total
         /\ w.tooMany = v.tooMany
  BY DEF calc_sel, IsView, Fields

LEMMA TableKept ==
  ASSUME NEW v, Listed(v), NEW w, w.path = v.path, w.files = v.files, w.total = v.total,
         w.tooMany = v.tooMany, UniqueNames => Tidy(v)
  PROVE  Listed(w) /\ (UniqueNames => Tidy(w))
  BY DEF Listed, Tidy

LEMMA PathReplaced ==
  ASSUME NEW v, IsView(v), Listed(v), NEW path \in Seq(Names), Len(path) <= PathRoom
  PROVE  LET w == [v EXCEPT !.path = path] IN IsView(w) /\ Listed(w) /\ w.path = path
<1> DEFINE w == [v EXCEPT !.path = path]
<1>1. IsView(w)
  BY PathChanged
<1>2. w.path = path /\ w.files = v.files /\ w.tooMany = v.tooMany
  BY DEF IsView, Fields
<1> HIDE DEF w
<1>3. Listed(w)
  BY <1>2 DEF Listed
<1> QED
  BY <1>1, <1>2, <1>3 DEF w

LEMMA Shortened ==
  ASSUME NEW path \in Seq(Names), path # <<>>, Len(path) <= PathRoom
  PROVE  /\ Front(path) \in Seq(Names) /\ Len(Front(path)) = Len(path) - 1
         /\ Len(path) \in Nat \ {0} /\ Len(Front(path)) <= PathRoom
<1>1. Len(path) \in Nat \ {0}
  BY EmptySeq
<1>2. \A i \in 1 .. Len(path) - 1 : path[i] \in Names
  BY <1>1, ElementOfSeq
<1>3. /\ Front(path) \in Seq(Names)
      /\ Len(Front(path)) = IF 1 <= Len(path) - 1 THEN Len(path) - 1 - 1 + 1 ELSE 0
  BY <1>1, <1>2, SubSeqProperties DEF Front
<1>4. PathRoom \in Nat
  BY ShellAssumption
<1> QED
  BY <1>1, <1>3, <1>4

(* The directory left is looked for in the table of its parent. *)
LEMMA LeavingLists ==
  ASSUME NEW v, IsView(v), Listed(v), v.path # <<>>, NEW listing \in Listings
  PROVE  LET w == leave_dir(v, listing) IN
         /\ Listed(w) /\ (UniqueNames => Tidy(w)) /\ w.path = Front(v.path)
         /\ w.total \in 0 .. FilesPerDir /\ w.hung = v.hung
         /\ w.start \in 0 .. w.sel
         /\ w.sel = Found(w, Last(v.path))
<1> DEFINE up == [v EXCEPT !.path = Front(v.path)]
           parent == read_dir(up, listing)
           sel == Found(parent, Last(v.path))
           far == parent.start + 2 * Row - 1 < sel
           top == IF far THEN sel ELSE parent.start
           w == [parent EXCEPT !.sel = sel, !.placed = far, !.start = top]
<1>1. leave_dir(v, listing) = w
  BY DEF leave_dir
<1>2. Front(v.path) \in Seq(Names) /\ Len(Front(v.path)) <= PathRoom
  BY Shortened DEF Listed
<1>3. IsView(up) /\ Listed(up) /\ up.path = Front(v.path) /\ up.hung = v.hung
  BY <1>2, PathReplaced, PathChanged
<1> HIDE DEF up
<1>4. /\ IsView(parent) /\ parent.start = 0 /\ parent.hung = v.hung
      /\ Listed(parent) /\ parent.path = Front(v.path) /\ (UniqueNames => Tidy(parent))
  BY <1>3, DirectoryRead, TableRead
<1> HIDE DEF parent
<1>5. sel \in Nat
  <2> DEFINE places == {n \in 0 .. parent.total - 1 : parent.files[n].name = Last(v.path)} \cup {parent.total}
  <2>1. places \in SUBSET Nat /\ parent.total \in places
    BY <1>4, Sizes DEF IsView
  <2>2. sel = Min(places)
    BY DEF Found
  <2> HIDE DEF places, sel
  <2> QED
    BY <2>1, <2>2, LeastExists
<1>6. w.files = parent.files /\ w.total = parent.total /\ w.tooMany = parent.tooMany
      /\ w.path = parent.path /\ w.sel = sel /\ w.start = top /\ w.hung = parent.hung
  BY <1>4 DEF IsView, Fields
<1>7. sel = Found(w, Last(v.path))
  BY <1>6 DEF Found
<1>8. top \in 0 .. sel
  BY <1>4, <1>5
<1> HIDE DEF w, sel, top
<1>9. Listed(w) /\ (UniqueNames => Tidy(w))
  BY <1>4, <1>6, TableKept
<1>10. w.total \in 0 .. FilesPerDir
  BY <1>4, <1>6 DEF IsView
<1> QED
  BY <1>1, <1>4, <1>6, <1>7, <1>8, <1>9, <1>10

LEMMA EnteringLists ==
  ASSUME NEW v, IsView(v), Listed(v), UniqueNames => Tidy(v),
         NEW name \in Names, NEW listing \in Listings
  PROVE  LET w == enter_dir(v, name, listing) IN
         /\ Listed(w) /\ (UniqueNames => Tidy(w)) /\ ~(Len(w.path) < Len(v.path))
<1> DEFINE path == Append(v.path, name)
           sub == [v EXCEPT !.path = path]
<1>1. enter_dir(v, name, listing) = IF Len(v.path) < PathRoom THEN read_dir(sub, listing) ELSE v
  BY DEF enter_dir
<1>2. v.path \in Seq(Names) /\ Len(v.path) \in Nat /\ PathRoom \in Nat
  BY LenProperties, ShellAssumption DEF Listed
<1>3. path \in Seq(Names) /\ Len(path) = Len(v.path) + 1
  BY <1>2, AppendProperties
<1> HIDE DEF path
<1>4. CASE Len(v.path) < PathRoom
  <2>1. Len(path) <= PathRoom
    BY <1>2, <1>3, <1>4
  <2>2. IsView(sub) /\ Listed(sub) /\ sub.path = path
    BY <1>3, <2>1, PathReplaced
  <2> HIDE DEF sub
  <2>3. LET w == read_dir(sub, listing) IN
        Listed(w) /\ (UniqueNames => Tidy(w)) /\ w.path = path
    BY <2>2, TableRead
  <2> QED
    BY <1>1, <1>2, <1>3, <1>4, <2>3
<1>5. CASE ~(Len(v.path) < PathRoom)
  BY <1>1, <1>2, <1>5
<1> QED
  BY <1>4, <1>5

(* An entry of that name is selected, and calc_sel leaves it selected. *)
LEMMA LeftIsFound ==
  ASSUME NEW w, IsView(w), NoRepeats(w.files, w.total), ~w.hung, w.start \in 0 .. w.sel,
         NEW name, w.sel = Found(w, name),
         NEW n \in 0 .. w.total - 1, w.files[n].name = name
  PROVE  calc_sel(w).sel = n /\ ~calc_sel(w).hung
<1> DEFINE same == {m \in 0 .. w.total - 1 : w.files[m].name = name}
           places == same \cup {w.total}
<1>1. w.total \in Nat /\ w.total > 0 /\ n \in Nat /\ \A m \in 0 .. w.total - 1 : m \in Slots
  BY Sizes DEF IsView, Slots
<1>2. places \in SUBSET Nat /\ n \in places
  BY <1>1
<1>3. w.sel = Min(places)
  BY DEF Found
<1>4. \A m \in places : m = w.total \/ (m \in 0 .. w.total - 1 /\ w.files[m].name = name)
  OBVIOUS
<1> HIDE DEF places
<1>5. w.sel \in places /\ w.sel <= n
  BY <1>2, <1>3, LeastExists
<1>6. w.sel \in 0 .. w.total - 1 /\ w.files[w.sel].name = name
  BY <1>1, <1>4, <1>5
<1>7. w.sel = n
  BY <1>1, <1>6 DEF NoRepeats
<1>8. Clamped(w) = n
  BY <1>1, <1>7 DEF Clamped
<1>9. 0 \in Retreats(n, w.start)
  <2>1. w.start - 0 * Row = w.start
    BY Sizes DEF IsView
  <2>2. Back(w.start, 0) = w.start
    BY <2>1, Residues DEF IsView, Back
  <2>3. w.start <= n /\ 0 \in 0 .. Modulus - 1
    BY <1>1, <1>7, Sizes
  <2> QED
    BY <2>2, <2>3 DEF Retreats
<1>10. calc_sel(w) = [w EXCEPT !.sel = n, !.start = Advance(n, Retreat(n, w.start))]
  BY <1>1, <1>8, <1>9 DEF calc_sel
<1> QED
  BY <1>10 DEF IsView, Fields

-----------------------------------------------------------------------------
(* The keys. *)

TableOK == Listed(view) /\ (UniqueNames => Tidy(view))

OrderNames == {"none", "toggle", "load"}

FindsIt ==
  Len(view'.path) < Len(view.path) =>
    \A n \in 0 .. view'.total - 1 :
      view'.files[n].name = Last(view.path) => view'.sel = n /\ ~view'.hung

LEMMA SamePath ==
  ASSUME TableOK, view'.path = view.path
  PROVE  FindsIt
<1>1. Len(view.path) \in Nat
  BY LenProperties DEF TableOK, Listed
<1>2. ~(Len(view'.path) < Len(view.path))
  BY <1>1
<1> QED
  BY <1>2 DEF FindsIt

LEMMA DirectoryOpened ==
  ASSUME ViewOK, TableOK, ~view.hung, NEW record \in Records, NEW listing \in Listings,
         OpensDir(record, listing)
  PROVE  TableOK' /\ (UniqueNames => FindsIt)
<1>1. IsView(view) /\ Columned(view) /\ Listed(view) /\ (UniqueNames => Tidy(view))
  BY DEF ViewOK, Sound, TableOK
<1>2. CASE record = Dot /\ view.path # <<>>
  <2> DEFINE w == leave_dir(view, listing)
  <2>1. IsView(w) /\ Columned(w) /\ ~w.hung
    BY <1>1, DirectoryLeft
  <2>2. /\ Listed(w) /\ (UniqueNames => Tidy(w))
        /\ w.start \in 0 .. w.sel /\ w.sel = Found(w, Last(view.path))
    BY <1>1, <1>2, LeavingLists
  <2>3. view' = calc_sel(w)
    BY <1>2 DEF OpensDir
  <2> HIDE DEF w
  <2>4. /\ view'.path = w.path /\ view'.files = w.files /\ view'.total = w.total
        /\ view'.tooMany = w.tooMany
    BY <2>1, <2>3, CalcKeepsTable
  <2>5. TableOK'
    <3>1. Listed(view') /\ (UniqueNames => Tidy(view'))
      BY <2>2, <2>4, TableKept
    <3> QED
      BY <3>1 DEF TableOK, Listed, Tidy
  <2>6. ASSUME UniqueNames,
               NEW n \in 0 .. view'.total - 1, view'.files[n].name = Last(view.path)
        PROVE  view'.sel = n /\ ~view'.hung
    BY <2>1, <2>2, <2>3, <2>4, <2>6, LeftIsFound DEF Tidy
  <2> QED
    BY <2>5, <2>6 DEF FindsIt
<1>3. CASE ~(record = Dot /\ view.path # <<>>)
  <2> DEFINE w == IF record = Dot THEN leave_dir(view, listing)
                  ELSE enter_dir(view, record.name, listing)
  <2>1. IsView(w)
    BY <1>1, DirectoryLeft, DirectoryEntered
  <2>2. Listed(w) /\ (UniqueNames => Tidy(w)) /\ ~(Len(w.path) < Len(view.path))
    <3>1. CASE record = Dot
      <4>1. leave_dir(view, listing) = view
        BY <1>3, <3>1 DEF leave_dir
      <4>2. Len(view.path) \in Nat
        BY <1>1, LenProperties DEF Listed
      <4> QED
        BY <1>1, <3>1, <4>1, <4>2
    <3>2. CASE record # Dot
      <4>1. record.name \in Names
        BY DEF Records
      <4> QED
        BY <1>1, <3>2, <4>1, EnteringLists
    <3> QED
      BY <3>1, <3>2
  <2>3. view' = calc_sel(w)
    BY DEF OpensDir
  <2> HIDE DEF w
  <2>4. /\ view'.path = w.path /\ view'.files = w.files /\ view'.total = w.total
        /\ view'.tooMany = w.tooMany
    BY <2>1, <2>3, CalcKeepsTable
  <2>5. Listed(view') /\ (UniqueNames => Tidy(view'))
    BY <2>2, <2>4, TableKept
  <2> QED
    BY <2>2, <2>4, <2>5 DEF FindsIt, TableOK, Listed, Tidy
<1> QED
  BY <1>2, <1>3

LEMMA KeyKeepsTable ==
  ASSUME ViewOK, TableOK, ~view.hung, active \in BOOLEAN, NEW key, Handle(key)
  PROVE  /\ TableOK' /\ (UniqueNames => FindsIt)
         /\ active' \in BOOLEAN /\ order' \in OrderNames
<1>1. IsView(view) /\ Columned(view) /\ Listed(view) /\ (UniqueNames => Tidy(view))
  BY DEF ViewOK, Sound, TableOK
<1>2. ASSUME NEW listing \in Listings, Toggles(listing)
      PROVE  /\ TableOK' /\ (UniqueNames => FindsIt)
             /\ active' \in BOOLEAN /\ order' \in OrderNames
  <2>1. active' \in BOOLEAN /\ order' \in OrderNames
    BY <1>2 DEF Toggles, OrderNames
  <2>2. CASE active
    <3>1. view' = view
      BY <1>2, <2>2 DEF Toggles
    <3> QED
      BY <2>1, <3>1, SamePath DEF TableOK
  <2>3. CASE ~active
    <3> DEFINE w == read_dir(view, listing)
    <3>1. IsView(w)
      BY <1>1, DirectoryRead
    <3>2. Listed(w) /\ w.path = view.path /\ (UniqueNames => Tidy(w))
      BY <1>1, TableRead
    <3>3. view' = calc_sel(w)
      BY <1>2, <2>3 DEF Toggles, zx_shell_browser
    <3> HIDE DEF w
    <3>4. /\ view'.path = w.path /\ view'.files = w.files /\ view'.total = w.total
          /\ view'.tooMany = w.tooMany
      BY <3>1, <3>3, CalcKeepsTable
    <3>5. Listed(view') /\ (UniqueNames => Tidy(view'))
      BY <3>2, <3>4, TableKept
    <3>6. FindsIt
      BY <3>2, <3>4, SamePath
    <3> QED
      BY <2>1, <3>5, <3>6 DEF TableOK, Listed, Tidy
  <2> QED
    BY <2>2, <2>3
<1>3. ASSUME Moves(key)
      PROVE  /\ TableOK' /\ (UniqueNames => FindsIt)
             /\ active' \in BOOLEAN /\ order' \in OrderNames
  <2> DEFINE w == [view EXCEPT !.sel = view.sel + Step(key)]
  <2>1. view' = calc_sel(w)
    BY <1>3 DEF Moves
  <2>2. w.path = view.path /\ w.files = view.files /\ w.total = view.total
        /\ w.tooMany = view.tooMany /\ w = [f \in Fields |-> w[f]]
    BY <1>1 DEF IsView, Fields
  <2> HIDE DEF w
  <2>3. /\ view'.path = w.path /\ view'.files = w.files /\ view'.total = w.total
        /\ view'.tooMany = w.tooMany
    BY <2>1, <2>2 DEF calc_sel, Fields
  <2>4. Listed(view') /\ (UniqueNames => Tidy(view'))
    BY <1>1, <2>2, <2>3, TableKept
  <2>5. FindsIt
    BY <2>2, <2>3, SamePath
  <2>6. active' = active /\ order' \in OrderNames
    BY <1>3 DEF Moves, OrderNames
  <2> QED
    BY <2>4, <2>5, <2>6 DEF TableOK, Listed, Tidy
<1>4. ASSUME NEW listing \in Listings, Enters(listing)
      PROVE  /\ TableOK' /\ (UniqueNames => FindsIt)
             /\ active' \in BOOLEAN /\ order' \in OrderNames
  <2>1. PICK record \in Selected : OpensDir(record, listing) \/ OpensFile(record)
    BY <1>4 DEF Enters
  <2>2. record \in Records
    <3>1. view.sel \in Slots => view.files[view.sel] \in Records
      BY <1>1 DEF Listed, Tables
    <3>2. Leftover \subseteq Records
      BY ShellAssumption
    <3> QED
      BY <2>1, <3>1, <3>2 DEF Selected
  <2>3. CASE OpensDir(record, listing)
    <3>1. active' = active /\ order' \in OrderNames
      BY <2>3 DEF OpensDir, OrderNames
    <3> QED
      BY <2>2, <2>3, <3>1, DirectoryOpened
  <2>4. CASE OpensFile(record)
    <3>1. view' = view /\ active' \in BOOLEAN /\ order' \in OrderNames
      BY <2>4 DEF OpensFile, OrderNames
    <3> QED
      BY <3>1, SamePath DEF TableOK
  <2> QED
    BY <2>1, <2>3, <2>4
<1>5. ASSUME Others(key)
      PROVE  /\ TableOK' /\ (UniqueNames => FindsIt)
             /\ active' \in BOOLEAN /\ order' \in OrderNames
  <2>1. view' = view /\ active' = active /\ order' \in OrderNames
    BY <1>5 DEF Others, OrderNames
  <2> QED
    BY <2>1, SamePath DEF TableOK
<1> QED
  BY <1>2, <1>3, <1>4, <1>5 DEF Handle

-----------------------------------------------------------------------------
(* The types of the rest, and the invariant. *)

Registered ==
  /\ active \in BOOLEAN /\ order \in OrderNames
  /\ report \in Reports \cup {Nothing}
  /\ down \subseteq Regs1 \cup Port2
  /\ matrix1 \subseteq Regs1 /\ matrix2 \subseteq Port2

TInv == IInv /\ TableOK /\ Registered

LEMMA TableStarts == Init => TableOK /\ Registered
<1> SUFFICES ASSUME Init PROVE TableOK /\ Registered
  OBVIOUS
<1>1. /\ view.path = <<>> /\ view.tooMany = FALSE /\ view.total = 0
      /\ view.files = [n \in Slots |-> [dir |-> FALSE, name |-> NoName]]
  BY DEF Init, ShellInit
<1>2. [dir |-> FALSE, name |-> NoName] \in Records
  BY ShellAssumption DEF Records
<1>3. view.files \in Tables
  BY <1>1, <1>2 DEF Tables
<1>4. view.path \in Seq(Names) /\ Len(view.path) = 0 /\ 0 <= PathRoom
  BY <1>1, EmptySeq, ShellAssumption
<1>5. Listed(view)
  BY <1>1, <1>3, <1>4, Zenon DEF Listed
<1>6. Tidy(view)
  BY <1>1, Sizes DEF Tidy, NoRepeats, Slots
<1>7. Registered
  BY DEF Init, ShellInit, Registered, OrderNames
<1> QED
  BY <1>5, <1>6, <1>7 DEF TableOK

LEMMA StepKeepsTable ==
  ASSUME TInv, Next
  PROVE  TableOK' /\ Registered' /\ (UniqueNames => FindsIt)
<1>1. CASE Arrives
  <2>1. view' = view /\ active' = active /\ order' = order /\ report' \in Reports
        /\ down' = {} /\ matrix1' = matrix1 /\ matrix2' = matrix2
    BY <1>1 DEF Arrives, shellVars
  <2> QED
    BY <2>1, SamePath DEF TInv, TableOK, Registered
<1>2. CASE Key
  <2> DEFINE key == report.keys[next]
  <2>1. ~view.hung /\ Handle(key)
    BY <1>2 DEF Key
  <2>2. /\ down' = IF active' THEN down ELSE down \cup ({key} \cap (Port1 \cup Port2))
        /\ report' = report /\ matrix1' = matrix1 /\ matrix2' = matrix2
    BY <1>2 DEF Key
  <2> HIDE DEF key
  <2>3. /\ TableOK' /\ (UniqueNames => FindsIt)
        /\ active' \in BOOLEAN /\ order' \in OrderNames
    BY <2>1, KeyKeepsTable DEF TInv, IInv, Registered
  <2>4. down' \subseteq Regs1 \cup Port2
    BY <2>2 DEF TInv, Registered, Regs1
  <2> QED
    BY <2>2, <2>3, <2>4 DEF TInv, Registered
<1>3. CASE Write1
  <2>1. /\ view' = view /\ active' = active /\ order' = order /\ report' = report
        /\ down' = down \cup (IF report.shift THEN {ShiftKey} ELSE {})
        /\ matrix1' = down' \cap Regs1 /\ matrix2' = matrix2
    BY <1>3 DEF Write1, shellVars
  <2>2. down' \subseteq Regs1 \cup Port2
    BY <2>1 DEF TInv, Registered, Regs1
  <2> QED
    BY <2>1, <2>2, SamePath DEF TInv, TableOK, Registered
<1>4. CASE Write2
  <2>1. /\ view' = view /\ active' = active /\ order' = order /\ report' = report
        /\ down' = {} /\ matrix1' = matrix1 /\ matrix2' = down \cap Port2
    BY <1>4 DEF Write2, shellVars
  <2> QED
    BY <2>1, SamePath DEF TInv, TableOK, Registered
<1> QED
  BY <1>1, <1>2, <1>3, <1>4 DEF Next

LEMMA StutterKeepsTable ==
  ASSUME TInv, UNCHANGED vars
  PROVE  TableOK' /\ Registered' /\ FindsIt
<1>1. UNCHANGED <<active, view, order, report, next, down, matrix1, matrix2, pc>>
  BY DEF vars, shellVars
<1> QED
  BY <1>1, SamePath DEF TInv, TableOK, Registered

LEMMA TablesStay == Spec => []TInv
<1>1. Init => TableOK /\ Registered
  BY TableStarts
<1>2. ASSUME IInv, TableOK /\ Registered, [Next]_vars
      PROVE  (TableOK /\ Registered)'
  BY <1>2, StepKeepsTable, StutterKeepsTable DEF TInv
<1>3. Spec => [](TableOK /\ Registered)
  BY <1>1, <1>2, Invariance, PTL DEF Spec
<1>4. IInv /\ TableOK /\ Registered => TInv
  BY DEF TInv
<1> QED
  BY <1>3, <1>4, Invariance, PTL

(* The variables of the shell and of the keyboard keep their types: the    *)
(* selection a C int, the screen's start a residue, the table full of      *)
(* records after any sort, the path within its room.                       *)
THEOREM TypesStay == Spec => []TypeOK
<1>1. TInv => TypeOK
  <2> SUFFICES ASSUME TInv PROVE TypeOK
    OBVIOUS
  <2>1. /\ view = [f \in Fields |-> view[f]]
        /\ view.total \in 0 .. FilesPerDir /\ view.sel \in Int
        /\ view.start \in 0 .. Modulus - 1
        /\ view.placed \in BOOLEAN /\ view.hung \in BOOLEAN
    BY DEF TInv, IInv, ViewOK, Sound, IsView
  <2>2. /\ view.path \in Seq(Names) /\ Len(view.path) <= PathRoom
        /\ view.files \in Tables /\ view.tooMany \in BOOLEAN
    BY DEF TInv, TableOK, Listed
  <2>3. view \in Views
    BY <2>1, <2>2 DEF Views, Fields
  <2>4. ShellTypeOK
    BY <2>2, <2>3 DEF TInv, Registered, OrderNames, ShellTypeOK
  <2> QED
    BY <2>4 DEF TInv, IInv, ReportOK, Registered, TypeOK
<1> QED
  BY <1>1, TablesStay, PTL

(* Where no two entries of a directory have the same name, none "..", the  *)
(* table is sorted in every state: zx_shell_qsort puts it in order, without*)
(* losing or repeating a record, and nothing else writes to it.            *)
THEOREM TableStaysSorted ==
  ASSUME UniqueNames
  PROVE  Spec => []SortedTable
<1>1. TInv => SortedTable
  <2> SUFFICES ASSUME TInv, 0 < view.total, view.total < SortLimit,
                      NEW m \in 0 .. view.total - 1, NEW n \in 0 .. view.total - 1, m < n
               PROVE  /\ view.files[n].dir => view.files[m].dir
                      /\ view.files[m].dir = view.files[n].dir =>
                           view.files[m].name < view.files[n].name
    BY DEF SortedTable
  <2> DEFINE a == view.files[m]
             b == view.files[n]
  <2>1. view.total \in 0 .. FilesPerDir
    BY DEF TInv, IInv, ViewOK, Sound, IsView
  <2>2. /\ m \in Slots /\ n \in Slots /\ 0 <= m /\ n <= view.total - 1
        /\ m < view.total /\ n < view.total /\ m # n
    BY <2>1, Sizes DEF Slots
  <2>3. view.files \in Tables /\ Tidy(view)
    BY DEF TInv, TableOK, Listed
  <2>4. a \in Records /\ b \in Records
    BY <2>2, <2>3 DEF Tables
  <2>5. comp_name(a, b) /\ a.name # b.name
    BY <2>2, <2>3 DEF Tidy, Ordered, NoRepeats
  <2> HIDE DEF a, b
  <2>6. a.name <= b.name => a.name < b.name
    BY <2>4, <2>5, RecordTypes
  <2>7. a.dir \in BOOLEAN /\ b.dir \in BOOLEAN
    BY <2>4, RecordTypes
  <2>8. (b.dir => a.dir) /\ (a.dir = b.dir => a.name < b.name)
    BY <2>5, <2>6, <2>7, Zenon DEF comp_name
  <2> QED
    BY <2>8 DEF a, b
<1> QED
  BY <1>1, TablesStay, PTL

(* The directory that leave_dir comes from is selected in its parent when  *)
(* the table still has its name, wherever the sort has put it, and the loop*)
(* of calc_sel ends there.                                                 *)
THEOREM LeavingFinds ==
  ASSUME UniqueNames
  PROVE  Spec => LeaveFindsIt
<1>1. TInv /\ [Next]_vars => [FindsIt]_vars
  BY StepKeepsTable
<1> QED
  BY <1>1, TablesStay, PTL DEF Spec, LeaveFindsIt, FindsIt

=============================================================================
