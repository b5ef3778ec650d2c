------------------------------- MODULE Shell -------------------------------
(***************************************************************************)
(* The file browser (zx_shell.c): the path, the table of the files of its  *)
(* directory, the selected entry and the first entry on the screen, which  *)
(* shows 2 columns of Row entries.  The selection is a C int, the first    *)
(* entry a uint32_t: numbers modulo Modulus.                               *)
(*                                                                         *)
(* A directory is read as whatever listing the card gives at that moment   *)
(* (hidden entries left out; an error of f_opendir or f_readdir makes it   *)
(* shorter).  What is drawn is left out; the video page that opening and   *)
(* closing the shell selects is in VideoUpdate.                            *)
(***************************************************************************)
EXTENDS DirSort, Sequences, SequencesExt

CONSTANTS
    Row,            \* ZX_SHELL_FILES_PER_ROW
    SortLimit,      \* 0x100: only shorter tables are sorted
    Modulus,        \* 2^32
    PathRoom,       \* the directories that fit ZX_SHELL_PATH_SIZE
    Parent,         \* the name ".."
    NoName,         \* the empty name of a record never written
    Listings,       \* what a directory may hold
    Leftover        \* what a record on the stack may hold unread

ASSUME ShellAssumption ==
    /\ Row \in Nat \ {0} /\ SortLimit \in Nat /\ PathRoom \in Nat
    /\ Modulus \in Nat /\ FilesPerDir + 2 * Row <= Modulus
    /\ {Parent, NoName} \subseteq Names
    /\ Listings \subseteq Seq(Records) /\ Leftover \subseteq Records

VARIABLES
    active,     \* zx_shell_active
    view,       \* the browser, see Views
    order       \* what the last key has asked of the tape or the loader

shellVars == <<active, view, order>>

Dot == [dir |-> TRUE, name |-> Parent]

Views == [path : Seq(Names), files : Tables, total : 0 .. FilesPerDir,
          tooMany : BOOLEAN, sel : Int, start : 0 .. Modulus - 1,
          placed : BOOLEAN,     \* history: leave_dir has set start itself
          hung : BOOLEAN]       \* a loop of calc_sel does not end

ShellTypeOK ==
    /\ active \in BOOLEAN /\ view \in Views
    /\ order \in {"none", "toggle", "load"}
    /\ Len(view.path) <= PathRoom

ShellInit ==
    /\ active = FALSE /\ order = "none"
    /\ view = [path |-> <<>>,
               files |-> [n \in Slots |-> [dir |-> FALSE, name |-> NoName]],
               total |-> 0, tooMany |-> FALSE, sel |-> 0, start |-> 0,
               placed |-> FALSE, hung |-> FALSE]

-----------------------------------------------------------------------------
(* The directory of a path: ".." in front of all but the root's, and       *)
(* nothing else when it has more entries than the table.                   *)

Entries(path, listing) == (IF path = <<>> THEN <<>> ELSE <<Dot>>) \o listing

(* No two names of a directory are the same, and none is "..".            *)
DistinctNames(listing) ==
    \A m, n \in DOMAIN listing :
        listing[m].name # Parent /\ (m # n => listing[m].name # listing[n].name)

UniqueNames == \A listing \in Listings : DistinctNames(listing)

Stored(files, entries) ==   \* the records beyond them stay
    [n \in Slots |-> IF n < Len(entries) THEN entries[n + 1] ELSE files[n]]

read_dir_keeps_start(v, listing) ==     \* mutant: the screen is not rewound
    LET entries == Entries(v.path, listing)
        many == Len(entries) > FilesPerDir
        total == IF ~many THEN Len(entries) ELSE IF v.path = <<>> THEN 0 ELSE 1
        files == Stored(v.files, entries)
    IN  [v EXCEPT !.files = IF 0 < total /\ total < SortLimit
                            THEN qsort[[files |-> files, l |-> 0, h |-> total - 1]]
                            ELSE files,
                  !.total = total, !.tooMany = many,
                  !.sel = 0, !.placed = FALSE]

read_dir(v, listing) ==
    LET entries == Entries(v.path, listing)
        many == Len(entries) > FilesPerDir
        total == IF ~many THEN Len(entries) ELSE IF v.path = <<>> THEN 0 ELSE 1
        files == Stored(v.files, entries)
    IN  [v EXCEPT !.files = IF 0 < total /\ total < SortLimit
                            THEN qsort[[files |-> files, l |-> 0, h |-> total - 1]]
                            ELSE files,
                  !.total = total, !.tooMany = many,
                  !.sel = 0, !.start = 0, !.placed = FALSE]

(* The selection is brought into the table, unless the table is empty; then*)
(* the screen goes back by whole columns, modulo Modulus, while it starts  *)
(* after the selection - for ever, when no number of columns takes it to   *)
(* or before the selection - and forward while it ends before it.          *)
ClampedHigh(v) ==       \* mutant: one past the last entry is allowed
    IF v.sel > v.total THEN v.total - 1 ELSE IF v.sel < 0 THEN 0 ELSE v.sel

Clamped(v) ==
    IF v.sel >= v.total THEN v.total - 1 ELSE IF v.sel < 0 THEN 0 ELSE v.sel

BackSigned(start, n) == start - n * Row     \* mutant: a signed first entry
Back(start, n) == (start - n * Row) % Modulus
Retreats(sel, start) == {n \in 0 .. Modulus - 1 : Back(start, n) <= sel}
Retreat(sel, start) ==
    IF start <= sel THEN start ELSE Back(start, Min(Retreats(sel, start)))

Advance(sel, start) ==
    IF sel < start + 2 * Row THEN start
    ELSE start + Row * ((sel - start) \div Row - 1)

calc_sel(v) ==
    LET sel == Clamped(v)
    IN  IF v.total = 0 THEN v
        ELSE IF Retreats(sel, v.start) = {} THEN [v EXCEPT !.sel = sel, !.hung = TRUE]
        ELSE [v EXCEPT !.sel = sel, !.start = Advance(sel, Retreat(sel, v.start))]

-----------------------------------------------------------------------------
(* The handler of a key, zx_shell_hid_keycode_handle.                      *)

zx_shell_browser(v, listing) == calc_sel(read_dir(v, listing))

Toggles(listing) ==
    /\ active' = ~active
    /\ view' = IF active THEN view ELSE zx_shell_browser(view, listing)
    /\ order' = "none"

Step(key) ==
    CASE key = "Right" -> Row [] key = "Left" -> -Row
      [] key = "Up" -> -1 [] key = "Down" -> 1

Moves(key) ==
    /\ view' = calc_sel([view EXCEPT !.sel = @ + Step(key)])
    /\ order' = "none" /\ UNCHANGED active

(* Where the directory just left is in its parent, or total.               *)
FoundAfter(v, name) ==      \* mutant: the first entry is never looked at
    Min({n \in 1 .. v.total - 1 : v.files[n].name = name} \cup {v.total})

Found(v, name) ==
    Min({n \in 0 .. v.total - 1 : v.files[n].name = name} \cup {v.total})

leave_dir(v, listing) ==
    LET parent == read_dir([v EXCEPT !.path = Front(@)], listing)
        sel == Found(parent, Last(v.path))
        far == parent.start + 2 * Row - 1 < sel
    IN  IF v.path = <<>> THEN v
        ELSE [parent EXCEPT !.sel = sel, !.placed = far,
                            !.start = IF far THEN sel ELSE @]

enter_dir(v, name, listing) ==
    IF Len(v.path) < PathRoom
    THEN read_dir([v EXCEPT !.path = Append(@, name)], listing) ELSE v

OpensDir(record, listing) ==
    /\ record.dir
    /\ view' = calc_sel(IF record = Dot THEN leave_dir(view, listing)
                        ELSE enter_dir(view, record.name, listing))
    /\ order' = "none" /\ UNCHANGED active

OpensFile(record) ==
    /\ ~record.dir
    /\ active' = ~active
    /\ order' = "load" /\ UNCHANGED view

(* The record is that of the selection even in an empty table; outside the *)
(* table it is whatever the stack holds.                                   *)
Selected == IF view.sel \in Slots THEN {view.files[view.sel]} ELSE Leftover

Enters(listing) ==
    \E record \in Selected : OpensDir(record, listing) \/ OpensFile(record)

(* hid_keycode_cb gives the tape player the keys the shell has taken.      *)
Others(key) ==
    /\ order' = IF active /\ key = "Minus" THEN "toggle" ELSE "none"
    /\ UNCHANGED <<active, view>>

Arrows == {"Right", "Left", "Up", "Down"}

Handle(key) ==
    \/ key = "F12" /\ \E listing \in Listings : Toggles(listing)
    \/ key \in Arrows /\ active /\ Moves(key)
    \/ key = "Enter" /\ active /\ \E listing \in Listings : Enters(listing)
    \/ (key \in Arrows \cup {"Enter"} => ~active) /\ key # "F12" /\ Others(key)

=============================================================================
