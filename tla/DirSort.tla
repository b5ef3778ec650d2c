------------------------------ MODULE DirSort ------------------------------
(***************************************************************************)
(* The sort of the shell's file table (zx_shell_qsort), in place, around a *)
(* pivot whose index k moves with the swaps.  A record is a directory or a *)
(* file with a name; names are numbers in the order of strcmp after strlwr.*)
(***************************************************************************)
EXTENDS Integers, FiniteSetsExt, Functions

CONSTANTS Names, FilesPerDir

ASSUME SortAssumption == Names \subseteq Nat /\ FilesPerDir \in Nat \ {0}

Slots == 0 .. FilesPerDir - 1
Records == [dir : BOOLEAN, name : Names]
Tables == [Slots -> Records]

(* Directories come before files, then names ascend.                       *)
comp_name_any(a, b) ==      \* mutant: a file may come before a directory
    (a.dir /\ ~b.dir) \/ a.name <= b.name

comp_name(a, b) == (a.dir /\ ~b.dir) \/ (a.dir = b.dir /\ a.name <= b.name)

swap_name(files, i, j) == [files EXCEPT ![i] = files[j], ![j] = files[i]]

(* A pass of the sort: the two scans are at i and j, on the two sides of   *)
(* the pivot at k.  The left scan stops at the pivot or at a record that   *)
(* belongs after it, the right scan at the pivot or at one that belongs    *)
(* before it; the two records change places, and the pivot may be one.     *)
Scans == {c \in [files : Tables, i : Slots, j : Slots, k : Slots] :
            c.i <= c.k /\ c.k <= c.j}

LeftStop(c) ==
    Min({n \in c.i .. c.k : n = c.k \/ ~comp_name(c.files[n], c.files[c.k])})
RightStop(c) ==
    Max({n \in c.k .. c.j : n = c.k \/ ~comp_name(c.files[c.k], c.files[n])})

Exchanged(c) ==
    LET left == LeftStop(c)
        right == RightStop(c)
    IN  [files |-> swap_name(c.files, left, right), i |-> left, j |-> right,
         k |-> IF left = c.k THEN right ELSE IF right = c.k THEN left ELSE c.k]

(* The table and the index of the pivot when the two scans meet.           *)
partition[c \in Scans] ==
    IF LeftStop(c) = RightStop(c) THEN [files |-> c.files, k |-> c.k]
    ELSE partition[Exchanged(c)]

(* The records of the table from index l to index h. *)
Ranges == {r \in [files : Tables, l : Slots, h : Slots] : r.l <= r.h}

qsort[r \in Ranges] ==
    LET split == partition[[files |-> r.files, i |-> r.l, j |-> r.h,
                            k |-> (r.l + r.h) \div 2]]
        lower == IF r.l < split.k - 1
                 THEN qsort[[files |-> split.files, l |-> r.l, h |-> split.k - 1]]
                 ELSE split.files
    IN  IF split.k + 1 < r.h
        THEN qsort[[files |-> lower, l |-> split.k + 1, h |-> r.h]] ELSE lower

=============================================================================
