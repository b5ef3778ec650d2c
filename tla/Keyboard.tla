------------------------------ MODULE Keyboard ------------------------------
(***************************************************************************)
(* The reports of the USB keyboard (zx_spectrum_keyboard.c) and where their*)
(* keys go: to the shell, or as pressed keys to the machine's two keyboard *)
(* registers.  A report holds all the keys that are down at the time; every*)
(* key of every report is handled as if it had just been pressed.          *)
(***************************************************************************)
EXTENDS Shell

CONSTANTS
    Keys,           \* the keycodes of a report
    Port1, Port2,   \* those keycode2zx_kbd maps to each register
    ShiftKey,       \* the bit of register 1 for the shift keys
    Reports,        \* what the keyboard may report
    Drift           \* bound: the selection in an empty table, see Arrives

ASSUME KeyboardAssumption ==
    /\ Port1 \cup Port2 \subseteq Keys /\ Port1 \cap Port2 = {}
    /\ ShiftKey \notin Keys
    /\ Reports \subseteq [keys : Seq(Keys), shift : BOOLEAN]
    /\ Drift \in Nat

VARIABLES
    report,     \* the last report
    next,       \* the index of its key that is handled next
    down,       \* the keys cleared in zx_keyboard_reg1 and zx_keyboard_reg2
    matrix1,    \* the keys that register 1 of the machine shows as pressed
    matrix2,    \* the same for register 2
    pc          \* "wait", "keys", "write2"

vars == <<shellVars, report, next, down, matrix1, matrix2, pc>>

Regs1 == Port1 \cup {ShiftKey}

Nothing == [keys |-> <<>>, shift |-> FALSE]

TypeOK ==
    /\ ShellTypeOK
    /\ report \in Reports \cup {Nothing}
    /\ next \in 1 .. Len(report.keys) + 1
    /\ down \subseteq Regs1 \cup Port2
    /\ matrix1 \subseteq Regs1 /\ matrix2 \subseteq Port2
    /\ pc \in {"wait", "keys", "write2"}

Init ==
    /\ ShellInit
    /\ report = Nothing /\ next = 1 /\ down = {}
    /\ matrix1 = {} /\ matrix2 = {} /\ pc = "wait"

(* tuh_hid_report_received_cb; the registers are built from released keys. *)
(* In an empty table nothing stops the selection: Drift does, here.        *)
ArrivesOver ==      \* mutant: the registers start from their last values
    /\ pc = "wait" /\ pc' = "keys"
    /\ report' \in Reports /\ next' = 1 /\ down' = matrix1 \cup matrix2
    /\ view.sel \in -Drift .. FilesPerDir + Drift
    /\ UNCHANGED <<shellVars, matrix1, matrix2>>

Arrives ==
    /\ pc = "wait" /\ pc' = "keys"
    /\ report' \in Reports /\ next' = 1 /\ down' = {}
    /\ view.sel \in -Drift .. FilesPerDir + Drift
    /\ UNCHANGED <<shellVars, matrix1, matrix2>>

(* hid_keycode_cb: the shell has the key if it is shown afterwards.        *)
KeyTypedAnyway ==       \* mutant: what the shell returns is dropped
    LET key == report.keys[next] IN
    /\ pc = "keys" /\ next <= Len(report.keys) /\ ~view.hung
    /\ Handle(key)
    /\ down' = down \cup ({key} \cap (Port1 \cup Port2))
    /\ next' = next + 1
    /\ UNCHANGED <<report, matrix1, matrix2, pc>>

Key ==
    LET key == report.keys[next] IN
    /\ pc = "keys" /\ next <= Len(report.keys) /\ ~view.hung
    /\ Handle(key)
    /\ down' = IF active' THEN down ELSE down \cup ({key} \cap (Port1 \cup Port2))
    /\ next' = next + 1
    /\ UNCHANGED <<report, matrix1, matrix2, pc>>

(* The shift bit, and the writes of the two registers, one after the other.*)
Write1 ==
    /\ pc = "keys" /\ next > Len(report.keys) /\ ~view.hung
    /\ pc' = "write2"
    /\ down' = down \cup (IF report.shift THEN {ShiftKey} ELSE {})
    /\ matrix1' = down' \cap Regs1
    /\ UNCHANGED <<shellVars, report, next, matrix2>>

Write2 ==
    /\ pc = "write2" /\ pc' = "wait"
    /\ matrix2' = down \cap Port2
    /\ down' = {}       \* local to the function, as next
    /\ next' = 1
    /\ UNCHANGED <<shellVars, report, matrix1>>

Next == Arrives \/ Key \/ Write1 \/ Write2

Spec == Init /\ [][Next]_vars

(* The processing of a report runs to its end unless a loop of it does not.*)
FairSpec == Spec /\ WF_vars(Key \/ Write1 \/ Write2)

-----------------------------------------------------------------------------
(* Between two reports, while the shell is shown and its table has an      *)
(* entry, the selection is an entry of the table and one of those on the   *)
(* screen: what calc_sel is to establish after every key, over the moves,  *)
(* the directories entered and left, and the screen leave_dir has placed.  *)
SelectionShown ==
    pc = "wait" /\ active /\ view.total > 0 =>
        /\ view.sel \in 0 .. view.total - 1
        /\ view.start <= view.sel /\ view.sel < view.start + 2 * Row

(* The loop of calc_sel that takes the screen back ends, unless leaving a  *)
(* directory has set the screen to start at an entry of its own: from a    *)
(* start that whole columns do not divide the unsigned start may step over *)
(* the selection, modulo 2^32, for ever.                                   *)
HangsOnlyPlaced == view.hung => view.placed

(* A table that is not empty and shorter than SortLimit is sorted, whatever*)
(* order the card gave: directories first, names ascending.                *)
SortedTable ==
    0 < view.total /\ view.total < SortLimit =>
        \A m, n \in 0 .. view.total - 1 : m < n =>
            /\ view.files[n].dir => view.files[m].dir
            /\ view.files[m].dir = view.files[n].dir =>
                 view.files[m].name < view.files[n].name

(* The keys of a report go to the shell or to the machine: after a report  *)
(* without F12 or Enter the machine sees no key of it but the shift while  *)
(* the shell is shown, and exactly its keys while it is not.               *)
KeysReachOneSide ==
    LET keys == {report.keys[n] : n \in DOMAIN report.keys}
        shift == IF report.shift THEN {ShiftKey} ELSE {}
    IN  pc = "wait" /\ keys \cap {"F12", "Enter"} = {} =>
            matrix1 \cup matrix2 =
                shift \cup (IF active THEN {} ELSE keys \cap (Port1 \cup Port2))

(* Leaving a directory selects it in its parent, when it is still there and*)
(* the parent fits the table, whatever else the parent holds.              *)
LeaveFindsIt ==
    [][Len(view'.path) < Len(view.path) =>
        \A n \in 0 .. view'.total - 1 :
            view'.files[n].name = Last(view.path) =>
                view'.sel = n /\ ~view'.hung]_vars

(* A key does not stay pressed: once the keyboard has reported no keys and *)
(* the shell has not come to a loop without end, the machine sees none, or *)
(* the keyboard has reported others.                                       *)
Releases ==
    pc = "keys" /\ report = Nothing ~>
        pc = "wait" /\ matrix1 \cup matrix2 = {} /\ report = Nothing

=============================================================================
