---------------------------- MODULE AtomicMemory ----------------------------
(***************************************************************************)
(* What the Z80 expects of its memory: it asks for one byte at a time, and *)
(* the whole access happens at one moment between the question and the     *)
(* answer.  A write that the memory refuses may or may not have happened.  *)
(***************************************************************************)
CONSTANTS Addr,     \* addresses
          Byte      \* values

VARIABLES store,    \* the memory, [Addr -> Byte]
          access,   \* the access under way: [op, at, byte]
          got       \* the value the last read returned

avars == <<store, access, got>>

Init ==
    /\ store \in [Addr -> Byte]
    /\ access \in [op : {"none"}, at : Addr, byte : Byte]
    /\ got \in Byte

Ask ==
    /\ access.op = "none"
    /\ access' \in [op : {"read", "write"}, at : Addr, byte : Byte]
    /\ UNCHANGED <<store, got>>

Commit ==
    /\ access.op = "write"
    /\ access' = [access EXCEPT !.op = "written"]
    /\ store' = [store EXCEPT ![access.at] = access.byte]
    /\ UNCHANGED got

Refuse ==
    /\ access.op = "write"
    /\ access' = [access EXCEPT !.op = "refused"]
    /\ store' \in {store, [store EXCEPT ![access.at] = access.byte]}
    /\ UNCHANGED got

Answer ==
    /\ access.op \in {"read", "written", "refused"}
    /\ access' = [access EXCEPT !.op = "none"]
    /\ got' = IF access.op = "read" THEN store[access.at] ELSE got
    /\ UNCHANGED store

Next == Ask \/ Commit \/ Refuse \/ Answer

Spec == Init /\ [][Next]_avars

=============================================================================
