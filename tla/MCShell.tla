------------------------------ MODULE MCShell ------------------------------
(* An instance of Keyboard: a small directory in every order, an empty one,*)
(* a large unsorted one with its directories at the end, which fills the   *)
(* table when ".." is in front of it, and one that the table cannot hold.  *)
EXTENDS Keyboard

MCNames == 0 .. 21
D(n) == [dir |-> TRUE, name |-> n]
F(n) == [dir |-> FALSE, name |-> n]

Orders == SetToSeqs({D(1), D(4), F(3), F(5)})
Unsorted == [n \in 1 .. 13 |-> F(n + 6)] \o <<D(1), D(4)>>
TooMany == [n \in 1 .. 17 |-> IF n = 2 THEN D(4) ELSE F(n + 4)]
MCListings == Orders \cup {<<>>, Unsorted, TooMany}
MCLeftover == {D(4), F(0)}

MCKeys == Arrows \cup {"F12", "Enter", "Minus", "A", "P"}
R(keys, shift) == [keys |-> keys, shift |-> shift]
MCReports == {R(<<>>, FALSE), R(<<"A", "P">>, TRUE), R(<<"A", "F12">>, FALSE),
              R(<<"F12", "P">>, TRUE), R(<<"Enter", "A">>, FALSE)}
             \cup {R(<<key>>, FALSE) : key \in MCKeys \ {"A", "P"}}

(* What the theorems on the sorted table assume holds of this instance.   *)
ASSUME ListingsAssumption == UniqueNames

=============================================================================
