------------------------------ MODULE PulseQueue ------------------------------
(***************************************************************************)
(* What the tape task relies on when it sends pulses to the logic: a       *)
(* bounded first-in first-out queue of words, which loses none, repeats    *)
(* none and changes none.  A look finds room in it and allows one word to  *)
(* be sent; words are taken out at any moment.                             *)
(***************************************************************************)
EXTENDS Naturals, Sequences

CONSTANTS
  Depth,   (* the words it holds       *)
  Words    (* the words there are      *)

VARIABLES
  pulses,  (* the words sent and not yet taken, oldest first            *)
  room     (* room has been seen and no word has been sent since        *)

vars == <<pulses, room>>

Init == pulses = << >> /\ room = FALSE

Look ==
  /\ ~room
  /\ Len(pulses) < Depth
  /\ room' = TRUE
  /\ UNCHANGED pulses

Send(word) ==
  /\ room
  /\ pulses' = Append(pulses, word)
  /\ room' = FALSE

(* There is nothing to send. *)
GiveUp ==
  /\ room
  /\ room' = FALSE
  /\ UNCHANGED pulses

Take ==
  /\ pulses # << >>
  /\ pulses' = Tail(pulses)
  /\ UNCHANGED room

Next == Look \/ (\E word \in Words : Send(word)) \/ GiveUp \/ Take

Spec == Init /\ [][Next]_vars
=============================================================================
