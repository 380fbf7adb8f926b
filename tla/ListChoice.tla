----------------------------- MODULE ListChoice -----------------------------
(***************************************************************************)
(* What a list widget promises its caller: the user moves a cursor over N  *)
(* items, one at a time and never off the ends, and show() returns the     *)
(* item under the cursor, an item named by a digit key, or -1 for Back.    *)
(* How many lines fit on the screen is not the caller's business.          *)
(***************************************************************************)
EXTENDS Integers

CONSTANTS N,          \* how many items the list has, at least one
          Shortcuts   \* the numbers that have a digit key

VARIABLES cursor,     \* the item the cursor is on
          result      \* what show() returned, or Open

choice == <<cursor, result>>

Item == 0..(N - 1)
Back == -1
Open == -2            \* show() has not returned

TypeOK == cursor \in Item /\ result \in Item \cup {Back, Open}

Init == cursor = 0 /\ result = Open

Move ==
    /\ result = Open
    /\ cursor' \in {cursor - 1, cursor + 1} \cap Item
    /\ UNCHANGED result

Return ==
    /\ result = Open
    /\ result' \in {cursor, Back} \cup (Shortcuts \cap Item)
    /\ UNCHANGED cursor

\* The caller shows the list again: the cursor is where it was left.
ShowAgain ==
    /\ result # Open
    /\ result' = Open
    /\ UNCHANGED cursor

Next == Move \/ Return \/ ShowAgain

Spec == Init /\ [][Next]_choice
=============================================================================
