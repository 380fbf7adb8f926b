--------------------------- MODULE MCVerticalList ---------------------------
(* Model checking VerticalList: the list is longer than the screen, so
   that the window scrolls, and shorter than the nine digit keys reach, so that
   some of them name no item. *)
EXTENDS VerticalList

\* Every key show() knows, and one it does not (0 is code 11).
MCKeys == {14, 28, 103, 108} \cup 2..11
=============================================================================
