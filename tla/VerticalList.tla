---------------------------- MODULE VerticalList ----------------------------
(***************************************************************************)
(* VerticalList (System/ui/framework.py), the list of the contact selector *)
(* and of most app menus: max_lines items are on the screen, from          *)
(* window_start, and the window follows the highlighted item.  show() is   *)
(* called again on the same object by menus that loop, and then takes up   *)
(* the highlight and the window where the last call left them.             *)
(*                                                                         *)
(* Every caller checks that it has items first (the "No Contacts" and "No  *)
(* Messages" screens); the others list literals.                           *)
(***************************************************************************)
EXTENDS Integers

CONSTANTS N,           \* len(items)
          MaxLines,    \* max_lines
          Keys         \* the key codes a user may press

ASSUME VerticalListAssumption ==
    /\ N \in Nat \ {0}
    /\ MaxLines \in Nat \ {0}
    /\ Keys \subseteq Nat

VARIABLES selected_index,
          window_start,
          returned     \* what show() returned, or Showing

listVars == <<selected_index, window_start, returned>>

Showing == -2

ListTypeOK ==
    /\ selected_index \in 0..(N - 1)
    /\ window_start \in 0..(N - 1)
    /\ returned \in -1..(N - 1) \cup {Showing}

ListInit ==
    /\ selected_index = 0
    /\ window_start = 0
    /\ returned = Showing

-----------------------------------------------------------------------------
\* Fault: the window lags one line behind the highlight.
Down_OffByOne ==
    /\ selected_index < N - 1
    /\ selected_index' = selected_index + 1
    /\ window_start' = IF selected_index' > window_start + MaxLines
                       THEN window_start + 1 ELSE window_start

\* DOWN on the last item only redraws.
Down ==
    /\ selected_index < N - 1
    /\ selected_index' = selected_index + 1
    /\ window_start' = IF selected_index' >= window_start + MaxLines
                       THEN window_start + 1 ELSE window_start

\* UP on the first item only redraws.
Up ==
    /\ selected_index > 0
    /\ selected_index' = selected_index - 1
    /\ window_start' = IF selected_index' < window_start
                       THEN window_start - 1 ELSE window_start

\* Fault: the number is not compared with the length of the list.
Shortcut_Unchecked(key) == key \in 2..10

\* The item a digit key names: 1 is the first.
Shortcut(key) == key \in 2..10 /\ key - 2 < N

\* One turn of the loop in show().
KeyPressed(key) ==
    /\ returned = Showing
    /\ \/ /\ \/ key = 108 /\ Down
             \/ key = 103 /\ Up
          /\ UNCHANGED returned
       \/ /\ \/ Shortcut(key) /\ returned' = key - 2
             \/ key = 28 /\ returned' = selected_index
             \/ key = 14 /\ returned' = -1
          /\ UNCHANGED <<selected_index, window_start>>

ShowAgain ==
    /\ returned # Showing
    /\ returned' = Showing
    /\ UNCHANGED <<selected_index, window_start>>

ListNext == (\E key \in Keys : KeyPressed(key)) \/ ShowAgain

ListSpec == ListInit /\ [][ListNext]_listVars

-----------------------------------------------------------------------------
\* The item Enter would pick is one of the lines on the screen, after any
\* sequence of moves, returns and repeated show() calls.
SelectionVisible ==
    window_start <= selected_index /\ selected_index < window_start + MaxLines

\* A list long enough to fill the screen does fill it: the window never
\* scrolls past the last item.
NoBlankLines == window_start = 0 \/ window_start + MaxLines <= N

\* The widget does what its callers rely on: the scrolling window is invisible
\* to them.
Choice == INSTANCE ListChoice WITH
    Shortcuts <- 0..8, cursor <- selected_index, result <- returned

ImplementsChoice == Choice!Spec
=============================================================================
