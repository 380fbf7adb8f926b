----------------------------- MODULE MCDialogs -----------------------------
(***************************************************************************)
(* A main menu of four entries, one of which needs another, a submenu that *)
(* may be empty, a choice of two options and a comment in a window of two  *)
(* lines and a text of four characters in a field of three cells.  The     *)
(* terminal has room for two or three entries, or for no menu at all.      *)
(***************************************************************************)
EXTENDS Dialogs, TLC

MCTree == [main |-> <<"opt", "pick", "str", "sub">>, sub |-> <<"x">>]
MCEntries == {"opt", "pick", "str", "sub", "x"}
MCKind == [opt |-> "t", pick |-> "c", str |-> "s", sub |-> "m", x |-> ":"]
MCNeeds == [e \in MCEntries |-> IF e \in {"pick", "x"} THEN "opt" ELSE "none"]
MCLetter == [opt |-> "o", pick |-> "p", str |-> "s", sub |-> "s", x |-> "x"]
MCInitial == [A |-> "A", B |-> "*", C |-> "A"]
MCPicks == <<"A", "B", "C">>
MCValid(t) == Len(t) # 2
MCValues == {<<>>, <<"b", "c">>}
MCHelpText == [lines |-> 10, tail |-> FALSE, marks |-> FALSE]
MCFound == [lines |-> 11, tail |-> FALSE, marks |-> TRUE]
MCMessage == [lines |-> 0, tail |-> TRUE, marks |-> FALSE]
MCMarks == {"1"}
MCLine == [m \in MCMarks |-> 9]
MCTarget == [m \in MCMarks |-> [menu |-> "sub", entry |-> "x"]]
=============================================================================
