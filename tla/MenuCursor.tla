----------------------------- MODULE MenuCursor -----------------------------
(***************************************************************************)
(* What the scrolling menu promises to the code that shows it: a cursor    *)
(* over a list of entries that starts on the wanted entry, obeys the keys  *)
(* and names the entry under it when the user answers.  Which entries are  *)
(* on the screen is not the caller's business.                             *)
(***************************************************************************)
EXTENDS Integers, Sequences

CONSTANTS Entries,   \* what a line of a menu may stand for
          NoEntry,   \* no entry is wanted; there is none under the cursor
          Letter     \* the letter that names an entry

VARIABLES list,      \* the entries of the menu that was shown last
          wanted,    \* the entry the caller wants the cursor on
          page,      \* how many entries there is room for
          at,        \* the cursor: how many entries are above it
          key,       \* the last key
          answer     \* [code, entry] of an answer, or Open, Left or Dead

cursorVars == <<list, wanted, page, at, key, answer>>

Open == [code |-> -1, entry |-> NoEntry]
Left == [code |-> -2, entry |-> NoEntry]   \* left with the escape key, or never shown
Dead == [code |-> -3, entry |-> NoEntry]   \* the program is gone

\* The places of an entry in a list, counted from 0.
Places(e, l) == {i \in 0..(Len(l) - 1) : l[i + 1] = e}
Under(l, i) == IF l = <<>> THEN NoEntry ELSE l[i + 1]

Nothing == list = <<>> /\ page = 0 /\ wanted = NoEntry /\ at = 0 /\ key = "none" /\ answer = Left
Init == Nothing

\* A terminal that is too small shows nothing.
Show == /\ answer \notin {Open, Dead}
        /\ list' \in Seq(Entries)
        /\ wanted' \in Entries \cup {NoEntry}
        /\ key' = "none"
        /\ \/ /\ answer' = Open
              /\ at' \in IF Places(wanted', list') = {} THEN {0} ELSE Places(wanted', list')
           \/ answer' = Left /\ at' = 0

\* One entry up or down, never off the ends.
Up == key' = "up" /\ at' = IF at > 0 THEN at - 1 ELSE 0
Down == key' = "down" /\ at' = IF at < Len(list) - 1 THEN at + 1 ELSE at

\* By as many entries as there is room for, and not off the ends.
PageUp == key' = "ppage" /\ at' = IF at > page THEN at - page ELSE 0
PageDown == key' = "npage" /\ at' = IF at + page < Len(list) THEN at + page ELSE Len(list) - 1

\* To another entry that has the letter.
Jump == /\ at' \in 0..(Len(list) - 1)
        /\ key' = Letter[list[at' + 1]]

\* A change of the terminal's size puts the cursor back where it began, if the
\* wanted entry is in the list; else it may be anywhere.
Resize == /\ key' = "resize"
          /\ at' \in IF Places(wanted, list) = {}
                     THEN {0} \cup 0..(Len(list) - 1) ELSE Places(wanted, list)

Move == /\ answer = Open
        /\ \/ list # <<>> /\ (Up \/ Down \/ PageUp \/ PageDown \/ Jump) /\ UNCHANGED page
           \/ Resize
        /\ UNCHANGED <<list, wanted, answer>>

\* The answer names the entry under the cursor.
Answer == /\ answer = Open
          /\ \E code \in 0..10 : answer' = [code |-> code, entry |-> Under(list, at)]
          /\ UNCHANGED <<list, wanted, page, at, key>>

\* The user leaves, or a change of the terminal's size ends the menu (it is
\* too small now) or the whole program.
Leave == /\ answer = Open
         /\ \/ answer' = Left /\ key' \in {key, "resize"} /\ at' = at
            \/ answer' = Dead /\ Resize
         /\ UNCHANGED <<list, wanted>>

\* The caller has seen the answer.
Seen == answer \notin {Open, Dead} /\ Nothing'

Next == Show \/ Move \/ Answer \/ Leave \/ Seen

Spec == Init /\ [][Next]_cursorVars
=============================================================================
