------------------------------ MODULE Menubox ------------------------------
(***************************************************************************)
(* dialog_menu() (lxdialog/menubox.c), the scrolling menu of menuconfig.   *)
(* Its window shows max_choice of the entries, from scroll; choice is the  *)
(* highlighted line.  A move by one line scrolls the window's contents and *)
(* prints only the line that came in, so what the window shows is a state  *)
(* of its own.  The caller keeps the scroll position (s_scroll) and the    *)
(* entry that was acted on (active) from one call to the next, although    *)
(* the list may be another one by then.                                    *)
(***************************************************************************)
EXTENDS Integers, Sequences

CONSTANTS Entries,    \* what item_data() may be: the entries of the menus
          NoEntry,    \* the null pointer
          Letter,     \* the hot key of an entry: a function of the entries
          Sizes,      \* the numbers of lines the terminal may have
          MenuMin,    \* MENUBOX_HEIGTH_MIN
          MenuFrame   \* the lines of the terminal the entries do not get

ASSUME MenuboxAssumption ==
    /\ NoEntry \notin Entries
    /\ Letter \in [Entries -> STRING]
    /\ Sizes \subseteq Nat
    /\ MenuFrame \in Nat /\ MenuMin \in Nat /\ MenuMin > MenuFrame

VARIABLES
    stdscr,      \* getmaxy(stdscr)
    items,       \* the item list, by the items' data
    active,      \* selected: the entry to start on
    s_scroll,    \* the caller's *s_scroll
    scroll, choice, first_item,
    button,
    window,      \* window[i]: the entry on line i and whether it is lit
    key,         \* the last key
    result,      \* what dialog_menu() returned, or Open
    resized      \* the terminal changed its size during this call (history)

menuVars == <<stdscr, items, active, s_scroll, scroll, choice, first_item, button,
              window, key, result, resized>>

Open == [code |-> -1, entry |-> NoEntry]
Left == [code |-> -2, entry |-> NoEntry]   \* KEY_ESC, or the display is too small
Dead == [code |-> -3, entry |-> NoEntry]   \* an entry beyond the end of the list was printed

Least(a, b) == IF a < b THEN a ELSE b
Greatest(a, b) == IF a > b THEN a ELSE b
First(S) == CHOOSE i \in S : \A j \in S : i <= j

item_count == Len(items)
item(i) == items[i + 1]                                          \* item_set(i)
MaxChoice(size, its) == Least(size - MenuFrame, Len(its))
max_choice == MaxChoice(stdscr, items)

\* Where the entry of the data is in a list, counted from 0.
Found(data, its) == {i \in 0..(Len(its) - 1) : its[i + 1] = data}

(***************************************************************************)
(* do_resize: the position of a menu that is shown, and shown again.  c    *)
(* and first are the values of choice and first_item before.               *)
(***************************************************************************)
SavedFits(saved, at, m, n) == saved <= at /\ at < saved + m /\ saved >= 0 /\ saved + m <= n

\* The selected entry in the middle, or as far down as the list reaches.
Centred(at, m, n) == IF at >= n - (m \div 2) THEN n - m ELSE at - (m \div 2)

Placed(at, saved, m, n, first) ==
    IF SavedFits(saved, at, m, n)
    THEN [scroll |-> saved, choice |-> at - saved, first |-> saved]
    ELSE IF at >= m
         THEN [scroll |-> Centred(at, m, n), choice |-> at - Centred(at, m, n),
               first |-> Centred(at, m, n)]
         ELSE [scroll |-> 0, choice |-> at, first |-> first]

Default(data, its, c) == IF Found(data, its) = {} THEN c ELSE CHOOSE i \in Found(data, its) : TRUE

Show(size, its, data, saved, c, first) ==
    LET m == MaxChoice(size, its)
        p == Placed(Default(data, its, c), saved, m, Len(its), first)
    IN  /\ scroll' = p.scroll
        /\ choice' = p.choice
        /\ first_item' = p.first
        /\ IF p.first + m > Len(its)
           THEN result' = Dead /\ window' = <<>>
           ELSE /\ result' = Open
                /\ window' = [i \in 0..(m - 1) |-> [entry |-> its[p.first + i + 1],
                                                    lit |-> i = p.choice]]

\* The function has returned: its variables are gone.
MenuGone ==
    /\ result \notin {Open, Dead}
    /\ items' = <<>> /\ active' = NoEntry /\ s_scroll' = 0 /\ scroll' = 0 /\ choice' = 0
    /\ first_item' = 0 /\ button' = 0 /\ window' = <<>> /\ key' = "none" /\ result' = Left
    /\ resized' = FALSE

\* The call: the list, the entry to select and the saved position are the
\* caller's.  A terminal that is too small is refused.
dialog_menu(size, its, data, saved) ==
    /\ result \notin {Open, Dead}
    /\ stdscr' = size /\ items' = its /\ active' = data /\ s_scroll' = saved
    /\ key' = "none" /\ button' = 0 /\ resized' = FALSE
    /\ IF size < MenuMin
       THEN result' = Left /\ scroll' = 0 /\ choice' = 0 /\ first_item' = 0 /\ window' = <<>>
       ELSE Show(size, its, data, saved, 0, 0)

(***************************************************************************)
(* Keys.  do_scroll() moves the lines of the window by n; the lines that   *)
(* come in are printed from the list.                                      *)
(***************************************************************************)
print_item(w, s, i, lit) == [w EXCEPT ![i] = [entry |-> item(s + i), lit |-> lit]]

do_scroll(w, s, n) ==
    [i \in DOMAIN w |-> IF i + n \in DOMAIN w THEN w[i + n]
                        ELSE [entry |-> item(s + n + i), lit |-> FALSE]]

\* Mutant: the highlight of the old line is not removed.
Repainted_StaysLit(s, c) ==
    print_item(do_scroll(window, scroll, s - scroll), s, c, TRUE)
\* The window after a move to line c of the list scrolled to s.
Repainted(s, c) ==
    print_item(do_scroll(print_item(window, scroll, choice, FALSE), scroll, s - scroll),
               s, c, TRUE)

MoveTo(k, s, c) ==
    /\ result = Open /\ item_count # 0
    /\ key' = k
    /\ scroll' = s /\ choice' = c
    /\ window' = Repainted(s, c)
    /\ UNCHANGED <<stdscr, items, active, s_scroll, first_item, button, result, resized>>

\* The window scrolls when the highlight comes within two lines of its top.
KeyUp == IF choice < 2 /\ scroll > 0
         THEN MoveTo("up", scroll - 1, choice)
         ELSE MoveTo("up", scroll, Greatest(choice - 1, 0))

KeyDown == IF choice > max_choice - 3 /\ scroll + max_choice < item_count
           THEN MoveTo("down", scroll + 1, choice)
           ELSE MoveTo("down", scroll, Least(choice + 1, max_choice - 1))

\* max_choice times: scroll by one line if possible, else move the highlight.
KeyPageUp == LET n == Least(max_choice, scroll)
             IN  MoveTo("ppage", scroll - n, Greatest(choice - (max_choice - n), 0))
\* Mutant: the highlight goes down by a whole page, scrolled or not.
KeyPageDown_Whole ==
    LET n == Least(max_choice, item_count - max_choice - scroll)
    IN  MoveTo("npage", scroll + n, max_choice - 1)
KeyPageDown == LET n == Least(max_choice, item_count - max_choice - scroll)
               IN  MoveTo("npage", scroll + n,
                          Least(choice + (max_choice - n), max_choice - 1))

\* The visible lines that have the letter: the next one below, else the first.
Hits(k) == {i \in 0..(max_choice - 1) : Letter[item(scroll + i)] = k}
HotKey(k) == /\ result = Open /\ Hits(k) # {}
             /\ MoveTo(k, scroll,
                       LET below == {i \in Hits(k) : i > choice}
                       IN  First(IF below # {} THEN below ELSE Hits(k)))

Buttons == 0..4     \* Select, Exit, Help, Save, Load
ButtonKey(k) == /\ result = Open /\ k \in {"left", "right"}
                /\ button' = (button + IF k = "left" THEN 4 ELSE 1) % 5
                /\ UNCHANGED <<stdscr, items, active, s_scroll, scroll, choice, first_item,
                               window, key, result, resized>>

\* What the other keys return: a hot key of a visible line takes precedence
\* over s, z and x, and never over y, n, m, h and the blank.
Code(k) == CASE k \in {"h", "?"} -> 2 [] k \in {"s", "y"} -> 5 [] k = "n" -> 6
             [] k = "m" -> 7 [] k = " " -> 8 [] k = "/" -> 9 [] k = "z" -> 10
             [] k = "enter" -> button
ReturnKeys == {"h", "?", "s", "y", "n", "m", " ", "/", "z", "enter"}

ReturnKey(k) ==
    /\ result = Open /\ k \in ReturnKeys /\ (k \in {"s", "z"} => Hits(k) = {})
    /\ s_scroll' = scroll
    /\ result' = [code |-> Code(k),
                  entry |-> IF item_count = 0 THEN NoEntry ELSE item(scroll + choice)]
    /\ UNCHANGED <<stdscr, items, active, scroll, choice, first_item, button, window, key, resized>>

\* Two escapes, or e or x where no entry has that letter.
Escape == /\ result = Open
          /\ result' = Left
          /\ UNCHANGED <<stdscr, items, active, s_scroll, scroll, choice, first_item, button,
                         window, key, resized>>

\* The terminal has another size: everything is set up again, except that
\* choice, first_item and button still have their values.
KeyResize(size) ==
    /\ result = Open
    /\ stdscr' = size /\ key' = "resize" /\ resized' = TRUE
    /\ IF size < MenuMin
       THEN result' = Left /\ UNCHANGED <<scroll, choice, first_item, window>>
       ELSE Show(size, items, active, s_scroll, choice, first_item)
    /\ UNCHANGED <<items, active, s_scroll, button>>

(***************************************************************************)
(* The menu by itself: whatever list the caller has made, and whatever     *)
(* position and entry it kept.                                             *)
(***************************************************************************)
MenuInit ==
    /\ stdscr \in Sizes
    /\ items = <<>> /\ active = NoEntry /\ s_scroll = 0
    /\ scroll = 0 /\ choice = 0 /\ first_item = 0 /\ button = 0
    /\ window = <<>> /\ key = "none" /\ result = Left /\ resized = FALSE

MenuKey == \/ KeyUp \/ KeyDown \/ KeyPageUp \/ KeyPageDown
           \/ \E e \in Entries : HotKey(Letter[e])
           \/ \E k \in {"left", "right"} : ButtonKey(k)
           \/ \E k \in ReturnKeys : ReturnKey(k)
           \/ Escape
           \/ \E size \in Sizes : KeyResize(size)

MenuNext == \/ MenuKey
            \/ MenuGone /\ stdscr' \in Sizes
            \/ \E size \in Sizes, its \in Seq(Entries), data \in Entries \cup {NoEntry},
                  saved \in Nat : dialog_menu(size, its, data, saved)

MenuSpec == MenuInit /\ [][MenuNext]_menuVars

\* What is on the screen is what the keys act on: line i shows entry
\* scroll + i and exactly line choice is lit, after any moves, each of which
\* repaints two or three lines only.  Until the terminal changes its size:
\* from then on the lines may be those of a stale first_item.
LinesShowTheItems ==
    result = Open /\ ~resized =>
      window = [i \in 0..(max_choice - 1) |-> [entry |-> item(scroll + i), lit |-> i = choice]]

\* By how much the page keys move.
Page == IF items = <<>> THEN 0 ELSE max_choice

\* The scrolling window is a cursor over the list.
Cursor == INSTANCE MenuCursor WITH
    list <- items, wanted <- active, page <- Page,
    at <- scroll + choice, answer <- result

\* Whatever the window is scrolled to, the keys move the cursor as if the
\* list were not scrolled at all, and the answer names the entry under it.
ImplementsCursor == Cursor!Spec
=============================================================================
