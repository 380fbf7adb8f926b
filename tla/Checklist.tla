----------------------------- MODULE Checklist -----------------------------
(***************************************************************************)
(* dialog_checklist() (lxdialog/checklist.c), where one option of a choice *)
(* is picked.  Its height is fixed: the terminal only has to be large      *)
(* enough.  Unlike the menu it scrolls only when the highlight would leave *)
(* the window.                                                             *)
(***************************************************************************)
EXTENDS Integers, Sequences

CONSTANTS list_height,   \* CHECKLIST_HEIGTH_MIN
          ListNeeds,     \* the lines the terminal must have
          Initial        \* the first character of an option, in capitals

ASSUME ChecklistAssumption == list_height \in Nat \ {0}

\* What dialog_checklist() is given of an option.
Option == [data : DOMAIN Initial, x : BOOLEAN]

VARIABLES options,       \* the item list: [data, x] with the tag X or without
          list_scroll, list_choice, list_button,
          list_window,   \* the lines of the window, as in the menu
          list_result    \* what the call returned, or ListOpen

listVars == <<options, list_scroll, list_choice, list_button, list_window, list_result>>

ListOpen == [code |-> -1, data |-> ""]
ListLeft == [code |-> -2, data |-> ""]    \* KEY_ESC
ListSmall == [code |-> -3, data |-> ""]   \* the display is too small

ListLines == IF list_height < Len(options) THEN list_height ELSE Len(options)
option(i) == options[i + 1]

\* The highlight begins on the entry that was looked at before, else on the
\* option that is set, else on the first.
Preferred(its, data) ==
    LET tagged == {i \in 0..(Len(its) - 1) : its[i + 1].x}
        asked == {i \in 0..(Len(its) - 1) : its[i + 1].data = data}
    IN  IF asked # {} THEN CHOOSE i \in asked : \A j \in asked : i <= j
        ELSE IF tagged # {} THEN CHOOSE i \in tagged : \A j \in tagged : i >= j ELSE 0

\* do_resize: the window is drawn from scroll, which is moved only when the
\* highlight is below the window.
Drawn(its, s, c) ==
    LET lines == IF list_height < Len(its) THEN list_height ELSE Len(its)
    IN  [i \in 0..(lines - 1) |-> [entry |-> its[s + i + 1].data, lit |-> i = c]]

dialog_checklist(size, its, data) ==
    /\ list_result # ListOpen
    /\ options' = its
    /\ list_button' = 0
    /\ IF size < ListNeeds
       THEN list_result' = ListSmall /\ UNCHANGED <<list_scroll, list_choice, list_window>>
       ELSE LET at == Preferred(its, data)
                s == IF at >= list_height THEN at - list_height + 1 ELSE 0
            IN  /\ list_result' = ListOpen
                /\ list_scroll' = s /\ list_choice' = at - s
                /\ list_window' = Drawn(its, s, at - s)

ListGone == /\ options' = <<>> /\ list_scroll' = 0 /\ list_choice' = 0 /\ list_button' = 0
            /\ list_window' = <<>> /\ list_result' = ListLeft

ListResize(size) ==
    /\ list_result = ListOpen
    /\ IF size < ListNeeds
       THEN list_result' = ListSmall /\ UNCHANGED list_window
       ELSE UNCHANGED list_result /\ list_window' = Drawn(options, list_scroll, list_choice)
    /\ UNCHANGED <<options, list_scroll, list_choice, list_button>>

ListMove(s, c, w) == /\ list_result = ListOpen
                     /\ list_scroll' = s /\ list_choice' = c /\ list_window' = w
                     /\ UNCHANGED <<options, list_button, list_result>>

Paint(w, s, i, lit) == [w EXCEPT ![i] = [entry |-> option(s + i).data, lit |-> lit]]

\* wscrl(), for a window of more than one line.
Wscrl(w, n) ==
    IF list_height > 1
    THEN [i \in DOMAIN w |-> IF i + n \in DOMAIN w THEN w[i + n] ELSE [entry |-> "", lit |-> FALSE]]
    ELSE w

\* The highlight to another line of the window.
ListTo(i) == ListMove(list_scroll, i,
                      Paint(Paint(list_window, list_scroll, list_choice, FALSE), list_scroll, i, TRUE))

ListUp ==
    \/ list_choice > 0 /\ ListTo(list_choice - 1)
    \/ /\ list_choice = 0 /\ list_scroll > 0
       /\ LET dark == IF list_height > 1 THEN Paint(list_window, list_scroll, 0, FALSE) ELSE list_window
          IN  ListMove(list_scroll - 1, 0, Paint(Wscrl(dark, -1), list_scroll - 1, 0, TRUE))

ListDown ==
    LET last == ListLines - 1 IN
    \/ list_choice < last /\ ListTo(list_choice + 1)
    \/ /\ list_choice = last /\ list_scroll + last < Len(options) - 1
       /\ LET dark == IF list_height > 1 THEN Paint(list_window, list_scroll, last, FALSE) ELSE list_window
          IN  ListMove(list_scroll + 1, last, Paint(Wscrl(dark, 1), list_scroll + 1, last, TRUE))

\* The first visible option with the character, wherever the highlight is.
ListLetter(k) ==
    LET hits == {i \in 0..(ListLines - 1) : Initial[option(list_scroll + i).data] = k}
    IN  hits # {} /\ ListTo(CHOOSE i \in hits : \A j \in hits : i <= j)

ListButton == /\ list_result = ListOpen
              /\ list_button' = 1 - list_button
              /\ UNCHANGED <<options, list_scroll, list_choice, list_window, list_result>>

\* Select or Help, for the option under the highlight.
ListReturn(code) ==
    /\ list_result = ListOpen /\ code \in {list_button, 1}
    /\ list_result' = [code |-> code,
                       data |-> IF options = <<>> THEN "" ELSE option(list_scroll + list_choice).data]
    /\ UNCHANGED <<options, list_scroll, list_choice, list_button, list_window>>

ListEscape == /\ list_result = ListOpen /\ list_result' = ListLeft
              /\ UNCHANGED <<options, list_scroll, list_choice, list_button, list_window>>

(***************************************************************************)
(* The list by itself, for whatever options.                               *)
(***************************************************************************)
ListInit == /\ options = <<>> /\ list_scroll = 0 /\ list_choice = 0 /\ list_button = 0
            /\ list_window = <<>> /\ list_result = ListLeft

ListKey == \/ ListUp \/ ListDown \/ ListButton \/ ListEscape
           \/ \E i \in DOMAIN options : ListLetter(Initial[options[i].data])
           \/ \E code \in {0, 1} : ListReturn(code)

ListNext == \/ ListKey \/ ListGone
            \/ \E size \in Nat : ListResize(size)
            \/ \E size \in Nat, its \in Seq(Option) :
                  \E data : dialog_checklist(size, its, data)

ListSpec == ListInit /\ [][ListNext]_listVars

\* The options on the screen are those the keys act on, and the lit one is
\* the one Enter picks, after any moves and changes of the terminal's size.
OptionsShown ==
    list_result = ListOpen => list_window = Drawn(options, list_scroll, list_choice)
=============================================================================
