------------------------------ MODULE Dialogs ------------------------------
(***************************************************************************)
(* menuconfig's menus and the boxes they open (mconf.c): conf() shows a    *)
(* menu, acts on what it returns and shows it again, with the list built   *)
(* anew; a submenu, and a jump from the search results, is conf() called   *)
(* from conf().  What is called leaves its caller's variables alone, except *)
(* that there is one terminal, one item list, one input buffer and one set *)
(* of text box variables for all.                                          *)
(*                                                                         *)
(* What the options' values do to each other is not the matter here (see   *)
(* KMenuconf): an entry is visible when the one it needs is on.            *)
(***************************************************************************)
EXTENDS Menubox, Checklist, Inputbox, Textbox

CONSTANTS Tree,         \* the entries of every menu, in order
          Kind,         \* the tag of an entry: "m" "t" "s" "c" (a choice) or ":"
          Needs,        \* the entry an entry depends on, or NoEntry
          Root,         \* the main menu
          Picks,        \* the options of the choice, in order
          Remark,       \* the one of them that is a comment, if one is
          Values,       \* what the string may be when it is edited
          IsValid(_),   \* whether sym_set_string_value() takes a text
          HelpText,     \* a text of help
          Message,      \* the text of an error message
          FoundText,    \* the results of a search
          Marks,        \* the jump keys of the results
          Line, Target, \* where each is, and its entry: [menu, entry]
          MaxDepth      \* bound: calls of conf() inside conf()

\* The terminal is never smaller than what the field and the question need;
\* with less, conf_string() calls dialog_inputbox() again and again.
ASSUME DialogsAssumption ==
    /\ \A size \in Sizes : size >= FieldNeeds /\ size >= 10 /\ size > TextFrame
    /\ Root \in DOMAIN Tree /\ \A m \in DOMAIN Tree : Tree[m] \in Seq(Entries)
    /\ \A e \in Entries : Kind[e] = "m" => e \in DOMAIN Tree
    /\ Picks \in Seq(DOMAIN Initial)
    /\ Values \subseteq FieldTexts
    /\ HelpText \in Texts /\ Message \in Texts /\ FoundText \in Texts
    /\ \A mark \in Marks : /\ mark # "open"
                          /\ Target[mark].menu \in DOMAIN Tree
                          /\ Target[mark].entry \in Entries \cup {NoEntry}

VARIABLES screen,    \* which box is open, and for what
          frame,     \* the current conf(): [menu, active, s_scroll]
          stack,     \* the suspended ones, and where their search results were
          on,        \* the options that are y
          asked,     \* active in conf_choice(): the option looked at last
          show_all,  \* show_all_options
          yes        \* the button of the last question

confVars == <<frame, stack, on, asked, show_all, yes>>
vars == <<menuVars, listVars, fieldVars, textVars, screen, confVars>>

\* The entries of a menu that can be seen, in order.
Listed(entries, visible) ==
    LET list[i \in 0..Len(entries)] ==
          IF i = 0 THEN <<>>
          ELSE IF entries[i] \in visible THEN Append(list[i - 1], entries[i]) ELSE list[i - 1]
    IN  list[Len(entries)]

build_conf(m, set, all) ==
    Listed(Tree[m], {e \in Entries : all \/ Needs[e] \in set \cup {NoEntry}})

Main == [menu |-> Root, active |-> NoEntry, s_scroll |-> 0]

Init ==
    /\ MenuInit /\ stdscr >= MenuMin
    /\ ListInit /\ FieldInit /\ TextInit
    /\ screen = "conf" /\ frame = Main /\ stack = <<>>
    /\ on = {} /\ asked = NoEntry
    /\ show_all = FALSE /\ yes = 0

(***************************************************************************)
(* The boxes: how each is opened, and its keys.  "conf" is the head of     *)
(* conf()'s loop.                                                          *)
(***************************************************************************)
ShowMenu ==
    /\ screen = "conf"
    /\ dialog_menu(stdscr, build_conf(frame.menu, on, show_all), frame.active, frame.s_scroll)
    /\ screen' = "menu"
    /\ UNCHANGED <<listVars, fieldVars, textVars, confVars>>

InMenu == /\ screen = "menu" /\ MenuKey
          /\ UNCHANGED <<listVars, fieldVars, textVars, screen, confVars>>

\* What was open before has returned.
Goto(to) == screen' = to /\ MenuGone /\ ListGone /\ FieldGone /\ TextGone /\ UNCHANGED stdscr

\* show_textbox_ext(): f is the height, or 0 for that of the terminal.
OpenText(to, b, f, v, h) == /\ dialog_textbox(stdscr, b, f, v, h) /\ screen' = to
                            /\ MenuGone /\ ListGone /\ FieldGone /\ UNCHANGED stdscr

OpenField(to, init) == /\ dialog_inputbox(stdscr, init) /\ screen' = to
                       /\ MenuGone /\ ListGone /\ TextGone /\ UNCHANGED stdscr

\* The options, the one that is set with an X, and the one looked at last.
OpenList(set, last) ==
    /\ dialog_checklist(stdscr, [i \in DOMAIN Picks |-> [data |-> Picks[i], x |-> Picks[i] = set]],
                        last)
    /\ asked' = last
    /\ screen' = "choice"
    /\ MenuGone /\ FieldGone /\ TextGone /\ UNCHANGED stdscr

\* The menu's variables but the terminal.
menuRest == <<items, active, s_scroll, scroll, choice, first_item, button, window, key, result,
              resized>>

InList ==
    /\ screen = "choice"
    /\ \/ ListKey /\ UNCHANGED stdscr
       \/ \E size \in Sizes : ListResize(size) /\ stdscr' = size
    /\ UNCHANGED <<menuRest, fieldVars, textVars, screen, confVars>>

InField ==
    /\ screen \in {"string", "file", "search"}
    /\ \/ FieldKey /\ UNCHANGED stdscr
       \/ \E size \in Sizes : FieldResize(size) /\ stdscr' = size
    /\ UNCHANGED <<menuRest, listVars, textVars, screen, confVars>>

InText ==
    /\ \/ /\ \/ TextKey
             \/ \E mark \in Marks : /\ screen = "found"
                                    /\ Line[mark] \in top..(top + boxh - 1)
                                    /\ TextClose(mark)
          /\ UNCHANGED stdscr
       \/ \E size \in Sizes : TextResize(stdscr, size) /\ stdscr' = size
    /\ UNCHANGED <<menuRest, listVars, fieldVars, screen, confVars>>

(***************************************************************************)
(* conf(): what is done with the menu's answer.  The entry is the one to   *)
(* begin with when the menu is shown again.                                *)
(***************************************************************************)
Answered == screen = "menu" /\ result.code >= 0
Tag == IF result.entry = NoEntry THEN "" ELSE Kind[result.entry]
Kept == [frame EXCEPT !.active = result.entry, !.s_scroll = s_scroll]

Toggled == IF result.code = 5 \/ (result.code = 8 /\ result.entry \notin on)
           THEN on \cup {result.entry} ELSE on \ {result.entry}
ConfToggle ==
    /\ Answered /\ result.code \in {5, 6, 8} /\ Tag = "t"
    /\ on' = Toggled /\ frame' = Kept
    /\ Goto("conf") /\ UNCHANGED <<stack, asked, show_all, yes>>

\* conf() of a submenu.
ConfSubmenu ==
    /\ Answered /\ result.code \in {0, 8} /\ Tag = "m" /\ Len(stack) < MaxDepth
    /\ stack' = Append(stack, [frame |-> Kept, found |-> -1, right |-> 0])
    /\ frame' = [menu |-> result.entry, active |-> NoEntry, s_scroll |-> 0]
    /\ Goto("conf") /\ UNCHANGED <<on, asked, show_all, yes>>

ConfChoice ==
    /\ Answered /\ result.code = 0 /\ Tag = "c"
    /\ frame' = Kept
    /\ \E i \in DOMAIN Picks : Picks[i] # Remark /\ OpenList(Picks[i], Picks[i])
    /\ UNCHANGED <<stack, on, show_all, yes>>

\* The boxes that return to conf()'s loop whatever happens in them.
ConfBox ==
    /\ Answered /\ frame' = Kept
    /\ \/ result.code = 0 /\ Tag = "s" /\ \E value \in Values : OpenField("string", value)
       \/ result.code = 2 /\ OpenText("help", HelpText, 0, 0, 0)
       \/ result.code \in {3, 4} /\ OpenField("file", <<>>)
       \/ result.code = 9 /\ OpenField("search", <<>>)
    /\ UNCHANGED <<stack, on, asked, show_all, yes>>

ConfShowAll ==
    /\ Answered /\ result.code = 10
    /\ show_all' = ~show_all /\ frame' = Kept
    /\ Goto("conf") /\ UNCHANGED <<stack, on, asked, yes>>

\* A key that has no meaning for the entry.
ConfNothing ==
    /\ Answered
    /\ \/ result.code = 0 /\ Tag \in {"", ":", "t"}
       \/ result.code = 7
       \/ result.code \in {5, 6} /\ Tag # "t"
       \/ result.code = 8 /\ Tag \notin {"t", "m"}
    /\ frame' = Kept
    /\ Goto("conf") /\ UNCHANGED <<stack, on, asked, show_all, yes>>

\* The end of conf(): back to the menu, or the search results, it was called
\* from; the main menu asks whether to save, unless nothing has changed.
ConfLeave ==
    /\ screen = "menu"
    /\ \/ result = Left
       \/ result.code = 1
    /\ IF stack = <<>>
       THEN /\ \E to \in {"quit", "over"} : Goto(to)
            /\ yes' = 0 /\ UNCHANGED <<frame, stack>>
       ELSE LET caller == stack[Len(stack)] IN
            /\ frame' = caller.frame
            /\ stack' = SubSeq(stack, 1, Len(stack) - 1)
            /\ IF caller.found = -1 THEN Goto("conf")
               ELSE OpenText("found", FoundText, 0, caller.found, caller.right)
            /\ UNCHANGED yes
    /\ UNCHANGED <<on, asked, show_all>>

(***************************************************************************)
(* What conf_choice(), conf_string(), conf_save(), conf_load() and         *)
(* search_conf() do with the answers of their boxes.                       *)
(***************************************************************************)
\* An option is set, or its help is shown and the list again; with a comment
\* the list is shown again as it was.
ChoiceDone ==
    /\ screen = "choice" /\ list_result # ListOpen
    /\ \/ /\ list_result.code # 1 /\ list_result # [code |-> 0, data |-> Remark]
          /\ Goto("conf") /\ asked' = NoEntry
       \/ /\ list_result = [code |-> 0, data |-> Remark]
          /\ \E i \in DOMAIN Picks : options[i].x /\ OpenList(Picks[i], asked)
       \/ list_result.code = 1 /\ OpenText("option", HelpText, 0, 0, 0) /\ asked' = list_result.data
    /\ UNCHANGED <<frame, stack, on, show_all, yes>>

\* A text that is refused is edited again from the old value.
StringDone ==
    /\ screen = "string" /\ field_result # FieldOpen
    /\ \/ field_result = FieldEscaped /\ Goto("conf")
       \/ field_result = 0 /\ IsValid(instr) /\ Goto("conf")
       \/ field_result = 0 /\ ~IsValid(instr) /\ OpenText("refused", Message, 5, 0, 0)
       \/ field_result = 1 /\ OpenText("string help", HelpText, 0, 0, 0)
    /\ UNCHANGED confVars

\* conf_save() says where it has saved (conf_message_callback()), conf_load()
\* nothing.
FileDone ==
    /\ screen = "file" /\ field_result # FieldOpen
    /\ \/ field_result \in {0, FieldEscaped} /\ Goto("conf")
       \/ field_result = 0 /\ instr # <<>> /\ OpenText("saved", Message, 6, 0, 0)
       \/ field_result = 0 /\ instr # <<>> /\ OpenText("no file", Message, 5, 0, 0)
       \/ field_result = 1 /\ OpenText("file help", HelpText, 0, 0, 0)
    /\ UNCHANGED confVars

SearchDone ==
    /\ screen = "search" /\ field_result # FieldOpen
    /\ \/ field_result = FieldEscaped /\ Goto("conf")
       \/ field_result = 0 /\ OpenText("found", FoundText, 0, 0, 0)
       \/ field_result = 1 /\ OpenText("search help", HelpText, 0, 0, 0)
    /\ UNCHANGED confVars

\* The text was read.  A jump from the results is a call of conf() that
\* returns to them.
TextDone ==
    /\ text_result # "open"
    /\ \/ /\ \/ screen \in {"help", "saved"} /\ Goto("conf")
             \/ screen \in {"refused", "string help"} /\ \E value \in Values : OpenField("string", value)
             \/ screen \in {"no file", "file help"} /\ OpenField("file", <<>>)
             \/ screen = "search help" /\ OpenField("search", <<>>)
             \/ screen = "found" /\ text_result \notin Marks /\ Goto("conf")
          /\ UNCHANGED <<frame, stack, asked>>
       \/ /\ screen = "option"
          /\ \E i \in DOMAIN Picks : Picks[i] # Remark /\ OpenList(Picks[i], asked)
          /\ UNCHANGED <<frame, stack>>
       \/ /\ screen = "found" /\ text_result \in Marks /\ Len(stack) < MaxDepth
          /\ stack' = Append(stack, [frame |-> frame, found |-> vscroll, right |-> hscroll])
          /\ frame' = [menu |-> Target[text_result].menu, active |-> Target[text_result].entry,
                      s_scroll |-> 0]
          /\ Goto("conf") /\ UNCHANGED asked
    /\ UNCHANGED <<on, show_all, yes>>

\* dialog_yesno() (lxdialog/yesno.c) in handle_exit(): with escape the main
\* menu comes again, else the program ends.
Quit ==
    /\ screen = "quit"
    /\ \/ yes' = 1 - yes /\ UNCHANGED <<screen, stdscr, frame>>
       \/ screen' = "over" /\ UNCHANGED <<yes, stdscr, frame>>
       \/ screen' = "conf" /\ frame' = Main /\ UNCHANGED <<yes, stdscr>>
       \/ stdscr' \in Sizes /\ UNCHANGED <<yes, screen, frame>>
    /\ UNCHANGED <<menuRest, listVars, fieldVars, textVars, stack, on, asked, show_all>>

Next == \/ ShowMenu \/ InMenu \/ InList \/ InField \/ InText
        \/ ConfToggle \/ ConfSubmenu \/ ConfChoice \/ ConfBox \/ ConfShowAll \/ ConfNothing
        \/ ConfLeave \/ ChoiceDone \/ StringDone \/ FileDone \/ SearchDone \/ TextDone \/ Quit

Spec == Init /\ [][Next]_vars

\* What is on the screen is what the keys act on, in menus and radio lists,
\* whatever was done in other boxes since they were shown before and whatever
\* list they are shown with now.
ScreenShowsTheItems == LinesShowTheItems /\ OptionsShown
=============================================================================
