------------------------------ MODULE KFront -------------------------------
(***************************************************************************)
(* What the front ends of kconfig make of the menu tree: the questions     *)
(* conf asks (buildroot/support/kconfig/conf.c) and the items menuconfig   *)
(* shows (mconf.c).  As in KSymbol an operator returns the memory S it     *)
(* leaves, because looking at an entry calculates it.                      *)
(***************************************************************************)
EXTENDS KConfData

IsMenu(m) == HasPrompt(m) /\ PromptOf(m).type = "MENU"

\* The menu an entry is in; a menu is in itself.
RECURSIVE menu_get_parent_menu(_)
menu_get_parent_menu(id) ==
    IF id = "root" \/ IsMenu(K.node[id]) THEN id ELSE menu_get_parent_menu(K.parent[id])

\* The children of an entry that are shown: [S, v], v their sequence.
RECURSIVE VisibleOf(_, _)
VisibleOf(S, list) ==
    LET Before(own, after) == [after EXCEPT !.v = own \o @]
        Then(r) == Before(IF r.v THEN <<list[1]>> ELSE <<>>, VisibleOf(r.S, Tail(list)))
    IN  IF list = <<>> THEN [S |-> S, v |-> <<>>] ELSE Then(menu_is_visible(S, list[1]))

(***************************************************************************)
(* mconf: the items of a menu.  An item is [tag, id]: "m" opens a menu,    *)
(* "t" is toggled or, a choice or menuconfig, opened, "s" is a text,       *)
(* ":" can only be read.                                                   *)
(***************************************************************************)
Item(tag, m) == <<[tag |-> tag, id |-> m.id]>>

\* Mutant: the menu that is open lists itself.
Closed_Open(S, m, current) ==
    CASE m.sym = "" -> IsMenu(m)
      [] IsChoice(m.sym) -> Tri(S, m.sym) = 2
      [] OTHER -> m.id # current /\ IsTri(m.sym) /\ IsMenu(m)

\* Whether the item of an entry ends with its own line.
Closed(S, m, current) ==
    CASE m.sym = "" -> IsMenu(m) /\ m.id # current
      [] IsChoice(m.sym) -> Tri(S, m.sym) = 2
      [] OTHER -> m.id # current /\ IsTri(m.sym) /\ IsMenu(m)

TagOf(S, m, current, chosen) ==
    LET s == m.sym IN
    CASE s = "" -> IF IsMenu(m) THEN "m" ELSE ":"
      [] s # "" /\ IsChoice(s) -> IF sym_is_changable(S, s) \/ chosen # <<>> THEN "t" ELSE ":"
      [] OTHER -> IF m.id = current \/ (IsChoiceValue(s) /\ Tri(S, s) = 2) THEN ":"
                  ELSE IF IsTri(s) THEN "t" ELSE "s"

\* The entry of the value a choice has, if it is shown.
Chosen(S, m) ==
    LET OfValue(r) == [r EXCEPT !.v = SelectSeq(@, LAMBDA c : c.sym = r.S.curr[m.sym].val)]
    IN  IF m.sym = "" \/ ~IsChoice(m.sym) THEN [S |-> S, v |-> <<>>]
        ELSE OfValue(VisibleOf(S, m.list))

\* Which entries are left out with their children: mconf, when it shows
\* all, leaves out those without a prompt; nconf shows even them.
mconf_hidden(m, visible, all) == IF all THEN ~HasPrompt(m) ELSE ~visible
nconf_hidden(m, visible, all) == ~all /\ ~visible

\* The items of a menu; front is the program, open the menu that is.
RECURSIVE Items(_, _, _, _, _), Item_(_, _, _, _, _)
Listed_(r, m, open, front, all) ==
    LET own == IF m.sym = "" /\ (m.id = open \/ ~HasPrompt(m)) THEN <<>>
               ELSE Item(TagOf(r.S, m, open, r.v), m)
        \* Under a choice that is y only the children of its value are shown.
        under == IF ~Closed(r.S, m, open) THEN m.list
                 ELSE SelectSeq(r.v, LAMBDA c : c.list # <<>>)
        Before(kids) == [kids EXCEPT !.v = own \o @]
    IN  Before(Items(r.S, under, open, front, all))
Unless(r, m, open, front, all) ==
    IF IF front = "mconf" THEN mconf_hidden(m, r.v, all) ELSE nconf_hidden(m, r.v, all)
    THEN [S |-> r.S, v |-> <<>>] ELSE Listed_(Chosen(r.S, m), m, open, front, all)
Item_(S, m, open, front, all) == Unless(menu_is_visible(S, m), m, open, front, all)

Items(S, list, open, front, all) ==
    LET Before(own, after) == [after EXCEPT !.v = own \o @]
        Then(r) == Before(r.v, Items(r.S, Tail(list), open, front, all))
    IN  IF list = <<>> THEN [S |-> S, v |-> <<>>] ELSE Then(Item_(S, list[1], open, front, all))

build_conf(S, m, front, all) == Item_(S, m, m.id, front, all)
=============================================================================
