------------------------------- MODULE KGconf -------------------------------
(***************************************************************************)
(* The program that shows the configuration in a window, gconf (make       *)
(* gconfig; buildroot/support/kconfig/gconf.c): the rows of its two trees, *)
(* how a click changes a value and how the rows are brought up to date by  *)
(* adding, removing and repainting only those that differ.                 *)
(*                                                                         *)
(* A row is [id, shows, kids]: the entry, what its columns show and the    *)
(* rows under it.  Colours, the mark (NEW), which rows are expanded, the   *)
(* help texts and the switches for whole columns are left out.  A double   *)
(* click comes with the two single clicks the toolkit reports before it.   *)
(***************************************************************************)
EXTENDS KSession

CONSTANT MaxClicks   \* MaxClicks[prog], bound: what is done in windows and menus, in all

VARIABLE gui   \* view, opt: view_mode and opt_mode; tree1, tree2: the rows of
               \* the left and the right frame; current, browsed: the menus of
               \* the views that show one; back: whether the back button can be
               \* pressed; and history, for the property: loaded, whether a
               \* file was loaded on top of the rows of tree2; cut, the menus
               \* whose last row the last update_tree() took away; behind,
               \* whether a save calculated anew what the rows show

Window == [view |-> "full", opt |-> "normal", tree1 |-> <<>>, tree2 |-> <<>>,
           current |-> "root", browsed |-> "", back |-> FALSE, loaded |-> FALSE,
           cut |-> {}, behind |-> FALSE]

\* The entries the left frame of the split view lists: those in no menu but
\* the main one, and the menus among them and directly in such menus.
RECURSIVE fixup_rootmenu(_, _)
fixup_rootmenu(m, inmenu) ==
    {m.id} \cup UNION {fixup_rootmenu(m.list[i], inmenu \/ IsMenu(m.list[i])) :
                         i \in {j \in DOMAIN m.list : ~inmenu \/ IsMenu(m.list[j])}}
IsRoot(m) == m.id \in fixup_rootmenu(K.node["root"], FALSE)

(***************************************************************************)
(* The rows.  As everywhere the operators return the memory they leave.    *)
(***************************************************************************)
\* Whether an entry has a row: [S, v].  A row that shows entries nobody can
\* see asks for its colour, when it is filled, whether this one can be.
Listed(T, m, opt, filled) ==
    LET row == HasPrompt(m) \/ (opt # "prompt" /\ m.sym # "")
        Always(r) == [r EXCEPT !.v = @ \/ opt # "normal"]
    IN  IF opt = "normal" \/ (row /\ filled) THEN Always(menu_is_visible(T, m))
        ELSE [S |-> T, v |-> row]

\* The value of a choice is the last visible entry of what it has chosen.
ChoiceShows(T, m) ==
    LET Chosen_(list, s) == SelectSeq(list, LAMBDA c : c.sym = s)
        Id(seq) == IF seq = <<>> THEN "" ELSE Last(seq).id
        In(r) == [r EXCEPT !.v = Id(Chosen_(@, r.S.curr[m.sym].val))]
    IN  In(VisibleOf(T, m.list))

\* What the columns N, M, Y and Value show of a symbol.
Columns(T, m, chosen) ==
    LET s == m.sym
        type == sym_get_type(T, s)
    IN  CASE IsText(s) -> [value |-> T.curr[s].val, free |-> {}]
          [] IsChoice(s) /\ type = "BOOLEAN" -> [value |-> chosen, free |-> {}]
          [] OTHER -> [value |-> TriText[Tri(T, s) + 1],
                       free |-> {v \in 0..2 \ {Tri(T, s)} : sym_tristate_within_range(T, s, v)}]

\* fill_row(): [S, v], v what the row shows.
Filled(T, m) ==
    LET Shows(r) == [S |-> r.S, v |-> Columns(r.S, m, r.v)]
    IN  Shows(IF IsChoice(m.sym) THEN ChoiceShows(T, m) ELSE [S |-> T, v |-> ""])
fill_row(T, m) == IF m.sym = "" THEN [S |-> T, v |-> [value |-> "", free |-> {}]]
                  ELSE Filled(Lower(Calc(T, m.sym), m.sym, "CHANGED"), m)

Row(m, shows, kids) == [id |-> m.id, shows |-> shows, kids |-> kids]
Unflagged(T, m) == IF m.sym = "" THEN T ELSE Lower(T, m.sym, "CHANGED")

\* display_tree(): [S, v], v the rows of the entries of a list that are
\* under a menu; left is the frame.  An entry whose parent has no row has
\* none itself.
Skipped(m, g, left) == g.view = "split" /\ (IsRoot(m) # left)
Descends(m, under, g, left) ==
    /\ g.view # "full" /\ IsMenu(m) => left
    /\ g.view = "single" => IsRoot(under)
RECURSIVE display_tree(_, _, _, _, _)
WithKids(f, has, under, list, g, left) ==
    LET m == list[1]
        Before(row, after) == [after EXCEPT !.v = row \o @]
        Then(kids) == Before(IF has THEN <<Row(m, f.v, kids.v)>> ELSE <<>>,
                             display_tree(kids.S, under, Tail(list), g, left))
    IN  Then(IF Descends(m, under, g, left) THEN display_tree(f.S, m, m.list, g, left)
             ELSE [S |-> f.S, v |-> <<>>])
WithRow(r, under, list, g, left) ==
    WithKids(IF r.v THEN fill_row(r.S, list[1]) ELSE [S |-> r.S, v |-> ""], r.v, under, list, g, left)
display_tree(T, under, list, g, left) ==
    IF list = <<>> THEN [S |-> T, v |-> <<>>]
    ELSE IF Skipped(list[1], g, left)
    THEN display_tree(Unflagged(T, list[1]), under, Tail(list), g, left)
    ELSE WithRow(Listed(Unflagged(T, list[1]), list[1], g.opt, TRUE), under, list, g, left)

\* The two trees after one was drawn again: [S, g].  The root is drawn behind
\* the rows that are in the right frame, a part instead of them.
Cleared(g) == [g EXCEPT !.tree2 = <<>>, !.loaded = FALSE, !.cut = {}, !.behind = FALSE]
Draw(T, g, what) ==
    LET id == CASE what # "part" -> "root"
                [] what = "part" /\ g.view = "single" -> g.current
                [] what = "part" /\ g.view # "single" -> g.browsed
        Put_(r) == [S |-> r.S,
                    g |-> CASE what = "list" -> [g EXCEPT !.tree1 = r.v, !.current = "root"]
                            [] what = "part" -> [Cleared(g) EXCEPT !.tree2 = r.v]
                            [] what = "root" -> [g EXCEPT !.tree2 = @ \o r.v, !.current = "root"]]
    IN  IF what = "part" /\ g.view = "full" THEN [S |-> T, g |-> Cleared(g)]
        ELSE Put_(display_tree(T, K.node[id], K.node[id].list, g, what = "list"))
display_root(T, g) == Draw(T, g, "root")
display_tree_part(T, g) == Draw(T, g, "part")
display_list(T, g) == Draw(T, g, "list")

(***************************************************************************)
(* update_tree(): the rows under a menu against its entries.  done are the *)
(* rows before the one that is looked at, rest that one and those after.   *)
(***************************************************************************)
RECURSIVE InRows(_, _)
InRows(rows, id) == \E i \in DOMAIN rows : rows[i].id = id \/ InRows(rows[i].kids, id)

\* A row that is kept is filled again only if its symbol changed.
Repaints(T, m) == m.sym # "" /\ Has(T, m.sym, "CHANGED")

RECURSIVE update_rows(_, _, _, _, _)
update_tree(T, m, rows, opt) == update_rows(T, m.list, <<>>, rows, opt)
IsSame(m, rest) == rest # <<>> /\ rest[1].id = m.id
\* Mutant: behind the last row the one that was looked at is still taken for
\* there.
IsKnown_AtTheEnd(m, done, rest) == rest = <<>> \/ InRows(done \o rest, m.id)
IsKnown(m, done, rest) == InRows(done \o rest, m.id)
\* The entry gets the row it has, or a new one, and then its children.
Placed(f, list, done, rest, opt) ==
    LET m == list[1]
        same == IsSame(m, rest)
        Kept(kids) == update_rows(kids.S, Tail(list), Append(done, Row(m, f.v, kids.v)),
                                  IF same THEN Tail(rest) ELSE rest, opt)
    IN  Kept(update_tree(f.S, m, IF same THEN rest[1].kids ELSE <<>>, opt))
Place(T, list, done, rest, opt) ==
    Placed(IF IsSame(list[1], rest) /\ ~Repaints(T, list[1]) THEN [S |-> T, v |-> rest[1].shows]
           ELSE fill_row(T, list[1]), list, done, rest, opt)
\* An entry without a row is passed by, what is not the row of one that is
\* to have one is removed; after the last row the menu is left.
Updating(r, list, done, rest, opt) ==
    LET known == IsKnown(list[1], done, rest)
    IN  IF r.v /\ (IsSame(list[1], rest) \/ ~known) THEN Place(r.S, list, done, rest, opt)
        ELSE IF ~r.v /\ ~known THEN update_rows(r.S, Tail(list), done, rest, opt)
        ELSE IF Len(rest) <= 1 THEN [S |-> r.S, v |-> done]
        ELSE update_rows(r.S, list, done, Tail(rest), opt)
update_rows(T, list, done, rest, opt) ==
    LET m == list[1]
        filled == ~IsKnown(m, done, rest) \/ (IsSame(m, rest) /\ Repaints(T, m))
    IN  IF list = <<>> THEN [S |-> T, v |-> done \o rest]
        ELSE Updating(Listed(T, m, opt, filled), list, done, rest, opt)

\* The menus that lost the last of their rows: each was left when it went.
RECURSIVE LastsGone(_, _, _)
LastsGone(id, before, after) ==
    LET Still(row) == {j \in DOMAIN after : after[j].id = row.id}
    IN  (IF before # <<>> /\ Still(Last(before)) = {} THEN {id} ELSE {})
        \cup UNION {UNION {LastsGone(row.id, row.kids, after[j].kids) : j \in Still(row)} :
                      row \in ToSet(before)}

Updated(T, id, g) == LET In(r) == [S |-> r.S,
                                   g |-> [g EXCEPT !.tree2 = r.v, !.behind = FALSE,
                                                   !.cut = LastsGone(id, g.tree2, r.v)]]
                     IN  In(update_tree(T, K.node[id], g.tree2, g.opt))

\* After a value was changed by a click or key.
Redrawn(r) == IF r.g.view = "full" THEN r
              ELSE Draw(r.S, r.g, IF r.g.view = "split" THEN "list" ELSE "part")
Refreshed(T, g) ==
    Redrawn(IF g.view = "single" THEN [S |-> T, g |-> g]
            ELSE Updated(T, IF g.view = "full" THEN "root" ELSE g.browsed, g))

(***************************************************************************)
(* What the user does.                                                     *)
(***************************************************************************)
RECURSIVE IdsOf(_)
IdsOf(rows) == UNION {{rows[i].id} \cup IdsOf(rows[i].kids) : i \in DOMAIN rows}
Rows2 == {K.node[id] : id \in IdsOf(gui.tree2)}
Rows1 == IF gui.view = "split" THEN {K.node[id] : id \in IdsOf(gui.tree1)} ELSE {}

Clicked == /\ keys' = keys + 1
           /\ UNCHANGED <<prog, K, started, mode, auto, asking, stack, all, filename>>
Leaves(r) == Clicked /\ S' = r.S /\ gui' = r.g /\ UNCHANGED <<disk, made>>

\* main(): conf_parse(), conf_read(NULL) and the whole tree.
Flagged == [Zeroed EXCEPT !.flags = @ @@ ("CHANGED" :> {})]
OpenWindow ==
    /\ mode = "" /\ started < MaxPrograms
    /\ \E r \in {display_root(conf_read(Flagged, disk[".config"], FALSE), Window)} :
          S' = r.S /\ gui' = r.g
    /\ mode' = "gconf" /\ started' = started + 1
    /\ UNCHANGED <<prog, K, files, asking, menus>>

\* A click on the value, or a double click on the name of what is no menu
\* that opens.  (A text is only toggled before it is edited, see Edit.)
toggle_sym_value(T, m, g) ==
    IF m.sym = "" THEN [S |-> T, g |-> g] ELSE Refreshed(sym_toggle_tristate_value(T, m.sym), g)
Toggle == \E m \in Rows2 : m.sym # "" /\ IsTri(m.sym) /\ Leaves(toggle_sym_value(S, m, gui))

\* A click on the columns N, M and Y, or the key: what is not possible is y.
change_sym_value(T, m, v, g) ==
    LET new == IF sym_tristate_within_range(T, m.sym, v) THEN v ELSE 2
    IN  IF ~IsTri(m.sym) THEN [S |-> T, g |-> g]
        ELSE Refreshed(sym_set_tristate_value(T, m.sym, new).S, g)
Press == \E m \in {x \in Rows2 : x.sym # ""}, v \in 0..2 : Leaves(change_sym_value(S, m, v, gui))

\* The value of a text: the click that starts editing toggles it, the rows
\* are updated from the main menu whatever the view shows.  Left out are a
\* text that is not valid and one that is still to be calculated (README,
\* "What the checks met").
Edit == \E m \in {x \in Rows2 : x.sym # "" /\ IsText(x.sym) /\ Has(S, x.sym, "VALID")} :
           \E text \in Texts[SymType[m.sym]] :
              \E t \in {toggle_sym_value(S, m, gui)} :
                 \E e \in {sym_set_string_value(t.S, m.sym, text)} :
                    e.v /\ Leaves(Updated(e.S, "root", t.g))

\* A double click on the name of a menu in a view that shows one.
Enter == \E m \in Rows2 :
            /\ IsMenu(m) /\ gui.view # "full"
            /\ Leaves(display_tree_part(S, [gui EXCEPT !.current = m.id, !.back = TRUE]))

\* The left frame: a click shows an entry's children in the right one, ...
Browse == \E m \in Rows1 : Leaves(display_tree_part(S, [gui EXCEPT !.browsed = m.id]))
\* ... a double click also toggles it.
Browse2 == \E m \in {x \in Rows1 : x.sym = "" \/ IsTri(x.sym)} :
              \E r \in {display_tree_part(S, [gui EXCEPT !.browsed = m.id])} :
                 \E t \in {toggle_sym_value(r.S, m, r.g)} :
                    Leaves(display_tree_part(t.S, [t.g EXCEPT !.current = m.id]))

\* The buttons of the views: which tree is drawn for it.
View == \E view \in {"single", "split", "full"} :
           LET g == [gui EXCEPT !.view = view]
           IN  Leaves(Draw(S, IF view = "single" THEN [g EXCEPT !.current = "root"]
                              ELSE [Cleared(g) EXCEPT !.back = FALSE],
                           [single |-> "part", split |-> "list", full |-> "root"][view]))

SetOption == \E opt \in {"normal", "all", "prompt"} :
                Leaves(display_root(S, [Cleared(gui) EXCEPT !.opt = opt]))

\* Up to the menu around the current one.
GoBack ==
    LET up == K.parent[gui.current]
        to == IF IsMenu(K.node[up]) THEN up ELSE K.parent[up]
    IN  /\ gui.back /\ gui.current # "root"
        /\ Leaves(display_tree_part(S, [gui EXCEPT !.current = to, !.back = to # "root"]))

LoadFile == \E name \in DOMAIN disk :
              \E T \in {conf_read(S, disk[name], TRUE)} :
                 Leaves(IF disk[name] = NoFile THEN [S |-> T, g |-> gui]
                        ELSE display_root(T, [gui EXCEPT !.loaded = TRUE]))

\* Save can be chosen only after a change, Save as always.
SaveAs == \E name \in DOMAIN disk :
            \E r \in {conf_write(S, TRUE)} :
               /\ Clicked /\ S' = r.S
               /\ disk' = [disk EXCEPT ![name] = r.v]
               /\ made' = IF name = ".config" THEN Writer(S) ELSE made
               /\ gui' = [gui EXCEPT !.behind = @ \/ r.S.dropped # S.dropped]

\* The window is closed: asked only after a change, to save or not.  The
\* back button without a menu to go back to ends the program at once.
Close ==
    /\ mode = "gconf"
    /\ \/ /\ S.changed
          /\ disk' = [disk EXCEPT ![".config"] = conf_write(S, TRUE).v]
          /\ made' = Writer(S)
       \/ UNCHANGED <<disk, made>>
    /\ UNCHANGED auto /\ Exit /\ gui' = Window

Click == /\ mode = "gconf" /\ keys < MaxClicks[prog]
         /\ \/ Toggle \/ Press \/ Edit \/ Enter \/ Browse \/ Browse2 \/ View \/ SetOption
            \/ GoBack \/ LoadFile \/ SaveAs
GconfStep == Click \/ Close
=============================================================================
