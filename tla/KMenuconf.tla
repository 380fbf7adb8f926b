----------------------------- MODULE KMenuconf ------------------------------
(***************************************************************************)
(* The programs that show the menus, mconf (make menuconfig) and nconf     *)
(* (make nconfig), in buildroot/support/kconfig: the keys that open menus, *)
(* change values, load and save, as the user presses them.  Help, search   *)
(* and single_menu_mode, which change no value, are left out.  Next lets   *)
(* them run one after another with the programs of KSession and KGconf.    *)
(***************************************************************************)
EXTENDS KGconf

InMenu == mode \in {"mconf", "nconf"} /\ stack # <<>>
Current == K.node[Head(stack)]

\* The menu as it is on the screen; to show it calculates what it shows.
\* In the actions shown is this: every key is pressed with a menu shown.
Shown == build_conf(S, Current, mode, all)
vars == <<session, gui>>
KeepConf == UNCHANGED <<prog, K, started, mode, asking>>
Counted == keys < MaxKeys /\ keys' = keys + 1

\* The items and the memory when their key is handled.  nconf goes on only
\* with an item that is visible.
Looked(T, m) == IF mode = "nconf" THEN menu_is_visible(T, m) ELSE [S |-> T, v |-> TRUE]
Selected(shown) ==
    LET Taken(item, r) == [S |-> r.S, v |-> r.v, m |-> K.node[item.id], tag |-> item.tag]
    IN  {t \in {Taken(item, Looked(shown.S, K.node[item.id])) : item \in ToSet(shown.v)} : t.v}

(***************************************************************************)
(* The keys that change a value.  T is the memory they leave; t is the     *)
(* item that is highlighted.                                               *)
(***************************************************************************)
Change(T) == S' = T /\ Counted /\ UNCHANGED <<files, stack, all, filename>> /\ KeepConf

mconf_keys == {"y", "n", "m", " "}
\* In nconf Enter also toggles what it does not open.
IsOpened(t) == IsChoice(t.m.sym) /\ Tri(t.S, t.m.sym) = 2
nconf_keys(t) == IF IsOpened(t) \/ IsMenu(t.m) THEN mconf_keys ELSE mconf_keys \cup {"enter"}

\* What a key sets; y falls back to m.
KeyValue == [y |-> 2, n |-> 0, m |-> 1]
Fallen(r, s, key) == IF key = "y" /\ ~r.v THEN sym_set_tristate_value(r.S, s, 1).S ELSE r.S
Pressed(T, s, key) == IF key \in {" ", "enter"} THEN sym_toggle_tristate_value(T, s)
                      ELSE Fallen(sym_set_tristate_value(T, s, KeyValue[key]), s, key)

Key(t) ==
    /\ t.tag = "t"
    /\ \E key \in IF mode = "mconf" THEN mconf_keys ELSE nconf_keys(t) :
          Change(Pressed(t.S, t.m.sym, key))

\* Enter on a choice that is y: one of its entries that are visible; nconf
\* looks a second time unless it lists the hidden ones.
Pick1(r) == \E x \in {c \in ToSet(r.v) : c.sym # ""} : Change(sym_set_tristate_value(r.S, x.sym, 2).S)
mconf_choice(r) == mode = "mconf" /\ Pick1(r)
nconf_choice(r) == mode = "nconf" /\ \E q \in {IF all THEN r ELSE VisibleOf(r.S, r.v)} : Pick1(q)
Radio(t) == /\ t.tag = "t" /\ IsOpened(t)
            /\ \E r \in {VisibleOf(t.S, t.m.list)} : mconf_choice(r) \/ nconf_choice(r)

\* Enter on a text: an entry that is not valid is asked for again.
mconf_string(r) == mode = "mconf" /\ r.v /\ Change(r.S)
nconf_string(r) == mode = "nconf" /\ r.v /\ Change(r.S)
Input(t) ==
    /\ t.tag = "s"
    /\ \E text \in Texts[SymType[t.m.sym]] \cup {t.S.curr[t.m.sym].val} :
          \E r \in {sym_set_string_value(t.S, t.m.sym, text)} : mconf_string(r) \/ nconf_string(r)

(***************************************************************************)
(* The keys that move among the menus.                                     *)
(***************************************************************************)
Move(T, menus_) == S' = T /\ stack' = menus_ /\ UNCHANGED <<files, all, filename, keys>> /\ KeepConf

\* Enter, or for a menu without a symbol also Space.
Open(t) == /\ t.tag = "m" \/ (t.tag = "t" /\ IsMenu(t.m) /\ ~IsOpened(t))
           /\ Move(t.S, <<t.m.id>> \o stack)

Back(shown) == Len(stack) > 1 /\ Move(shown.S, Tail(stack))

ShowAll(shown) == S' = shown.S /\ all' = ~all /\ UNCHANGED <<files, stack, filename, keys>> /\ KeepConf

(***************************************************************************)
(* The files.                                                              *)
(***************************************************************************)
Written(name, T, r) == /\ S' = r.S
                       /\ disk' = [disk EXCEPT ![name] = r.v]
                       /\ made' = IF name = ".config" THEN Writer(T) ELSE made
mconf_save(name, T, r) == mode = "mconf" /\ Written(name, T, r) /\ filename' = name
nconf_save(name, T, r) == mode = "nconf" /\ Written(name, T, r) /\ filename' = name
Save(shown) ==
    /\ Counted
    /\ \E name \in DOMAIN disk, r \in {conf_write(shown.S, TRUE)} :
          mconf_save(name, shown.S, r) \/ nconf_save(name, shown.S, r)
    /\ UNCHANGED <<auto, stack, all>> /\ KeepConf

\* A file that is not there is asked for again; what was read counts as
\* a change of the file that is saved.
ReadFrom(name, T) == LET found == disk[name] # NoFile
                     IN  /\ S' = [T EXCEPT !.changed = @ \/ found]
                         /\ filename' = IF found THEN name ELSE filename
mconf_load(name, T) == mode = "mconf" /\ ReadFrom(name, T)
nconf_load(name, T) == mode = "nconf" /\ ReadFrom(name, T)
Load(shown) ==
    /\ Counted
    /\ \E name \in DOMAIN disk : \E T \in {conf_read(shown.S, disk[name], TRUE)} :
          mconf_load(name, T) \/ nconf_load(name, T)
    /\ UNCHANGED <<files, stack, all>> /\ KeepConf

\* The question is asked only after a change; Escape at it goes on.
mconf_exit == mode = "mconf" /\ Len(stack) = 1
nconf_exit == mode = "nconf"
Leave(shown) ==
    /\ mconf_exit \/ nconf_exit
    /\ \/ /\ shown.S.changed
          /\ disk' = [disk EXCEPT ![filename] = conf_write(shown.S, TRUE).v]
          /\ made' = IF filename = ".config" THEN Writer(shown.S) ELSE made
       \/ UNCHANGED <<disk, made>>
    /\ UNCHANGED auto /\ Exit

\* The loop of conf() in both programs: the menu is shown, a key handled.
MenuStep ==
    /\ InMenu
    /\ \E shown \in {Shown} :
          \/ \E t \in Selected(shown) : Key(t) \/ Radio(t) \/ Input(t) \/ Open(t)
          \/ Back(shown) \/ ShowAll(shown) \/ Save(shown) \/ Load(shown) \/ Leave(shown)

\* Nobody starts another program.
Rest == mode = "" /\ started = MaxPrograms /\ UNCHANGED vars

Next == \/ UNCHANGED gui /\ \E m \in Modes[prog] \ {"gconf"} : Start(m)
        \/ "gconf" \in Modes[prog] /\ OpenWindow
        \/ ConfStep /\ UNCHANGED gui
        \/ MenuStep /\ UNCHANGED gui
        \/ GconfStep \/ Rest

\* conf never waits but for the user, who answers what is asked.  (No state
\* of a running conf is a deadlock, so this is weak fairness of ConfStep.)
Fairness == []<>(mode \in {"", "gconf"} \/ InMenu) \/ []<><<ConfStep>>_session
Begin == Init /\ gui = Window
Spec == Begin /\ [][Next]_vars /\ Fairness

-----------------------------------------------------------------------------
\* Every symbol calculated from nothing but what the user and the files
\* gave, and the memory of a program that reads .config now.
Calculated(T) == CalcAll([T EXCEPT !.flags["VALID"] = {}], <<K.modules>> \o K.order)
Reloaded == conf_read(Zeroed, disk[".config"], FALSE)

\* The rows under a menu are those of its entries that can be seen, all of
\* them and in order, and show the values they have.  Where the last
\* update_tree() left the menu early, entries behind its rows may have none.
RECURSIVE TrueRows(_, _, _)
TrueRows(T, m, rows) ==
    LET seen == SelectSeq(m.list, LAMBDA c : menu_is_visible(T, c).v)
        Ids(seq) == Mapped(LAMBDA x : x.id, seq)
    IN  /\ IF m.id \in gui.cut THEN IsPrefix(Ids(rows), Ids(seen)) ELSE Ids(rows) = Ids(seen)
        /\ \A i \in DOMAIN rows :
              LET c == K.node[rows[i].id]
              IN  fill_row(T, c).v = rows[i].shows /\ TrueRows(T, c, rows[i].kids)

\* In the view gconf starts with, no row lies or is missing after any clicks:
\* what is hidden by a click loses its row, what comes into sight is put in
\* its place and every value that changed with it is painted, although only
\* rows of symbols flagged SYMBOL_CHANGED are (update_tree of gconf.c against
\* sym_set_changed in symbol.c).  The code has three exceptions, and no other
\* is allowed: in a menu whose last row the click took away, what comes into
\* sight behind the rows waits for the next update (cut; gconf.c:1290); so
\* does a value that only a save calculated anew (behind, see Outdated); and
\* the rows of a file that is loaded are put behind those there (loaded).
RowsAreTrue ==
    mode = "gconf" /\ gui.view = "full" /\ gui.opt = "normal" /\ ~gui.loaded /\ ~gui.behind =>
        TrueRows(CalcAll(S, K.order), K.node["root"], gui.tree2)

\* The choices this build system uses: bool and not optional.  For the others
\* some of the properties do not hold (README, "What the checks met").
PlainChoices == \A c \in K.syms \cap ChoiceSyms : SymType[c] = "BOOLEAN" /\ c \notin K.optional

\* What the value of a symbol is calculated from.
ReadBy(s) ==
    LET Of(p) == Reads(p.vis) \o (IF p.type \in {"SELECT", "IMPLY"} THEN <<>> ELSE Reads(p.expr))
    IN  UNION {ToSet(Of(p)) : p \in ToSet(K.props[s])} \cup {K.choice[s]} \cup ToSet(K.values[s])
        \cup ToSet(Reads(K.dir[s]) \o Reads(K.rev[s]) \o Reads(K.imp[s]))
Readers(syms) == {s \in K.syms : ReadBy(s) \cap syms # {}}

\* The symbols, and those calculated from them, directly or not.
RECURSIVE WithReaders(_)
WithReaders(syms) == IF Readers(syms) \subseteq syms THEN syms
                     ELSE WithReaders(syms \cup Readers(syms))

\* What conf_read() leaves as it was calculated from a number that it then
\* finds out of its range and drops (confdata.c:461), until values are next
\* cleared.
Outdated == IF S.dropped = {} THEN {} ELSE WithReaders(Readers(S.dropped))

\* Whatever keys were pressed and files loaded in whatever order, a value
\* that is marked SYMBOL_VALID is the one a calculation of everything from
\* the user's settings gives: no setter and no reader forgets to clear what
\* depends on what it changed (sym_calc_value, sym_clear_all_valid), with one
\* exception.  A file whose number is out of its range leaves the symbols that
\* depend on it, and no others, with values that may be old, and these only
\* until the next change, or save of what is not changed.
CachedValueIsFresh ==
    LET Fresh(T) == \A s \in S.flags["VALID"] \ Outdated :
                       S.curr[s] = T.curr[s] /\ S.vis[s] = T.vis[s]
    IN  mode # "" /\ PlainChoices => Fresh(Calculated(S))

\* A .config that a program wrote is read back as what it says: the reader
\* finds nothing to change and would write the same lines, so make does not
\* ask or rebuild again (conf_write against conf_read's change count).  Only
\* one that was written with outdated values (Writer) may not be.
ReloadIsQuiet ==
    LET Quiet(T) == ~T.changed /\ ConfigLines(T).v = disk[".config"]
    IN  mode = "" /\ made # "" /\ PlainChoices => Quiet(Reloaded)

\* Some entry that is visible has a symbol without a value of the user.
RECURSIVE AnyNew(_, _)
AnyNew(T, list) ==
    \E i \in DOMAIN list :
       \E r \in {menu_is_visible(T, list[i])} :
          r.v /\ (IsNew(r.S, list[i]) \/ AnyNew(r.S, list[i].list))

\* oldconfig and syncconfig end only when every question was asked,
\* although an answer may make others appear, before or behind it (check_conf
\* and conf, do ... while (conf_cnt), main of conf.c).
NothingLeftToAsk ==
    mode \in {"oldconfig", "syncconfig"} /\ todo = <<>> /\ ~again =>
        ~AnyNew(S, K.node["root"].list)

\* The configuration that savedefconfig's file gives with "make defconfig".
Minimal == conf_set_all_new_symbols(conf_read(Zeroed, conf_write_defconfig(Reloaded).v, TRUE),
                                    "def_default", <<>>).S
\* The minimal file that savedefconfig makes of .config, which leaves out
\* every value that is the default, brings the same .config back, one not
\* written with outdated values (conf_write_defconfig against conf_read and
\* conf_set_all_new_symbols).
MinimalIsEnough ==
    mode = "" /\ made # "" /\ PlainChoices => ConfigLines(Minimal).v = disk[".config"]

\* c has the values its value asks for.
RightlyChosen(T, c) ==
    LET seen == {s \in ToSet(K.values[c]) : T.vis[s] # 0}
    IN  CASE Tri(T, c) = 2 -> Cardinality({s \in seen : Tri(T, s) = 2}) = (IF seen = {} THEN 0 ELSE 1)
          [] Tri(T, c) = 1 -> \A s \in seen : Tri(T, s) # 2
          [] OTHER -> \A s \in ToSet(K.values[c]) : Tri(T, s) = 0
\* A choice that is y has exactly one of its visible values at y, one that
\* is m has none at y and one that is n has no value: whatever was chosen
\* before, and whichever values appear or disappear by other symbols
\* (sym_calc_choice, sym_set_tristate_value and the readers of files).
OneChosen ==
    \A c \in K.syms \cap ChoiceSyms :
       {c} \cup ToSet(K.values[c]) \subseteq S.flags["VALID"] => RightlyChosen(S, c)

\* The entries listed in the menus that can be opened, starting with those of the set.
RECURSIVE Opened(_, _)
Opened(T, menus_) ==
    LET More(items) == {i.id : i \in {x \in items : x.tag = "m" \/ (x.tag = "t" /\ IsMenu(K.node[x.id]))}}
        All_(items) == IF More(items) \subseteq menus_ THEN {i.id : i \in items}
                       ELSE Opened(T, menus_ \cup More(items))
    IN  All_(UNION {ToSet(build_conf(T, K.node[id], "mconf", FALSE).v) : id \in menus_})
\* Every symbol the user could set now can be reached from the main menu:
\* opening menus, menuconfig entries and choices lists each of them, however
\* menu_finalize() nested them (build_conf of mconf.c against
\* sym_calc_visibility).
EveryQuestionIsShown ==
    LET Shown_(T) == \A s \in K.syms : T.vis[s] # 0 /\ ~IsChoiceValue(s) => s \in Opened(T, {"root"})
    IN  mode = "mconf" => Shown_(Calculated(S))

\* The lines of auto.conf.
InAuto(file) == IF file = NoFile THEN {} ELSE ToSet(file)
\* syncconfig touches the header of a symbol exactly if the line of the
\* symbol in auto.conf changes, appears or disappears: what is not touched
\* is not rebuilt, what is touched is (conf_split_config against
\* conf_write_autoconf).
TouchedIsChanged ==
    [][mode = "syncconfig" /\ mode' = "" =>
         LET old == InAuto(auto)
             new == InAuto(auto')
         IN  conf_write_autoconf(IF S.changed THEN conf_write(S, TRUE).S ELSE S,
                                 auto).touched
               = {l.sym : l \in (old \ new) \cup (new \ old)}]_vars

\* A program that shows no menus ends once its questions are answered: no
\* mode goes round in check_conf() for ever (main of conf.c).
Ends == (mode \notin {"", "gconf"} /\ stack = <<>>) ~> (mode = "")
=============================================================================
