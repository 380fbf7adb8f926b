----------------------------- MODULE KSession ------------------------------
(***************************************************************************)
(* Configuring the build: the files on disk and the programs started one   *)
(* after another to make, change and complete .config and to turn it into  *)
(* the files of the build.  This module has the program conf               *)
(* (buildroot/support/kconfig/conf.c) in each of its modes; KGconf adds    *)
(* the one that shows a window and KMenuconf the two that show menus.      *)
(*                                                                         *)
(* conf works its way through the menus with recursive calls; todo is what *)
(* is left to do of them, the first task first.  There is one file beside  *)
(* .config, "alt": the seed that KCONFIG_ALLCONFIG or --defconfig names    *)
(* and the alternate configuration of the menus.  KCONFIG_NOSILENTUPDATE   *)
(* and a terminal that is not one are left out.                            *)
(***************************************************************************)
EXTENDS KFront

CONSTANTS StartFiles,  \* StartFiles[prog]: .config before the first program
          StartAuto,   \* StartAuto[prog]: auto.conf of the last build
          Seeds,       \* Seeds[prog]: the other file before the first program
          Dice,        \* Dice[prog]: outcomes of randconfig's rand()
          Texts,       \* Texts[type]: what the user types for a text
          Modes,       \* Modes[prog]: the programs that are started
          MaxPrograms, \* bound: how many are started one after another
          MaxKeys      \* bound: keys that change something, in all

VARIABLES S,          \* the memory of the running program
          disk,       \* the contents of .config and alt
          auto,       \* auto.conf
          made,       \* the program that wrote .config, see Writer (history)
          started,    \* how many programs were started
          mode,       \* the running program, "" for none
          todo,       \* conf: what is left to do
          rootEntry,  \* conf: the menu whose questions are asked
          again,      \* conf: conf_cnt # 0
          stack,      \* menus: the open ones, the current one first
          all,        \* menus: show_all_options
          filename,   \* menus: the file the configuration is saved to
          keys        \* menus: the keys pressed

files == <<disk, auto, made>>
asking == <<todo, rootEntry, again>>
menus == <<stack, all, filename, keys>>
session == <<prog, K, started, mode, S, files, asking, menus>>

Task(call, id) == [call |-> call, id |-> id, new |-> FALSE]
Tasks(call, list) == [i \in DOMAIN list |-> Task(call, list[i].id)]

Asking == {"oldaskconfig", "oldconfig", "syncconfig", "listnewconfig"}

Init == /\ prog \in DOMAIN Kconfigs
        /\ LET f == Kconfigs[prog] IN K = conf_parse(f.order, f.entries, f.modules, f.optional)
        /\ Acyclic(K)
        /\ \E file \in StartFiles[prog], seed \in Seeds[prog] :
              disk = [name \in {".config", "alt"} |-> IF name = "alt" THEN seed ELSE file]
        /\ auto = StartAuto[prog] /\ made = "" /\ started = 0
        /\ mode = "" /\ S = Zeroed
        /\ todo = <<>> /\ rootEntry = "root" /\ again = FALSE
        /\ stack = <<>> /\ all = FALSE /\ filename = ".config" /\ keys = 0

(***************************************************************************)
(* A program starts: conf_parse(), then the file the mode wants.           *)
(***************************************************************************)
All == {"allnoconfig", "allyesconfig", "allmodconfig", "alldefconfig", "randconfig"}

\* The memory after the first switch of main() of conf; seed: whether
\* KCONFIG_ALLCONFIG is set.
Loaded(m, seed) ==
    IF m \in All
    THEN IF seed THEN conf_read_simple(Zeroed, disk["alt"], "DEF_USER").S ELSE Zeroed
    ELSE conf_read(Zeroed, disk[IF m = "defconfig" THEN "alt" ELSE ".config"], m = "defconfig")

DefMode(m) == CASE m = "allnoconfig" -> "def_no" [] m = "allyesconfig" -> "def_yes"
                [] m = "allmodconfig" -> "def_mod" [] m = "randconfig" -> "def_random"
                [] m \in {"alldefconfig", "defconfig"} -> "def_default" [] OTHER -> ""

\* randconfig repeats until nothing is left for the dice.
RECURSIVE NewSymbols(_, _, _)
NewSymbols(m, T, dice) ==
    LET Repeated(r) == IF m = "randconfig" /\ r.v THEN NewSymbols(m, r.S, dice) ELSE r.S
    IN  IF DefMode(m) = "" THEN T ELSE Repeated(conf_set_all_new_symbols(T, DefMode(m), dice))

FirstTasks(m) == CASE m = "oldaskconfig" -> <<Task("conf", "root")>>
                   [] m \in Asking \ {"oldaskconfig"} -> <<Task("check_conf", "root")>>
                   [] OTHER -> <<>>

Start(m) ==
    /\ mode = "" /\ started < MaxPrograms
    /\ m = "syncconfig" => disk[".config"] # NoFile
    /\ \E seed \in BOOLEAN, dice \in Dice[prog] :
          /\ seed => m \in All \cup {"defconfig"} /\ disk["alt"] # NoFile
          /\ m = "defconfig" => seed
          /\ m # "randconfig" => dice = CHOOSE d \in Dice[prog] : TRUE
          /\ S' = NewSymbols(m, Loaded(m, seed), dice)
    /\ mode' = m /\ started' = started + 1
    /\ todo' = FirstTasks(m)
    /\ stack' = IF m \in {"mconf", "nconf"} THEN <<"root">> ELSE <<>>
    /\ UNCHANGED <<prog, K, files, rootEntry, again, all, filename, keys>>

\* Who counts as the writer of .config: nobody before it is written, nor when
\* it is written with values from before a number was dropped.  An unchanged
\* configuration is calculated anew when it is written.
Writer(T) == IF T.changed /\ T.dropped # {} THEN "" ELSE mode

\* The process ends.
Exit == /\ mode' = "" /\ S' = Zeroed
        /\ todo' = <<>> /\ rootEntry' = "root" /\ again' = FALSE
        /\ stack' = <<>> /\ all' = FALSE /\ filename' = ".config"
        /\ UNCHANGED <<prog, K, started, keys>>

(***************************************************************************)
(* conf: check_conf() looks for a new symbol and asks about its menu.      *)
(***************************************************************************)
Running(call) == mode \in Asking /\ todo # <<>> /\ Head(todo).call = call
Entry0 == K.node[Head(todo).id]
Continue(T, tasks) == S' = T /\ todo' = tasks \o Tail(todo)
KeepFiles == UNCHANGED <<prog, K, started, mode, files, menus>>

IsNew(T, m) ==
    /\ m.sym # "" /\ ~sym_has_value(T, m.sym)
    /\ sym_is_changable(T, m.sym) \/ (IsChoice(m.sym) /\ Tri(T, m.sym) = 2)

\* Mutant: the questions of a round do not call for another one.
AnotherRound_Never(ask) == again
AnotherRound(ask) == again \/ ask

check_conf ==
    /\ Running("check_conf")
    /\ \E m \in {Entry0} : \E r \in {menu_is_visible(S, m)} :
          LET ask == r.v /\ IsNew(r.S, m) /\ mode # "listnewconfig"
              up == menu_get_parent_menu(m.id)
              kids == Tasks("check_conf", m.list)
          IN  /\ Continue(r.S, IF ~r.v THEN <<>> ELSE IF ask THEN <<Task("conf", up)>> \o kids ELSE kids)
              /\ again' = AnotherRound(ask)
              /\ rootEntry' = IF ask THEN up ELSE rootEntry
    /\ KeepFiles

\* conf(): the questions of an entry and of its children.  A menu that is
\* not the one asked about is left to check_conf().
conf ==
    /\ Running("conf")
    /\ \E m \in {Entry0} : \E r \in {menu_is_visible(S, m)} :
          LET kids == Tasks("conf", m.list)
              skip == IsMenu(m) /\ mode # "oldaskconfig" /\ rootEntry # m.id
          IN  Continue(r.S,
                IF ~r.v THEN <<>>
                ELSE IF skip THEN <<Task("check_conf", m.id)>>
                ELSE IF m.sym = "" THEN kids
                ELSE IF IsChoice(m.sym)
                THEN <<[Task("choice", m.id) EXCEPT !.new = ~sym_has_value(r.S, m.sym)]>>
                ELSE <<Task("ask", m.id)>> \o kids)
    /\ UNCHANGED <<rootEntry, again>> /\ KeepFiles

\* Mutant: a new symbol is not asked for.
Asked_OnlyFirst(s) == sym_is_changable(S, s) /\ mode = "oldaskconfig"

\* conf_askvalue(): whether the user is asked at all.
Asked(s) == sym_is_changable(S, s) /\ (mode = "oldaskconfig" \/ ~sym_has_value(S, s))

\* conf_sym() and conf_string() ask until an answer is taken.  Enter keeps
\* the value, which for a text must also be one that can be set.
conf_sym(s) == {sym_set_tristate_value(S, s, v) : v \in 0..2}
conf_string(s) == {sym_set_string_value(S, s, v) : v \in Texts[SymType[s]] \cup {S.curr[s].val}}

Ask ==
    /\ Running("ask")
    /\ \E s \in {Entry0.sym} :
          \E r \in IF ~Asked(s) THEN {[S |-> S, v |-> TRUE]}
                   ELSE IF IsTri(s) THEN conf_sym(s) ELSE conf_string(s) :
             r.v /\ Continue(r.S, <<>>)
    /\ UNCHANGED <<rootEntry, again>> /\ KeepFiles

\* conf_choice(): first the choice itself, if it can be changed, ...
Choice ==
    /\ Running("choice")
    /\ \E m \in {Entry0} :
          \E r \in IF Asked(m.sym) THEN conf_sym(m.sym) ELSE {[S |-> S, v |-> TRUE]} :
             \E T \in {Calc(r.S, m.sym)} :
                /\ r.v
                /\ Continue(T, CASE Tri(T, m.sym) = 0 -> <<>>
                                 [] Tri(T, m.sym) = 1 -> Tasks("conf", m.list)
                                 [] Tri(T, m.sym) = 2 -> <<[Head(todo) EXCEPT !.call = "pick"]>>)
    /\ UNCHANGED <<rootEntry, again>> /\ KeepFiles

\* ... then one of its visible values, whose children are asked for.
Pick ==
    /\ Running("pick")
    /\ \E r \in {VisibleOf(S, Entry0.list)} :
          LET values == {x \in ToSet(r.v) : x.sym # ""}
              free == mode = "oldaskconfig" \/ Head(todo).new
              may == IF Cardinality(values) = 1 \/ free THEN values
                     ELSE {x \in values : x.sym = r.S.curr[Entry0.sym].val}
          IN  \E x \in may : Continue(sym_set_tristate_value(r.S, x.sym, 2).S, Tasks("conf", x.list))
    /\ UNCHANGED <<rootEntry, again>> /\ KeepFiles

\* Done with a round: oldaskconfig goes on as oldconfig, and oldconfig
\* starts over as long as a round asked something.
NextRound ==
    /\ mode \in Asking /\ todo = <<>>
    /\ mode = "oldaskconfig" \/ again
    /\ mode' = IF mode = "oldaskconfig" THEN "oldconfig" ELSE mode
    /\ todo' = <<Task("check_conf", "root")>>
    /\ again' = FALSE
    /\ UNCHANGED <<prog, K, started, S, files, rootEntry, menus>>

\* The end of main(): syncconfig writes .config only if it changed, and
\* the files of the build; listnewconfig writes nothing.
Finish ==
    /\ mode \notin {"", "mconf", "nconf", "gconf", "oldaskconfig"} /\ todo = <<>> /\ ~again
    /\ LET write == /\ mode \notin {"listnewconfig", "savedefconfig"}
                    /\ mode = "syncconfig" => S.changed
       IN  /\ \E w \in {IF write THEN conf_write(S, TRUE) ELSE [S |-> S, v |-> disk[".config"]]} :
                 /\ disk' = [disk EXCEPT ![".config"] = w.v,
                                         !["alt"] = IF mode # "savedefconfig" THEN @
                                                    ELSE conf_write_defconfig(S).v]
                 /\ auto' = IF mode # "syncconfig" THEN auto
                            ELSE conf_write_autoconf(w.S, auto).auto
           /\ made' = IF write THEN Writer(S) ELSE made
    /\ Exit

ConfStep == check_conf \/ conf \/ Ask \/ Choice \/ Pick \/ NextRound \/ Finish
=============================================================================
