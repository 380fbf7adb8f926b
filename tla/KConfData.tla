----------------------------- MODULE KConfData -----------------------------
(***************************************************************************)
(* Configurations in files (buildroot/support/kconfig/confdata.c): reading *)
(* .config and auto.conf, writing .config, a minimal defconfig and the     *)
(* files of the build, and the modes that set all symbols at once.         *)
(*                                                                         *)
(* A file is a sequence of lines [sym, val]; val is Unset for the comment  *)
(* "# CONFIG_x is not set".  Comments, headings and the quoting of strings *)
(* are left out.                                                           *)
(***************************************************************************)
EXTENDS KSymbol

Unset == "is not set"
NoFile == <<[sym |-> "", val |-> "no such file"]>>
Line(s, v) == [sym |-> s, val |-> v]

Slot(def) == IF def = "DEF_USER" THEN "def" ELSE "auto"

(***************************************************************************)
(* Reading.  def is DEF_USER or DEF_AUTO.                                  *)
(***************************************************************************)
\* The value of a line given to its symbol: [S, v], v if it was refused.
conf_set_sym_val(S, s, def, val) ==
    LET f == Slot(def)
        Set(field, x) == [Raise(S, s, def) EXCEPT ![f][s][field] = x]
        tri == TriOf(val)
    IN  IF IsTri(s)
        THEN IF tri = -1 \/ (tri = 1 /\ SymType[s] = "BOOLEAN") THEN [S |-> S, v |-> TRUE]
             ELSE [S |-> Set("tri", tri), v |-> FALSE]
        ELSE IF IsText(s)
             THEN IF sym_string_valid(s, val) THEN [S |-> Set("val", val), v |-> FALSE]
                  ELSE [S |-> S, v |-> TRUE]
             ELSE [S |-> S, v |-> FALSE]

\* A value of a choice that was read also sets the choice: [S, v], v if the
\* user is warned.
NoteChoice(S, s, def) ==
    LET f == Slot(def)
        c == K.choice[s]
        tri == S[f][s].tri
        Noted(up) == CASE tri = 0 -> [S |-> up, v |-> FALSE]
                       [] tri = 1 -> IF S[f][c].tri = 2 THEN [S |-> Lower(up, c, def), v |-> TRUE]
                                     ELSE [S |-> up, v |-> FALSE]
                       [] tri = 2 -> [S |-> [up EXCEPT ![f][c].val = s], v |-> S[f][c].tri # 0]
    IN  Noted([S EXCEPT ![f][c].tri = TriMax(@, tri)])

\* acc is [S, v]: v tells of warnings.  A name the Kconfig file does not
\* know is a change of the configuration.
ReadLine(acc, line, def) ==
    LET s == line.sym
        Given == IF line.val # Unset THEN conf_set_sym_val(acc.S, s, def, line.val)
                 ELSE [S |-> IF IsTri(s) THEN [Raise(acc.S, s, def) EXCEPT ![Slot(def)][s].tri = 0]
                             ELSE acc.S,
                       v |-> FALSE]
        Tied(r) == IF IsChoiceValue(s) /\ ~r.v THEN NoteChoice(r.S, s, def)
                   ELSE [r EXCEPT !.v = @ /\ def = "DEF_USER"]
        Warned(r) == [r EXCEPT !.v = @ \/ acc.v \/ Has(acc.S, s, def)]
    IN  IF s \in K.syms THEN Warned(Tied(Given))
        ELSE IF def = "DEF_USER" THEN [acc EXCEPT !.S.changed = TRUE] ELSE acc

\* Everything of the slot is forgotten before the lines are read; choices
\* start with the flag, which a value that was not read takes away later.
Forget(S, def) ==
    [sym_set_changed(S, K.syms) EXCEPT
              !.flags["VALID"] = {}, !.flags[def] = {s \in K.syms : IsChoice(s)},
              ![Slot(def)] = Zeroed[Slot(def)], !.dropped = {}]

\* [S, v]: v is "gone" for a missing file, else whether there were warnings.
conf_read_simple(S, file, def) ==
    IF file = NoFile THEN [S |-> S, v |-> "gone"]
    ELSE LET Read(r) == [r EXCEPT !.v = IF @ THEN "warned" ELSE "read"]
         IN  Read(Steps(LAMBDA acc, line : ReadLine(acc, line, def),
                        [S |-> Forget(S, def), v |-> FALSE], file))

\* The calculated value of a symbol is what the file says, or neither says.
Agrees(S, s) ==
    \/ IsChoice(s)
    \/ sym_has_value(S, s) /\ Has(S, s, "WRITE")
         /\ IF IsTri(s) THEN S.def[s].tri = Tri(S, s) ELSE S.def[s].val = S.curr[s].val
    \/ ~sym_has_value(S, s) /\ ~Has(S, s, "WRITE")

\* The symbols one after another: [S, v], v whether the configuration is
\* unsaved.  A value that cannot be seen is dropped, to appear as new when
\* it can; a text out of range is dropped, and only its own symbol is to be
\* calculated anew.
RECURSIVE Recheck(_, _, _)
Dropped(S, s) == [Lower(Lower(S, s, "VALID"), s, "DEF_USER") EXCEPT !.dropped = @ \cup {s}]
InRange(S, s) == IF IsText(s) THEN sym_string_within_range(S, s, S.def[s].val)
                 ELSE [S |-> S, v |-> TRUE]
Recheck(S, unsaved, syms) ==
    LET s == syms[1]
        Next_(T, v) == Recheck(T, v, Tail(syms))
        Ranged(r) == IF r.v THEN Next_(r.S, unsaved)
                     ELSE Next_(Dropped(r.S, s), TRUE)
    IN  IF syms = <<>> THEN [S |-> S, v |-> unsaved]
        ELSE IF ~sym_has_value(S, s) \/ IsChoiceValue(s) THEN Next_(S, unsaved)
        ELSE Ranged(InRange(IF S.vis[s] = 0 /\ ~unsaved THEN Lower(S, s, "DEF_USER") ELSE S, s))

\* After the lines were read and everything was calculated: what was read
\* how, "gone", "read" or "warned".
Rechecked(S, warned) ==
    LET Checked(r) == [r.S EXCEPT !.changed = @ \/ r.v \/ warned]
    IN  Checked(Recheck(S, \E s \in K.syms : ~Agrees(S, s), K.order))
AfterRead(S, how, named) == IF how = "gone" THEN [S EXCEPT !.changed = @ \/ ~named]
                            ELSE Rechecked(S, how = "warned")
AllRead(r, named) ==
    AfterRead(CalcAll(r.S, <<K.modules>> \o (IF r.v = "gone" THEN <<>> ELSE K.order)), r.v, named)

\* named: the file was given by name, so that a missing one is no change.
conf_read(S, file, named) ==
    AllRead(conf_read_simple([S EXCEPT !.changed = FALSE], file, "DEF_USER"), named)

(***************************************************************************)
(* Printing and writing.                                                   *)
(***************************************************************************)
\* Mutant: a symbol that is n is not written.
kconfig_print_symbol_NoUnset(s, value, skip_unset) ==
    IF IsTri(s) /\ value = "n" THEN <<>> ELSE <<Line(s, value)>>

kconfig_print_symbol(s, value, skip_unset) ==
    IF IsTri(s) /\ value = "n" THEN (IF skip_unset THEN <<>> ELSE <<Line(s, Unset)>>)
    ELSE <<Line(s, value)>>
\* The name a module is defined by in autoconf.h is another one.
header_print_symbol(s, value) ==
    IF ~IsTri(s) THEN <<[name |-> s, module |-> FALSE,
                         val |-> IF SymType[s] = "HEX" /\ value \in DOMAIN Prefixed
                                 THEN Prefixed[value] ELSE value]>>
    ELSE IF value = "n" THEN <<>>
    ELSE <<[name |-> s, module |-> value = "m", val |-> "1"]>>
tristate_print_symbol(s, value) ==
    IF SymType[s] = "TRISTATE" /\ value # "n" THEN <<Line(s, IF value = "m" THEN "M" ELSE "Y")>>
    ELSE <<>>

\* The entries one after another; Emit(S, s) is [S, v]: the lines of s.
\* Each symbol is printed once: its flag WRITE is taken away.
RECURSIVE Traverse(_, _, _, _)
Traverse(Emit(_, _), S, lines, nodes) ==
    LET m == nodes[1]
        Next_(T, new) == Traverse(Emit, T, lines \o new, Tail(nodes))
        Emitted(r) == Next_(r.S, r.v)
        Looked(T) == IF ~IsChoice(m.sym) /\ Has(T, m.sym, "WRITE")
                     THEN Emitted(Emit(Lower(T, m.sym, "WRITE"), m.sym)) ELSE Next_(T, <<>>)
    IN  IF nodes = <<>> \/ DOMAIN S = {} THEN [S |-> S, v |-> lines]
        ELSE IF m.sym = "" THEN Next_(menu_is_visible(S, m).S, <<>>)
        ELSE Looked(IF IsChoice(m.sym) THEN S ELSE Calc(S, m.sym))

\* [S, v]: the lines of .config.  Only an unchanged configuration is
\* calculated anew.
LinesOf(S, s) == [S |-> S, v |-> kconfig_print_symbol(s, sym_get_string_value(S, s), FALSE)]
ConfigLines(S) == Traverse(LinesOf, IF S.changed THEN S ELSE sym_clear_all_valid(S), <<>>, K.nodes)
\* done: both files were opened and renamed.
conf_write(S, done) ==
    LET Unchanged(r) == IF done THEN [r EXCEPT !.S.changed = FALSE] ELSE r
    IN  Unchanged(ConfigLines(S))

\* Mutant: the value of a choice is left out whichever it is.
ChosenAnyway_Always(r, s) == TRUE

\* What the choice would choose without the user is left out too.
ChosenAnyway(r, s) == /\ K.choice[s] \notin K.optional /\ s = r.v
                      /\ SymType[s] = "BOOLEAN" /\ Tri(r.S, s) = 2

\* Only what the user changed from the default.
NoLine(S) == [S |-> S, v |-> <<>>]
UnlessChosen(r, s) == IF ChosenAnyway(r, s) THEN NoLine(r.S) ELSE LinesOf(r.S, s)
UnlessDefault(d, s) ==
    IF sym_get_string_value(d.S, s) = d.v THEN NoLine(d.S)
    ELSE IF IsChoiceValue(s) THEN UnlessChosen(sym_choice_default(d.S, K.choice[s]), s)
    ELSE LinesOf(d.S, s)
MinimalLine(S, s) ==
    IF sym_is_changable(S, s) THEN UnlessDefault(sym_get_string_default(S, s), s) ELSE NoLine(S)
conf_write_defconfig(S) == Traverse(MinimalLine, sym_clear_all_valid(S), <<>>, K.nodes)

\* Mutant: a symbol that is no longer written is not compared.
Differs_WrittenOnly(S, s) ==
    LET old == Has(S, s, "DEF_AUTO")
    IN  Has(S, s, "WRITE") /\ IF IsTri(s) THEN Tri(S, s) # (IF old THEN S.auto[s].tri ELSE 0)
                              ELSE ~old \/ sym_get_string_value(S, s) # S.auto[s].val

\* What make must rebuild: the symbols whose header is touched.  A symbol
\* of auto.conf that Kconfig no longer knows is one of them.
Differs(S, s) ==
    LET old == Has(S, s, "DEF_AUTO")
    IN  IF Has(S, s, "WRITE")
        THEN IF IsTri(s) THEN Tri(S, s) # (IF old THEN S.auto[s].tri ELSE 0)
             ELSE ~old \/ sym_get_string_value(S, s) # S.auto[s].val
        ELSE old
conf_split_config(S, auto) ==
    LET gone == IF auto = NoFile THEN {} ELSE {auto[i].sym : i \in DOMAIN auto} \ K.syms
        Compared_(T) == [S |-> T, v |-> gone \cup {s \in K.syms \ ChoiceSyms : Differs(T, s)}]
    IN  Compared_(CalcAll(conf_read_simple(S, auto, "DEF_AUTO").S, <<K.modules>> \o K.order))

\* [S, touched, auto, tristate, header]: all the files of the build.
BuildFiles(S, touched) ==
    LET out == Mapped(LAMBDA s : [sym |-> s, val |-> sym_get_string_value(S, s)],
                      SelectSeq(K.order, LAMBDA s : Has(S, s, "WRITE") /\ ~IsChoice(s)))
        All(Emit(_, _)) == FoldLeft(LAMBDA acc, l : acc \o Emit(l.sym, l.val), <<>>, out)
    IN  [S |-> S, touched |-> touched,
         auto |-> All(LAMBDA s, v : kconfig_print_symbol(s, v, TRUE)),
         tristate |-> All(tristate_print_symbol), header |-> All(header_print_symbol)]
AfterSplit(r) == BuildFiles(CalcAll(r.S, K.order), r.v)
conf_write_autoconf(S, auto) == AfterSplit(conf_split_config(sym_clear_all_valid(S), auto))

(***************************************************************************)
(* All symbols at once: modes def_yes, def_mod, def_no, def_default and    *)
(* def_random; random[s] is what the dice say for s, for a choice [tri,    *)
(* val], val being the one of its values that is chosen.  The option       *)
(* allnoconfig_y, which no Kconfig file of this build system has, is left  *)
(* out.                                                                    *)
(***************************************************************************)
randomize_choice_values(S, c, random) ==
    IF Tri(S, c) # 2 THEN [S |-> S, v |-> FALSE]
    ELSE LET vs == ToSet(K.values[c])
             Def(s) == CASE s = c -> [S.def[s] EXCEPT !.val = random[c].val]
                         [] s \in vs -> [S.def[s] EXCEPT !.tri = IF s = random[c].val THEN 2 ELSE 0]
                         [] OTHER -> S.def[s]
             T == [S EXCEPT !.def = Table(Def, K.order),
                            !.flags["DEF_USER"] = @ \cup vs \cup {c},
                            !.flags["VALID"] = @ \ (vs \cup {c})]
         IN  [S |-> T, v |-> TRUE]

Rolled(s, random) == IF IsChoice(s) THEN random[s].tri ELSE random[s]
NewDefault(S, s, mode, random) ==
    CASE mode = "def_yes" -> 2 [] mode = "def_mod" -> 1 [] mode = "def_no" -> 0
      [] mode = "def_random" -> IF SymType[s] = "BOOLEAN" /\ Rolled(s, random) = 1 THEN 0
                                ELSE Rolled(s, random)

\* The choices that have no value yet, one after another.
RECURSIVE NewChoices(_, _, _, _, _)
NewChoices(S, changed, syms, mode, random) ==
    LET c == syms[1]
        Next_(T, v) == NewChoices(T, v, Tail(syms), mode, random)
        Thrown(r) == Next_(r.S, r.v)
        Of(T) == IF mode = "def_random" THEN Thrown(randomize_choice_values(T, c, random))
                 ELSE Next_(set_all_choice_values(T, c), TRUE)
    IN  IF syms = <<>> THEN [S |-> S, v |-> changed]
        ELSE IF sym_has_value(S, c) \/ ~IsChoice(c) THEN Next_(S, changed)
        ELSE Of(Calc(S, c))

\* [S, v]: v is whether def_random needs another round.
conf_set_all_new_symbols(S, mode, random) ==
    LET new == IF mode = "def_default" THEN {}
               ELSE {s \in K.syms : /\ ~sym_has_value(S, s) /\ ~Has(S, s, "VALID")
                                    /\ sym_get_type(S, s) \in {"BOOLEAN", "TRISTATE"}}
        marked == {s \in new : ~(IsChoice(s) /\ mode = "def_random")}
        Def(s) == IF s \in new THEN [S.def[s] EXCEPT !.tri = NewDefault(S, s, mode, random)]
                  ELSE S.def[s]
        Tied(T) == IF mode = "def_random" THEN T
                   ELSE [T EXCEPT !.flags["NEED_SET"] =
                      @ \cup {s \in K.syms : IsChoiceValue(s) \/ (IsChoice(s) /\ ~sym_has_value(T, s))}]
    IN  NewChoices(Tied(sym_clear_all_valid(
                     [S EXCEPT !.def = Table(Def, K.order), !.flags["DEF_USER"] = @ \cup marked])),
                   new # {}, K.order, mode, random)
=============================================================================
