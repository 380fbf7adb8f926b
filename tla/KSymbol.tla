------------------------------ MODULE KSymbol -------------------------------
(***************************************************************************)
(* The values of the symbols of kconfig (buildroot/support/kconfig/        *)
(* symbol.c): how they are calculated on demand and cached, what the user  *)
(* may set and what setting does to the cache.                             *)
(*                                                                         *)
(* S is the memory of the program: what struct symbol holds of every       *)
(* symbol, modules_val and sym_change_count.  An operator that changes it  *)
(* returns the new S; one that also has a result returns [S, v].  The      *)
(* flag CHANGED, which tells the graphical front end what to redraw, is    *)
(* kept for that one only.  dropped is history, for properties: the        *)
(* numbers conf_read() found out of range since values were last cleared.  *)
(* K is the table that conf_parse() made.                                  *)
(***************************************************************************)
EXTENDS KMenu

CONSTANTS Kconfigs,  \* the Kconfig files: what conf_parse() is given
          ValidText, \* ValidText["INT"], ["HEX"]: the well-formed numbers
          Prefixed,  \* a function of the hex numbers without 0x: with it
          Text       \* Text["INT"], ["HEX"]: functions of the numbers, as printed

VARIABLES prog,      \* the Kconfig file the program was started with
          K          \* the table of its menu tree

Null == "NULL"       \* no string, no symbol

IsChoice(s) == s \in ChoiceSyms
IsChoiceValue(s) == K.choice[s] # ""
IsTri(s) == SymType[s] \in {"BOOLEAN", "TRISTATE"}
IsText(s) == SymType[s] \in {"INT", "HEX", "STRING"}

\* The memory before a configuration is read.  The constants y, m and n
\* are always calculated; any other symbol without a type is its name.
Zeroed ==
    LET All(v) == Table(LAMBDA s : v, K.order)
        Constant(s) == [tri |-> CASE s = "y" -> 2 [] s = "m" -> 1 [] OTHER -> 0,
                        val |-> IF SymType[s] = "UNKNOWN" THEN s ELSE Null]
    IN  [curr |-> Table(Constant, K.order),
         vis |-> All(0), dir |-> All(0), rev |-> All(0), imp |-> All(0),
         flags |-> [VALID |-> {}, WRITE |-> {}, DEF_USER |-> {}, DEF_AUTO |-> {}, NEED_SET |-> {}],
         def |-> All([tri |-> 0, val |-> Null]),                  \* S_DEF_USER
         auto |-> All([tri |-> 0, val |-> Null]),                 \* S_DEF_AUTO
         seen |-> Table(LAMBDA i : 0, K.ids),    \* prompt->visible.tri of an entry
         modules_val |-> 0, changed |-> TRUE,
         dropped |-> {}]

Raise(S, s, f) == [S EXCEPT !.flags[f] = @ \cup {s}]
Lower(S, s, f) == [S EXCEPT !.flags[f] = @ \ {s}]
Has(S, s, f) == s \in S.flags[f]
\* sym_set_changed() of each of the symbols, in the program that looks at it.
sym_set_changed(S, syms) ==
    IF "CHANGED" \in DOMAIN S.flags THEN [S EXCEPT !.flags["CHANGED"] = @ \cup syms] ELSE S
sym_has_value(S, s) == Has(S, s, "DEF_USER")
Tri(S, s) == S.curr[s].tri

sym_get_type(S, s) ==
    IF /\ SymType[s] = "TRISTATE"
       /\ (IsChoiceValue(s) /\ S.vis[s] = 2) \/ S.modules_val = 0
    THEN "BOOLEAN" ELSE SymType[s]

TriText == <<"n", "m", "y">>
sym_get_string_value(S, s) ==
    IF ~IsTri(s) THEN S.curr[s].val
    ELSE IF Tri(S, s) = 1 /\ Tri(S, K.modules) = 0 THEN "n" ELSE TriText[Tri(S, s) + 1]

Values(S) == [s \in K.syms |-> [tri |-> Tri(S, s), str |-> sym_get_string_value(S, s)]]

StrToLL(str, base) == IF str \in DOMAIN Number[base] THEN Number[base][str] ELSE 0

\* The symbols an expression reads, in the order they are calculated.
RECURSIVE Reads(_)
Reads(e) == CASE e.type = "NONE" -> <<>>
              [] e.type = "SYMBOL" -> <<e.sym>>
              [] e.type = "NOT" -> Reads(e.left)
              [] IsTwo(e) -> Reads(e.left) \o Reads(e.right)
              [] OTHER -> <<e.sym, e.sym2>>

\* FoldLeft for an operator whose results are records: each is computed
\* before the next, which a long chain of calculations needs in TLC.
RECURSIVE Steps(_, _, _)
Steps(Op(_, _), base, seq) ==
    IF seq = <<>> \/ DOMAIN base = {} THEN base ELSE Steps(Op, Op(base, seq[1]), Tail(seq))

\* expr_calc_value() with the calculations it causes: [S, v].
RECURSIVE Eval(_, _)

\* sym_calc_value() of a symbol, which is what evaluating it does.
Calc(S, s) == IF s \in S.flags["VALID"] THEN S ELSE Eval(S, SymbolExpr(s)).S

\* As in Steps each symbol is calculated before the next.
RECURSIVE CalcAll(_, _)
CalcAll(S, syms) == IF syms = <<>> \/ DOMAIN S = {} THEN S
                    ELSE CalcAll(Calc(S, syms[1]), Tail(syms))

\* The first property of a type whose condition is not n: [S, p, v], p = <<>>
\* for none.
RECURSIVE FirstVisible(_, _, _)
FirstVisible(S, type, props) ==
    LET Or(r) == IF r.v # 0 THEN [S |-> r.S, p |-> <<props[1]>>, v |-> r.v]
                 ELSE FirstVisible(r.S, type, Tail(props))
    IN  IF props = <<>> THEN [S |-> S, p |-> <<>>, v |-> 0]
        ELSE IF props[1].type # type THEN FirstVisible(S, type, Tail(props))
        ELSE Or(Eval(S, props[1].vis))
sym_get_default_prop(S, s) == FirstVisible(S, "DEFAULT", K.props[s])
sym_get_range_prop(S, s) == FirstVisible(S, "RANGE", K.props[s])

RangeBase(s, base) == CASE SymType[s] = "INT" -> 10 [] SymType[s] = "HEX" -> 16 [] OTHER -> base
sym_get_range_val(S, s, base) ==
    LET In(T) == [S |-> T, v |-> StrToLL(T.curr[s].val, RangeBase(s, base))]
    IN  In(Calc(S, s))

\* The bound of the range of s that n violates: [S, v], v = <<>> for none.
OrUpper(lo, s, n, sym2) ==
    LET Above(hi) == [hi EXCEPT !.v = IF n > hi.v THEN <<hi.v>> ELSE <<>>]
    IN  IF n < lo.v THEN [lo EXCEPT !.v = <<@>>]
        ELSE Above(sym_get_range_val(lo.S, sym2, RangeBase(s, 0)))
BoundOf(r, s, n) ==
    IF r.p = <<>> THEN [S |-> r.S, v |-> <<>>]
    ELSE OrUpper(sym_get_range_val(r.S, r.p[1].expr.sym, RangeBase(s, 0)), s, n, r.p[1].expr.sym2)
Violated(S, s, n) == BoundOf(sym_get_range_prop(S, s), s, n)

\* A number outside its range becomes the bound it violates.
sym_validate_range(S, s) ==
    LET Becomes(r) == IF r.v = <<>> THEN r.S
                      ELSE [r.S EXCEPT !.curr[s].val = Text[SymType[s]][r.v[1]]]
    IN  IF SymType[s] \notin {"INT", "HEX"} THEN S
        ELSE Becomes(Violated(S, s, StrToLL(S.curr[s].val, RangeBase(s, 0))))

(***************************************************************************)
(* sym_calc_visibility(): the prompts, and for what is not a choice value  *)
(* the direct, reverse and implied dependencies.                           *)
(***************************************************************************)
RECURSIVE PromptsVisible(_, _, _)
PromptsVisible(acc, s, prompts) ==
    LET id == prompts[1].id
        Next_(S, v) == PromptsVisible([S |-> [S EXCEPT !.seen[id] = v], v |-> TriMax(acc.v, v)],
                                      s, Tail(prompts))
        \* A tristate value that is only m cannot be seen in a choice that is y.
        OfChoice(S) == K.choice[s] # "" /\ SymType[s] = "TRISTATE" /\ Tri(S, K.choice[s]) = 2
        After(r) == Next_(r.S, IF r.v = 1 /\ OfChoice(r.S) THEN 0 ELSE r.v)
    IN  IF prompts = <<>> THEN acc ELSE After(Eval(acc.S, prompts[1].vis))

\* The dependencies of the sequence kinds, of dir, rev and imp.
RECURSIVE Dependencies(_, _, _)
Dependencies(S, s, kinds) ==
    LET f == kinds[1]
        Next_(T) == Dependencies(T, s, Tail(kinds))
        In(r) == [r.S EXCEPT ![f][s] =
                    IF r.v = 1 /\ sym_get_type(r.S, s) = "BOOLEAN" THEN 2 ELSE r.v]
    IN  IF kinds = <<>> THEN S
        ELSE Next_(IF (f # "dir" /\ K[f][s] = NoExpr) \/ (f = "imp" /\ S.dir[s] = 0)
                   THEN [S EXCEPT ![f][s] = 0] ELSE In(Eval(S, K[f][s])))

sym_calc_visibility(S, s) ==
    LET Bool(T, v) == IF v = 1 /\ (SymType[s] # "TRISTATE" \/ T.modules_val = 0) THEN 2 ELSE v
        Visible(r) == [r.S EXCEPT !.vis[s] = Bool(r.S, r.v)]
        Noted(T) == IF \A f \in {"vis", "dir", "rev", "imp"} : S[f][s] = T[f][s] THEN T
                    ELSE sym_set_changed(T, {s})
    IN  Noted(Dependencies(Visible(PromptsVisible([S |-> S, v |-> 0], s, K.prompts[s])), s,
                           IF IsChoiceValue(s) THEN <<>> ELSE <<"dir", "rev", "imp">>))

(***************************************************************************)
(* Choices.  curr.val of a choice is the value it has chosen.              *)
(***************************************************************************)
RECURSIVE FirstSeen(_, _)
FirstSeen(S, syms) == IF syms = <<>> THEN Null
                      ELSE IF S.vis[syms[1]] # 0 THEN syms[1] ELSE FirstSeen(S, Tail(syms))

\* A default counts when its condition holds and it can be seen.
RECURSIVE DefaultSeen(_, _)
DefaultSeen(S, props) ==
    LET value == props[1].expr.sym
        Or(r) == IF r.v # 0 /\ r.S.vis[value] # 0 THEN [r EXCEPT !.v = value]
                 ELSE DefaultSeen(r.S, Tail(props))
    IN  IF props = <<>> THEN [S |-> S, v |-> Null]
        ELSE IF props[1].type # "DEFAULT" THEN DefaultSeen(S, Tail(props))
        ELSE Or(Eval(S, props[1].vis))

sym_choice_default(S, c) ==
    LET Or(r) == IF r.v # Null THEN r ELSE [r EXCEPT !.v = FirstSeen(r.S, K.values[c])]
    IN  Or(DefaultSeen(S, K.props[c]))

RECURSIVE AllVisibilities(_, _)
AllVisibilities(S, syms) == IF syms = <<>> \/ DOMAIN S = {} THEN S
                            ELSE AllVisibilities(sym_calc_visibility(S, syms[1]), Tail(syms))

\* Mutant: the user's value counts even when it cannot be seen.
UserChoice_Unseen(S, c) == S.def[c].val # Null

\* The value the user chose counts while it can be seen.
UserChoice(S, c) == S.def[c].val # Null /\ S.vis[S.def[c].val] # 0

\* What is chosen once the visibility of the values is known.
Choose(S, c) ==
    LET Default_(r) == IF r.v = Null THEN [r.S EXCEPT !.curr[c] = [tri |-> 0, val |-> Null]]
                       ELSE [r.S EXCEPT !.curr[c].val = r.v]
    IN  IF UserChoice(S, c) THEN [S EXCEPT !.curr[c].val = S.def[c].val]
        ELSE Default_(sym_choice_default(S, c))

\* The choice stays the user's only while all values in sight are.
sym_calc_choice(S, c) ==
    LET New(T) == \E s \in ToSet(K.values[c]) : T.vis[s] # 0 /\ ~sym_has_value(T, s)
        Noted(T) == IF New(T) THEN Lower(T, c, "DEF_USER") ELSE T
    IN  Choose(Noted(AllVisibilities(S, K.values[c])), c)

\* confdata.c: a choice that was given no value takes what its values say.
set_all_choice_values(S, c) ==
    LET T == Steps(LAMBDA X, s : IF sym_has_value(X, s) THEN X ELSE [X EXCEPT !.def[s].tri = 0],
                      S, K.values[c])
    IN  [T EXCEPT !.flags["DEF_USER"] = @ \cup {c}, !.flags["VALID"] = @ \ {c},
                  !.flags["NEED_SET"] = @ \ {c}]

(***************************************************************************)
(* sym_calc_value(): the new value of a symbol that is not valid.  A       *)
(* NewValue operator returns [S, new].                                     *)
(***************************************************************************)
Empty(s) == [tri |-> 0, val |-> IF IsTri(s) THEN Null ELSE ""]

\* Not y or n where the symbol allows no m, and what selects it heeded.
Bounded(S, s, tri) ==
    LET Selected(v) == IF v = 1 /\ (sym_get_type(S, s) = "BOOLEAN" \/ S.imp[s] = 2) THEN 2 ELSE v
    IN  [S |-> S, new |-> [tri |-> Selected(TriMax(tri, S.rev[s])), val |-> Null]]

\* Without a value of the user: the default d, for a tristate also what
\* implies it.
FromDefault(d, s) ==
    LET Written(T, v) == Bounded(IF v # 0 THEN Raise(T, s, "WRITE") ELSE T, s, v)
        Logic(r) == Written(r.S, TriMax(TriMin(r.v, d.v), r.S.imp[s]))
        Value(r) == [S |-> r.S, new |-> [tri |-> 0, val |-> r.S.curr[d.p[1].expr.sym].val]]
        Of(r) == IF IsTri(s) THEN Logic(r) ELSE Value(r)
    IN  IF d.p # <<>>
        THEN Of(Eval(IF IsTri(s) THEN d.S ELSE Raise(d.S, s, "WRITE"), d.p[1].expr))
        ELSE IF IsTri(s) THEN Logic([S |-> d.S, v |-> 0]) ELSE [S |-> d.S, new |-> Empty(s)]

NewValue(S, s) ==
    LET T == IF IsTri(s) /\ S.rev[s] # 0 THEN Raise(S, s, "WRITE") ELSE S
        user == S.def[s]
    IN  CASE IsChoiceValue(s) /\ IsTri(s) /\ S.vis[s] = 2 ->
               [S |-> S, new |-> [Empty(s) EXCEPT !.tri = IF S.curr[K.choice[s]].val = s THEN 2 ELSE 0]]
          [] S.vis[s] # 0 /\ sym_has_value(S, s) /\ ~(IsChoiceValue(s) /\ IsTri(s) /\ S.vis[s] = 2) ->
               IF IsTri(s) THEN Bounded(S, s, TriMin(user.tri, S.vis[s]))
               ELSE [S |-> S, new |-> [Empty(s) EXCEPT !.val = user.val]]
          [] OTHER -> IF IsChoice(s) THEN Bounded(T, s, 0)
                      ELSE FromDefault(sym_get_default_prop(T, s), s)

\* A new value is a change, that of the modules symbol one of all symbols.
ChangedFrom(S, s, old) ==
    CASE S.curr[s] = old -> S
      [] S.curr[s] # old /\ s = K.modules ->
           [sym_set_changed(S, K.syms) EXCEPT !.modules_val = Tri(S, s)]
      [] OTHER -> sym_set_changed(S, {s})

\* A choice that is written makes its visible values written, one that
\* changed makes them changed; AUTO symbols, which all choices are, are
\* never written themselves.
WriteValues(S, c) ==
    LET T == Steps(LAMBDA X, s : IF X.vis[s] # 0 THEN Raise(X, s, "WRITE") ELSE X,
                      S, IF Has(S, c, "WRITE") THEN K.values[c] ELSE <<>>)
        changed == "CHANGED" \in DOMAIN S.flags /\ Has(S, c, "CHANGED")
    IN  Lower(sym_set_changed(T, IF changed THEN ToSet(K.values[c]) ELSE {}), c, "WRITE")

\* The new value is in range, is noted and, of a choice, reaches the values.
Settled(S, s, old) ==
    LET Set(T) == IF Has(T, s, "NEED_SET") THEN set_all_choice_values(T, s) ELSE T
    IN  IF IsChoice(s) THEN Set(WriteValues(ChangedFrom(S, s, old), s))
        ELSE ChangedFrom(sym_validate_range(S, s), s, old)

Took(r, s, old) ==
    LET T == [r.S EXCEPT !.curr[s] = r.new]
    IN  Settled(IF IsChoice(s) /\ r.new.tri = 2 THEN sym_calc_choice(T, s) ELSE T, s, old)

\* The value is empty meanwhile, if it is asked for.
Renewed(S, s) ==
    LET Emptied(T) == [T EXCEPT !.curr[s] = Empty(s),
                                !.flags["WRITE"] = IF T.vis[s] # 0 THEN @ \cup {s} ELSE @]
        Begun == [S EXCEPT !.flags["VALID"] = @ \cup {s}, !.flags["WRITE"] = @ \ {s}]
    IN  Took(NewValue(Emptied(sym_calc_visibility(Begun, s)), s), s, S.curr[s])

sym_calc_value(S, s) ==
    IF Has(S, s, "VALID") \/ SymType[s] = "UNKNOWN" THEN S
    ELSE Renewed(IF IsChoiceValue(s) /\ Has(S, s, "NEED_SET")
                 THEN Calc(Lower(S, s, "NEED_SET"), K.choice[s]) ELSE S, s)

WithValue(S, e) == [S |-> S, v |-> expr_calc_value(e, Values(S))]
Eval(S, e) ==
    WithValue(IF e.type = "SYMBOL" THEN sym_calc_value(S, e.sym) ELSE CalcAll(S, Reads(e)), e)

(***************************************************************************)
(* What the user may set.                                                  *)
(***************************************************************************)
\* Mutant: what was calculated stays valid.
sym_clear_all_valid_Kept(S) == Calc([S EXCEPT !.changed = TRUE], K.modules)

sym_clear_all_valid(S) ==
    Calc([S EXCEPT !.flags["VALID"] = {}, !.dropped = {}, !.changed = TRUE], K.modules)

sym_tristate_within_range(S, s, val) ==
    /\ S.vis[s] # 0
    /\ sym_get_type(S, s) \in {"BOOLEAN", "TRISTATE"}
    /\ ~(sym_get_type(S, s) = "BOOLEAN" /\ val = 1)
    /\ S.vis[s] > S.rev[s]
    /\ ~(S.imp[s] = 2 /\ val = 1)
    /\ IF IsChoiceValue(s) /\ S.vis[s] = 2 THEN val = 2
       ELSE S.rev[s] <= val /\ val <= S.vis[s]

sym_is_changable(S, s) == S.vis[s] > S.rev[s]

Users(S, s) == IF sym_has_value(S, s) THEN S ELSE sym_set_changed(Raise(S, s, "DEF_USER"), {s})

\* [S, v]: v is whether the value was taken.
sym_set_tristate_value(S, s, val) ==
    LET c == K.choice[s]
        seen == {x \in ToSet(K.values[c]) : S.vis[x] # 0}
        set == [Users(S, s) EXCEPT !.def[s].tri = val]
        new == IF IsChoiceValue(s) /\ val = 2
               THEN [set EXCEPT !.def[c].val = s, !.flags["DEF_USER"] = @ \cup seen \cup {c}]
               ELSE set
    IN  IF Tri(S, s) # val /\ ~sym_tristate_within_range(S, s, val) THEN [S |-> S, v |-> FALSE]
        ELSE [S |-> IF Tri(S, s) # val THEN sym_clear_all_valid(new) ELSE new, v |-> TRUE]

\* The next value in the order n, m, y, n, ... that is taken.
NextTri(val) == (val + 1) % 3
RECURSIVE Toggled(_, _, _)
Toggled(S, s, val) ==
    LET Or(r) == IF r.v \/ NextTri(val) = Tri(S, s) THEN r.S ELSE Toggled(r.S, s, NextTri(val))
    IN  Or(sym_set_tristate_value(S, s, NextTri(val)))
sym_toggle_tristate_value(S, s) == Toggled(S, s, Tri(S, s))

TriOf(str) == CASE str = "y" -> 2 [] str = "m" -> 1 [] str = "n" -> 0 [] OTHER -> -1

sym_string_valid(s, str) ==
    CASE SymType[s] = "STRING" -> TRUE
      [] SymType[s] \in {"INT", "HEX"} -> str \in ValidText[SymType[s]]
      [] IsTri(s) -> TriOf(str) # -1
      [] OTHER -> FALSE

sym_string_within_range(S, s, str) ==
    LET In(r) == [r EXCEPT !.v = @ = <<>>]
    IN  CASE ~sym_string_valid(s, str) -> [S |-> S, v |-> FALSE]
          [] sym_string_valid(s, str) /\ IsTri(s) ->
               [S |-> S, v |-> sym_tristate_within_range(S, s, TriOf(str))]
          [] sym_string_valid(s, str) /\ SymType[s] = "STRING" -> [S |-> S, v |-> TRUE]
          [] OTHER -> In(Violated(S, s, StrToLL(str, RangeBase(s, 0))))

\* A hex number is stored with its 0x; the same text again changes nothing.
Forgotten(r) == IF r.v THEN [r EXCEPT !.S = sym_clear_all_valid(@)] ELSE r
sym_set_string_value(S, s, str) ==
    LET new == IF SymType[s] = "HEX" /\ str \in DOMAIN Prefixed THEN Prefixed[str] ELSE str
        Set(r) == IF r.v THEN [r EXCEPT !.S = [Users(@, s) EXCEPT !.def[s].val = new]] ELSE r
        same == new = str /\ S.def[s].val = str
    IN  IF IsTri(s)
        THEN IF TriOf(str) = -1 THEN [S |-> S, v |-> FALSE]
             ELSE sym_set_tristate_value(S, s, TriOf(str))
        ELSE IF same THEN Set(sym_string_within_range(S, s, str))
        ELSE Forgotten(Set(sym_string_within_range(S, s, str)))

\* What the symbol would be without a value of the user, its default being
\* d: [S, v].
DefaultText(d, s) ==
    LET Bool(T, v) == IF v = 1 /\ ~IsChoiceValue(s) /\ Tri(T, K.modules) = 0 THEN 2 ELSE v
        Mod(v) == IF v = 1 /\ SymType[s] = "BOOLEAN" THEN 2 ELSE v
        Logic(T, v) == TriText[TriMax(Mod(Bool(T, TriMax(TriMin(v, d.v), T.rev[s]))), T.imp[s]) + 1]
        Of(r) == [S |-> r.S, v |-> IF IsTri(s) THEN Logic(r.S, r.v)
                                   ELSE r.S.curr[d.p[1].expr.sym].val]
    IN  IF d.p # <<>> THEN Of(Eval(d.S, d.p[1].expr))
        ELSE [S |-> d.S, v |-> IF IsTri(s) THEN Logic(d.S, 0) ELSE ""]
sym_get_string_default(S, s) ==
    DefaultText(sym_get_default_prop(Calc(sym_calc_visibility(S, s), K.modules), s), s)

(***************************************************************************)
(* menu.c: whether an entry is shown.  An entry that is shown for its      *)
(* children only counts as set by the user.                                *)
(***************************************************************************)
RECURSIVE menu_is_visible(_, _), AnyVisible(_, _)
ForItself(r, m) ==
    LET Owner(q) == [q EXCEPT !.S = IF q.v THEN Raise(@, m.sym, "DEF_USER") ELSE @]
        T == IF m.sym # "" THEN r.S ELSE [r.S EXCEPT !.seen[m.id] = r.v]
    IN  IF T.seen[m.id] # 0 THEN [S |-> T, v |-> TRUE]
        ELSE IF m.sym # "" /\ T.curr[m.sym].tri # 0 THEN Owner(AnyVisible(T, m.list))
        ELSE [S |-> T, v |-> FALSE]
Unhidden(r, m) ==
    IF r.v = 0 THEN [S |-> r.S, v |-> FALSE]
    ELSE ForItself(Eval(r.S, IF m.sym # "" THEN SymbolExpr(m.sym) ELSE PromptOf(m).vis), m)
menu_is_visible(S, m) ==
    IF HasPrompt(m) THEN Unhidden(Eval(S, m.visibility), m) ELSE [S |-> S, v |-> FALSE]

AnyVisible(S, list) ==
    LET Or(r) == IF r.v THEN r ELSE AnyVisible(r.S, Tail(list))
    IN  IF list = <<>> THEN [S |-> S, v |-> FALSE] ELSE Or(menu_is_visible(S, list[1]))

(***************************************************************************)
(* sym_check_deps(): the search for a symbol that depends on itself, made  *)
(* once when the Kconfig file was read.  Implied dependencies are not      *)
(* followed.  C is [check, checked]: the symbols on the way and those      *)
(* done; the result is [C, v], v the symbol of a cycle or Null.            *)
(***************************************************************************)
RECURSIVE sym_check_deps(_, _, _)

\* The first complaint while visiting the symbols one after another.
RECURSIVE sym_check_expr_deps(_, _, _)
sym_check_expr_deps(T, C, syms) ==
    IF syms = <<>> THEN [C |-> C, v |-> Null]
    ELSE LET r == sym_check_deps(T, C, syms[1])
         IN  IF r.v # Null THEN r ELSE sym_check_expr_deps(T, r.C, Tail(syms))

sym_check_sym_deps(T, C, s) ==
    LET Followed(p) == IF p.type = "SELECT" THEN <<>>
                       ELSE Reads(p.vis) \o
                            (IF p.type = "DEFAULT" /\ ~IsChoice(s) THEN Reads(p.expr) ELSE <<>>)
    IN  sym_check_expr_deps(T, C, FoldLeft(LAMBDA acc, p : acc \o Followed(p),
                                           Reads(T.rev[s]), T.props[s]))

sym_check_choice_deps(T, C, c) ==
    LET own == ToSet(T.values[c])
        C1 == [check |-> C.check \cup own \cup {c}, checked |-> C.checked \cup own \cup {c}]
        r1 == sym_check_sym_deps(T, C1, c)
        C2 == [r1.C EXCEPT !.check = @ \ {c}]
        r2 == FoldLeft(LAMBDA acc, s : IF acc.v # Null THEN acc ELSE sym_check_sym_deps(T, acc.C, s),
                       [C |-> C2, v |-> r1.v], T.values[c])
    IN  [C |-> [r2.C EXCEPT !.check = @ \ own], v |-> IF r2.v \in own THEN c ELSE r2.v]

sym_check_deps(T, C, s) ==
    LET r == CASE T.choice[s] # "" -> sym_check_deps(T, C, T.choice[s])
               [] T.choice[s] = "" /\ IsChoice(s) -> sym_check_choice_deps(T, C, s)
               [] OTHER -> LET x == sym_check_sym_deps(T, [check |-> C.check \cup {s},
                                                           checked |-> C.checked \cup {s}], s)
                           IN  [x EXCEPT !.C.check = @ \ {s}]
    IN  IF s \in C.check THEN [C |-> C, v |-> s]
        ELSE IF s \in C.checked THEN [C |-> C, v |-> Null]
        ELSE [r EXCEPT !.v = IF @ = s THEN Null ELSE @]

\* conf_parse() ends the program when a symbol depends on itself.
Acyclic(T) ==
    LET Check(acc, s) == LET r == sym_check_deps(T, acc.C, s)
                         IN  [C |-> r.C, v |-> acc.v /\ r.v = Null]
    IN  FoldLeft(Check, [C |-> [check |-> {}, checked |-> {}], v |-> TRUE], T.order).v
=============================================================================
