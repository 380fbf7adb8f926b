------------------------------- MODULE KMenu -------------------------------
(***************************************************************************)
(* The menu tree of kconfig (buildroot/support/kconfig/menu.c): what the   *)
(* statements of the Kconfig language add to it and what menu_finalize()   *)
(* makes of it: conditions spread to the entries, selects turned into      *)
(* reverse dependencies, choices tied to their values, entries moved under *)
(* the symbol they depend on and the "if" blocks dissolved.                *)
(*                                                                         *)
(* A menu entry is a record that holds its children; the pointers next,    *)
(* list and parent of the C code are positions in sequences.  Warnings are *)
(* left out: they change nothing.                                          *)
(***************************************************************************)
EXTENDS KExpr, SequencesExt

CONSTANT ChoiceSyms    \* the names of the choice symbols

(***************************************************************************)
(* What a statement adds.  A property is [type, expr, vis]: its value and  *)
(* the condition under which it counts.                                    *)
(***************************************************************************)
Property(type, expr, vis) == [type |-> type, expr |-> expr, vis |-> vis]
Prompt(vis) == Property("PROMPT", NoExpr, vis)
Default(expr, vis) == Property("DEFAULT", expr, vis)
Select(s, vis) == Property("SELECT", SymbolExpr(s), vis)
Imply(s, vis) == Property("IMPLY", SymbolExpr(s), vis)
Range_(lo, hi, vis) == Property("RANGE", Comp("RANGE", lo, hi), vis)

Entry(id, sym, dep, visibility, props, list) ==
    [id |-> id, sym |-> sym, dep |-> dep, visibility |-> visibility,
     props |-> props, list |-> list]

\* Op of every element of a sequence.
Mapped(Op(_), seq) == FoldLeft(LAMBDA acc, x : Append(acc, Op(x)), <<>>, seq)

\* The function that maps each element of a sequence by Op.
RECURSIVE Table(_, _)
Table(Op(_), seq) == IF seq = <<>> THEN <<>> ELSE (seq[1] :> Op(seq[1])) @@ Table(Op, Tail(seq))

config(sym, dep, props) == Entry(sym, sym, dep, NoExpr, props, <<>>)
menuconfig(sym, dep, props) ==
    Entry(sym, sym, dep, NoExpr,
          Mapped(LAMBDA p : IF p.type = "PROMPT" THEN [p EXCEPT !.type = "MENU"] ELSE p, props),
          <<>>)
choice(sym, dep, props, list) == Entry(sym, sym, dep, NoExpr, props, list)
menu(id, dep, visibility, list) ==
    Entry(id, "", dep, visibility, <<Property("MENU", NoExpr, NoExpr)>>, list)
if(id, dep, list) == Entry(id, "", dep, NoExpr, <<>>, list)
comment(id, dep) == Entry(id, "", dep, NoExpr, <<Property("COMMENT", NoExpr, NoExpr)>>, <<>>)

\* The properties that have a text are prompts; an entry has at most one.
IsPrompt(prop) == prop.type \in {"PROMPT", "MENU", "COMMENT"}
HasPrompt(m) == \E i \in DOMAIN m.props : IsPrompt(m.props[i])
PromptOf(m) == SelectSeq(m.props, IsPrompt)[1]
\* What is looked at when an entry's dependencies are asked for.
Condition(m) == IF HasPrompt(m) THEN PromptOf(m).vis ELSE m.dep

\* A prompt of a symbol also needs what its upper menus are "visible if";
\* above is the sequence of those conditions, the innermost first.
RECURSIVE menu_add_prop(_, _)
menu_add_prop(m, above) ==
    LET Needs(e) == FoldLeft(LAMBDA x, v : AndOf(x, v), e, above)
        inner == IF m.visibility = NoExpr THEN above ELSE <<m.visibility>> \o above
        Add(p) == IF m.sym # "" /\ IsPrompt(p) THEN [p EXCEPT !.vis = Needs(@)] ELSE p
    IN  [m EXCEPT !.props = Mapped(Add, @),
                  !.list = Mapped(LAMBDA c : menu_add_prop(c, inner), @)]

(***************************************************************************)
(* menu_finalize().  g holds what it changes beside the entries: the       *)
(* reverse, implied and direct dependencies of the symbols, the choice     *)
(* each value belongs to and the values of each choice, in order.          *)
(***************************************************************************)
Untied(order) == LET None == Table(LAMBDA s : NoExpr, order)
                 IN  [rev |-> None, imp |-> None, dir |-> None,
                      choice |-> Table(LAMBDA s : "", order), values |-> Table(LAMBDA s : <<>>, order)]

\* The condition the children of an entry inherit.
ParentDep(parent) ==
    IF parent.sym \in ChoiceSyms THEN SymbolExpr(parent.sym) ELSE Condition(parent)

\* A condition simplified and added to the one it stands under.
Under(base, e, ms) == expr_eliminate_dups(AndOf(base, expr_transform(rewrite_m(e, ms))))

Inherit(parentdep, m, ms) ==
    LET Bool(e) == IF m.sym # "" /\ SymType[m.sym] # "TRISTATE" THEN expr_trans_bool(e) ELSE e
        With(base) == [m EXCEPT !.dep = base,
                                !.props = Mapped(LAMBDA p : [p EXCEPT !.vis = Bool(Under(base, @, ms))], @)]
    IN  With(Under(parentdep, m.dep, ms))

\* The selects (to = "rev") and implies (to = "imp") of an entry.
Reverse_(g, m, type, to) ==
    FoldLeft(LAMBDA h, prop :
               [h EXCEPT ![to][prop.expr.sym] =
                   OrOf(@, AndOf(SymbolExpr(m.sym), prop.vis))],
             g, SelectSeq(m.props, LAMBDA prop : prop.type = type))

\* dep needs sym: an absolute dependency, or dep's operands cover base's.
BelongsUnder(m, sym, base) ==
    /\ expr_contains_symbol(Condition(m), sym)
    /\ \/ expr_depends_symbol(Condition(m), sym)
       \/ Superset(Condition(m), base)

\* A child of a choice that has a symbol becomes one of its values; a value
\* that is no tristate needs the tristate choice to be y.
TieChoice(g, parent, m) ==
    IF ~(parent.sym \in ChoiceSyms /\ m.sym # "" /\ g.choice[m.sym] = "") THEN g
    ELSE [g EXCEPT !.choice[m.sym] = parent.sym, !.values[parent.sym] = Append(@, m.sym)]
NeedsChoice(g, parent, m) ==
    IF /\ parent.sym \in ChoiceSyms /\ m.sym # "" /\ g.choice[m.sym] = ""
       /\ SymType[parent.sym] = "TRISTATE" /\ SymType[m.sym] # "TRISTATE"
    THEN LET is == Comp("EQUAL", parent.sym, "y")
         IN  [m EXCEPT !.dep = AndOf(is, @),
                       !.props = Mapped(LAMBDA p : [p EXCEPT !.vis = AndOf(is, @)], @)]
    ELSE m

\* The children tied to their choice, and those without a prompt replaced
\* by themselves followed by their children.
RECURSIVE Flatten_(_, _, _)
Flatten_(g, parent, list) ==
    IF list = <<>> THEN [g |-> g, list |-> <<>>]
    ELSE LET open == list[1].list # <<>> /\ ~HasPrompt(list[1])
             m == IF open THEN [list[1] EXCEPT !.list = <<>>] ELSE list[1]
             Before(after) == [after EXCEPT !.list = <<NeedsChoice(g, parent, m)>> \o @]
         IN  Before(Flatten_(TieChoice(g, parent, m), parent,
                             IF open THEN list[1].list \o Tail(list) ELSE Tail(list)))

\* A choice the user may not switch off holds itself at m when visible.
NotOptional(g, m, optional) ==
    IF m.sym # "" /\ m.sym \in ChoiceSyms \ optional /\ HasPrompt(m)
    THEN [g EXCEPT !.rev[m.sym] = OrOf(@, AndOf(PromptOf(m).vis, SymbolExpr("m")))]
    ELSE g

RECURSIVE menu_finalize(_, _, _, _, _), FinalizeList(_, _, _, _, _), Absorb(_, _, _, _, _, _, _)
\* The children of an entry: the conditions they inherit, then each of them.
FinalizeKids(g, m, rest, ms, optional) ==
    LET Selects(h, c) == Reverse_(Reverse_(h, c, "SELECT", "rev"), c, "IMPLY", "imp")
        Each(heirs) == FinalizeList(FoldLeft(Selects, g, heirs), <<>>, heirs, ms, optional)
    IN  Each(Mapped(LAMBDA c : Inherit(ParentDep(m), c, ms), m.list)) @@ [rest |-> rest]

\* Finalizes m, which rest follows: [g, m, rest], rest without what m took.
menu_finalize(g, m, rest, ms, optional) ==
    LET Flat(r, f) == [g |-> NotOptional(f.g, m, optional), m |-> [m EXCEPT !.list = f.list],
                       rest |-> r.rest]
        Done(r) == Flat(r, Flatten_(r.g, m, r.list))
        Taken(r) == [r EXCEPT !.g.dir[m.sym] = OrOf(@, m.dep)]
    IN  Done(IF m.list # <<>> THEN FinalizeKids(g, m, rest, ms, optional)
             ELSE IF m.sym # ""
             THEN Taken(Absorb(g, m.sym, IF HasPrompt(m) THEN PromptOf(m).vis ELSE NoExpr,
                               <<>>, rest, ms, optional))
             ELSE [g |-> g, list |-> <<>>, rest |-> rest])

\* done are the entries of the list that are finalized already.
FinalizeList(g, done, list, ms, optional) ==
    LET After(r) == FinalizeList(r.g, Append(done, r.m), r.rest, ms, optional)
    IN  IF list = <<>> THEN [g |-> g, list |-> done]
        ELSE After(menu_finalize(g, list[1], Tail(list), ms, optional))

\* The entries after sym's that need it become its children, one by one.
Absorb(g, sym, base, taken, rest, ms, optional) ==
    LET After(r) == Absorb(r.g, sym, base, Append(taken, r.m), r.rest, ms, optional)
    IN  IF rest = <<>> \/ ~BelongsUnder(rest[1], sym, base)
        THEN [g |-> g, list |-> taken, rest |-> rest]
        ELSE After(menu_finalize(g, rest[1], Tail(rest), ms, optional))

(***************************************************************************)
(* The finished table of a Kconfig file: the tree and, for each symbol,    *)
(* its properties in the order of the file, its dependencies and its       *)
(* choice.  entries is what the file says; modules is "n" without one;     *)
(* order is the order of the symbols in the hash table.                    *)
(***************************************************************************)
RECURSIVE Preorder(_)
Preorder(list) == IF list = <<>> THEN <<>>
                  ELSE <<list[1]>> \o Preorder(list[1].list \o Tail(list))

\* What menu_finalize() made of the entries, as such a table.
Tabled(done, nodes, order, modules, optional) ==
    LET all == {nodes[i] : i \in DOMAIN nodes} \cup {done.m}
        ids == <<"root">> \o Mapped(LAMBDA m : m.id, nodes)
        Node(id) == CHOOSE m \in all : m.id = id
        Parent(id) == IF id = "root" THEN "root"
                      ELSE (CHOOSE p \in all : \E i \in DOMAIN p.list : p.list[i].id = id).id
        Of(s) == SelectSeq(nodes, LAMBDA m : m.sym = s)
        Props(s) == FoldLeft(LAMBDA acc, m : acc \o m.props, <<>>, Of(s))
        Prompts(s) == Mapped(LAMBDA m : [id |-> m.id, vis |-> PromptOf(m).vis],
                             SelectSeq(Of(s), HasPrompt))
    IN  [nodes |-> nodes, syms |-> ToSet(order), modules |-> modules,
         optional |-> optional, order |-> order, ids |-> ids,
         node |-> Table(Node, ids), parent |-> Table(Parent, ids),
         props |-> Table(Props, order), prompts |-> Table(Prompts, order),
         rev |-> done.g.rev, imp |-> done.g.imp, dir |-> done.g.dir,
         choice |-> done.g.choice, values |-> done.g.values]

conf_parse(order, entries, modules, optional) ==
    LET root == menu_add_prop(menu("root", NoExpr, NoExpr, entries), <<>>)
        Finished(done) == Tabled(done, Preorder(done.m.list), order, modules, optional)
    IN  Finished(menu_finalize(Untied(order), root, <<>>, modules, optional))
=============================================================================
