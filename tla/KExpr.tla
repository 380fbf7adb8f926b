------------------------------- MODULE KExpr -------------------------------
(***************************************************************************)
(* The dependency expressions of the build's configuration system          *)
(* (buildroot/support/kconfig/expr.c): how they are built, evaluated,      *)
(* compared, simplified and printed.  Everything here is a pure operator;  *)
(* the pointers of the C code become values.  A recursive procedure of the *)
(* C code is a recursive function of the expressions it is called with.    *)
(*                                                                         *)
(* What is not recursive is in KOperand.                                   *)
(***************************************************************************)
EXTENDS KOperand

CONSTANT MaxOperands    \* a bound on the operands of an expression: expr.c has none

ASSUME KExprAssumption == MaxOperands \in Nat \ {0}

(***************************************************************************)
(* The expressions: an operand is a symbol, the negation of one or a       *)
(* comparison.  A tristate is not compared with a number for equality.     *)
(***************************************************************************)
KnownSyms == {s \in DOMAIN SymType : SymType[s] # "OTHER"}
TriSyms == {s \in KnownSyms : SymType[s] \in {"BOOLEAN", "TRISTATE"}}
NumberSyms == {s \in KnownSyms : SymType[s] = "UNKNOWN" /\ s \in DOMAIN Number[0]}

Symbols == [type : {"SYMBOL"}, sym : KnownSyms]
Comparings == [type : {"EQUAL", "UNEQUAL"}, sym : TriSyms, sym2 : KnownSyms \ NumberSyms]
                \cup [type : Compares \ {"EQUAL", "UNEQUAL"}, sym : TriSyms, sym2 : KnownSyms]
                \cup [type : Compares, sym : KnownSyms \ TriSyms, sym2 : KnownSyms]

\* Those that nest at most n deep.
Nested[n \in Nat] ==
    LET Part == Nested[n - 1]
    IN  Symbols \cup Comparings \cup [type : {"NOT"}, left : Symbols]
          \cup IF n = 0 THEN {}
               ELSE [type : {"NOT"}, left : Part] \cup [type : {"AND", "OR"}, left : Part, right : Part]

Expr == {NoExpr} \cup Nested[MaxOperands + 1]

expr_calc_value(e, val) ==
    LET value[x \in Expr] ==
          CASE x.type = "AND" -> TriMin(value[x.left], value[x.right])
            [] x.type = "OR" -> TriMax(value[x.left], value[x.right])
            [] x.type = "NOT" -> TriNot(value[x.left])
            [] OTHER -> LeafValue(x, val)
    IN  value[e]

(***************************************************************************)
(* Constants absorbed, from the leaves up.                                 *)
(***************************************************************************)
expr_eliminate_yn(e) ==
    LET eliminated[x \in Expr] ==
          IF IsTwo(x) THEN Absorbed(x.type, eliminated[x.left], eliminated[x.right]) ELSE x
    IN  eliminated[e]

(***************************************************************************)
(* The normal forms: what expr_transform() makes has negations at symbols  *)
(* only.  Size counts the operands of all levels.                          *)
(***************************************************************************)
Size(e) ==
    LET size[x \in Expr] == IF IsTwo(x) THEN size[x.left] + size[x.right]
                            ELSE IF x.type = "NOT" THEN size[x.left] ELSE 1
    IN  size[e]
IsNormal(e) ==
    LET normal[x \in Expr] == CASE IsTwo(x) -> normal[x.left] /\ normal[x.right]
                                [] x.type = "NOT" -> x.left.type = "SYMBOL"
                                [] OTHER -> TRUE
    IN  normal[e]
NormalForms(n) == {e \in Expr \ {NoExpr} : IsNormal(e) /\ Size(e) <= n}

(***************************************************************************)
(* Equality of expressions and the operands two expressions share: the     *)
(* procedures call each other, so there is one function of all their       *)
(* calls.  "EQ" asks whether the two are equal; "AND" and "OR" eliminate   *)
(* the operands they share and give the pair of what is left of them.      *)
(***************************************************************************)
Calls == [type : {"EQ", "AND", "OR"}, e1 : NormalForms(MaxOperands), e2 : NormalForms(MaxOperands)]
Call(type, e1, e2) == [type |-> type, e1 |-> e1, e2 |-> e2]

Unit(type) == SymbolExpr(IF type = "OR" THEN "n" ELSE "y")

EliminateEq1(result, type, e1, e2) ==
    CASE e1.type = type ->
           LET p == result[Call(type, e1.left, e2)]
               q == result[Call(type, e1.right, p[2])]
           IN  <<Two(type, p[1], q[1]), q[2]>>
      [] e1.type # type /\ e2.type = type ->
           LET p == result[Call(type, e1, e2.left)]
               q == result[Call(type, p[1], e2.right)]
           IN  <<q[1], Two(type, p[2], q[2])>>
      [] OTHER ->
           IF \/ e1 = e2 /\ e1.type = "SYMBOL" /\ e1.sym \in {"y", "n"}
              \/ ~result[Call("EQ", e1, e2)]
           THEN <<e1, e2>>
           ELSE <<Unit(type), Unit(type)>>

\* By the operator of the first expression, then by that of the second.
EliminateEq(result, e1, e2) ==
    LET ByFirst(p) == IF IsTwo(p[1]) THEN result[Call(p[1].type, p[1], p[2])] ELSE p
        BySecond(p) == IF p[1].type # p[2].type /\ IsTwo(p[2])
                       THEN result[Call(p[2].type, p[1], p[2])] ELSE p
        Yn(p) == <<expr_eliminate_yn(p[1]), expr_eliminate_yn(p[2])>>
    IN  IF NoExpr \in {e1, e2} THEN <<e1, e2>> ELSE Yn(BySecond(ByFirst(<<e1, e2>>)))

SameSymbol(p) == p[1].type = "SYMBOL" /\ p[2].type = "SYMBOL" /\ p[1].sym = p[2].sym
Eq(result, e1, e2) ==
    /\ e1.type = e2.type
    /\ CASE e1.type \in Compares -> e1.sym = e2.sym /\ e1.sym2 = e2.sym2
         [] e1.type = "SYMBOL" -> e1.sym = e2.sym
         [] e1.type = "NOT" -> result[Call("EQ", e1.left, e2.left)]
         [] OTHER -> SameSymbol(EliminateEq(result, e1, e2))

Result[c \in Calls] == IF c.type = "EQ" THEN Eq(Result, c.e1, c.e2)
                       ELSE EliminateEq1(Result, c.type, c.e1, c.e2)

expr_eliminate_eq(e1, e2) == EliminateEq(Result, e1, e2)
expr_eq(e1, e2) == Result[Call("EQ", e1, e2)]

expr_join(type, e1, e2) ==
    IF expr_eq(e1, e2) THEN e1 ELSE Joined(type, e1, e2)

(***************************************************************************)
(* The operands at one level: those of an operator and of the same         *)
(* operator below it, whatever the brackets, from left to right.           *)
(***************************************************************************)
Level(type, e) ==
    LET level[x \in Expr] == IF x.type = type THEN level[x.left] \o level[x.right] ELSE <<x>>
    IN  level[e]

\* The tree e with f in place of the operand n.
WithOperand(type, e, n, f) ==
    LET put[x \in Expr] ==
          [i \in Nat |->
             LET k == Len(Level(type, x.left))
             IN  IF x.type # type THEN f
                 ELSE IF i <= k THEN Two(type, put[x.left][i], x.right)
                      ELSE Two(type, x.left, put[x.right][i - k])]
    IN  put[e][n]

(***************************************************************************)
(* Duplicates removed.  Only normal forms come here: expr_transform() has  *)
(* left negations at symbols alone.                                        *)
(***************************************************************************)
\* A pass over the operands of tree: i is the one that is compared with
\* those of the other numbers, j the next of these.
Compounds(n) == {e \in NormalForms(n) : IsTwo(e)}
Passes(n) == [tree : Compounds(n), i : 1..n + 1, j : 1..n + 1, changed : BOOLEAN]
FirstVisit(e) == [tree |-> e, i |-> 1, j |-> 1, changed |-> FALSE]

\* The visit of the operand e1 itself, when pass gives those of its operands.
InnerVisit(pass, e1) == IF IsTwo(e1) THEN pass[FirstVisit(e1)] ELSE FirstVisit(e1)

\* s when the operand i, which is inner now, has met e2, the operand j; joined
\* is what expr_join() makes of the two.
Joining(s, inner, e2, joined) ==
    LET type == s.tree.type
        f1 == IF joined = NoExpr THEN inner.tree ELSE Unit(type)
        f2 == IF joined = NoExpr THEN e2 ELSE joined
    IN  [s EXCEPT !.tree = WithOperand(type, WithOperand(type, @, s.i, f1), s.j, f2),
                  !.j = @ + 1,
                  !.changed = @ \/ joined # NoExpr \/ inner.changed]
Met(s, inner, e2) == Joining(s, inner, e2, expr_join(s.tree.type, inner.tree, e2))

NextVisit(pass, s, level) ==
    IF s.j > Len(level) THEN [s EXCEPT !.i = @ + 1, !.j = 1]
    ELSE IF s.i = s.j THEN [s EXCEPT !.j = @ + 1]
    ELSE Met(s, InnerVisit(pass, level[s.i]), level[s.j])
LastVisit(pass, s, level) == IF s.i > Len(level) THEN s ELSE pass[NextVisit(pass, s, level)]

Pass[s \in Passes(MaxOperands)] == LastVisit(Pass, s, Level(s.tree.type, s.tree))
expr_eliminate_dups1(e) == Pass[FirstVisit(e)]

\* Passes, until one changes nothing.
AfterPass(eliminated, pass) ==
    IF pass.changed THEN eliminated[expr_eliminate_yn(pass.tree)] ELSE pass.tree
Eliminated[e \in NormalForms(MaxOperands)] ==
    IF IsTwo(e) THEN AfterPass(Eliminated, expr_eliminate_dups1(e)) ELSE e
expr_eliminate_dups(e) == IF e = NoExpr THEN e ELSE Eliminated[e]

(***************************************************************************)
(* Negations pushed to the leaves, comparisons of booleans removed.        *)
(***************************************************************************)
\* What a negation becomes when what it negates has become f.
TransformNot(transform, f) ==
    CASE f.type = "NOT" -> transform[f.left]
      [] f.type \in Compares -> Comp(Negated(f.type), f.sym, f.sym2)
      [] f.type = "OR" -> transform[Two("AND", Not(f.left), Not(f.right))]
      [] f.type = "AND" -> transform[Two("OR", Not(f.left), Not(f.right))]
      [] f.type = "SYMBOL" /\ f.sym \in {"y", "m", "n"} -> SymbolExpr(NegatedConst(f.sym))
      [] OTHER -> Not(f)

expr_transform(e) ==
    LET transform[x \in Expr] ==
          CASE IsTwo(x) -> Two(x.type, transform[x.left], transform[x.right])
            [] x.type = "NOT" -> TransformNot(transform, transform[x.left])
            [] x.type \in Compares -> TransformCompare(x)
            [] OTHER -> x
    IN  transform[e]

expr_trans_bool(e) ==
    LET bool[x \in Expr] ==
          CASE IsTwo(x) -> Two(x.type, bool[x.left], bool[x.right])
            [] x.type = "NOT" -> Not(bool[x.left])
            [] x.type = "UNEQUAL" /\ SymType[x.sym] = "TRISTATE" /\ x.sym2 = "n" -> SymbolExpr(x.sym)
            [] OTHER -> x
    IN  bool[e]

(***************************************************************************)
(* The condition "e has (type = EQUAL) or has not the value c", made of    *)
(* explicit comparisons.                                                   *)
(***************************************************************************)
\* The condition for x, when compare has those for its parts.
TransCompare(compare, x, type, c) ==
    LET dual == [AND |-> "OR", OR |-> "AND"]
        Flip(f) == IF type = "UNEQUAL" THEN Not(f) ELSE f
        Both(t) == Two(t, compare[x.left]["EQUAL"], compare[x.right]["EQUAL"])
    IN  CASE x.type = "NONE" -> Flip(SymbolExpr(c))
          [] IsTwo(x) -> Flip(CASE c = "y" -> Both(x.type) [] c = "n" -> Both(dual[x.type]) [] OTHER -> x)
          [] x.type = "NOT" -> compare[x.left][IF type = "EQUAL" THEN "UNEQUAL" ELSE "EQUAL"]
          [] x.type \in Compares ->
               (CASE c = "y" -> Flip(x)
                  [] c = "m" -> SymbolExpr(IF type = "EQUAL" THEN "n" ELSE "y")
                  [] c = "n" -> IF type = "EQUAL" THEN Not(x) ELSE x)
          [] OTHER -> Comp(type, x.sym, c)

expr_trans_compare(e, type, c) ==
    LET compare[x \in Expr] == [t \in {"EQUAL", "UNEQUAL"} |-> TransCompare(compare, x, t, c)]
    IN  compare[e][type]

\* m becomes m && MODULES, so that it is n without modules.
rewrite_m(e, modules_sym) ==
    LET rewritten[x \in Expr] ==
          CASE IsTwo(x) -> Two(x.type, rewritten[x.left], rewritten[x.right])
            [] x.type = "NOT" -> Not(rewritten[x.left])
            [] IsConst(x, "m") -> AndOf(x, SymbolExpr(modules_sym))
            [] OTHER -> x
    IN  rewritten[e]

expr_contains_symbol(e, s) ==
    LET contains[x \in Expr] ==
          CASE IsTwo(x) -> contains[x.left] \/ contains[x.right]
            [] x.type = "NOT" -> contains[x.left]
            [] x.type = "SYMBOL" -> x.sym = s
            [] x.type \in Compares -> s \in {x.sym, x.sym2}
            [] OTHER -> FALSE
    IN  contains[e]

expr_depends_symbol(e, s) ==
    LET depends[x \in Expr] ==
          CASE x.type = "AND" -> depends[x.left] \/ depends[x.right]
            [] x.type = "SYMBOL" -> x.sym = s
            [] x.type = "EQUAL" -> x.sym = s /\ x.sym2 \in {"y", "m"}
            [] x.type = "UNEQUAL" -> x.sym = s /\ x.sym2 = "n"
            [] OTHER -> FALSE
    IN  depends[e]

expr_is_yes(e) == e = NoExpr \/ IsConst(e, "y")

\* The test for automatic submenus: do dep's operands cover base's?
Comparisons(e) == expr_eliminate_dups(expr_transform(expr_trans_compare(e, "UNEQUAL", "n")))
\* Mutant: what is left of dep is looked at, not what is left of base.
Superset_Swapped(dep, base) == expr_is_yes(expr_eliminate_eq(Comparisons(dep), Comparisons(base))[1])
Superset(dep, base) == expr_is_yes(expr_eliminate_eq(Comparisons(dep), Comparisons(base))[2])

(***************************************************************************)
(* Printing: the tokens, with brackets where the outer operator binds      *)
(* tighter than the inner one.                                             *)
(***************************************************************************)
Looseness(t) == CASE t \in {"LEQ", "LTH", "GEQ", "GTH"} -> 1
                  [] t \in {"EQUAL", "UNEQUAL"} -> 2
                  [] t = "NOT" -> 3 [] t = "AND" -> 4 [] t = "OR" -> 5
                  [] t = "LIST" -> 6 [] t = "NONE" -> 7

\* Mutant: no case falls into the next.
expr_compare_type_Breaks(t1, t2) ==
    CASE t1 = t2 -> 0
      [] t1 # t2 /\ "SYMBOL" \notin {t1, t2} /\ Looseness(t2) = Looseness(t1) + 1 -> 1
      [] OTHER -> -1
\* Each case of the switch falls into the next, so t1 is compared with every
\* looser type; a symbol is in no case and needs no brackets.
expr_compare_type(t1, t2) ==
    CASE t1 = t2 -> 0
      [] t1 # t2 /\ "SYMBOL" \notin {t1, t2} /\ Looseness(t1) < Looseness(t2) -> 1
      [] OTHER -> -1

expr_print(e, prevtoken) ==
    LET Op(t) == CASE t = "EQUAL" -> "=" [] t = "UNEQUAL" -> "!=" [] t = "LTH" -> "<"
                   [] t = "LEQ" -> "<=" [] t = "GTH" -> ">" [] t = "GEQ" -> ">="
                   [] t = "OR" -> "||" [] t = "AND" -> "&&"
        print[x \in Expr, prev \in {"NOT", "AND", "OR", "NONE"}] ==
          LET tokens == CASE x.type = "SYMBOL" -> <<x.sym>>
                          [] x.type = "NOT" -> <<"!">> \o print[x.left, "NOT"]
                          [] x.type \in Compares -> <<x.sym, Op(x.type), x.sym2>>
                          [] IsTwo(x) -> print[x.left, x.type] \o <<Op(x.type)>> \o print[x.right, x.type]
          IN  IF x.type = "NONE" THEN <<"y">>
              ELSE IF expr_compare_type(prev, x.type) > 0
                   THEN <<"(">> \o tokens \o <<")">> ELSE tokens
    IN  print[e, prevtoken]

\* The reasons of a reverse dependency that have the value v, one a line.
expr_print_revdep(e, val, v) ==
    LET lines[x \in Expr] ==
          CASE x.type = "OR" -> lines[x.left] \o lines[x.right]
            [] x.type # "OR" /\ expr_calc_value(x, val) = v -> <<expr_print(x, "NONE")>>
            [] OTHER -> <<>>
    IN  lines[e]
=============================================================================
