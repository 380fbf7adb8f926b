------------------------------ MODULE KOperand ------------------------------
(***************************************************************************)
(* The operands of dependency expressions (buildroot/support/kconfig/      *)
(* expr.c): symbols and comparisons, what they are worth, and the rules by *)
(* which expr.c replaces two of them, or one and its negation, by a        *)
(* simpler one.  Nothing here looks into a tree (see KExpr).               *)
(*                                                                         *)
(* A symbol is its name.  A value is a tristate 0 (n), 1 (m), 2 (y).  A    *)
(* string is a model string: Rank orders the strings as strcmp() does and  *)
(* Number[b] maps the strings strtoll() reads completely in base b.        *)
(***************************************************************************)
EXTENDS Integers, Sequences

CONSTANTS
    SymType,    \* the type of every symbol: a function of the names
    Rank,       \* a function of the strings: their place in strcmp()'s order
    Number,     \* Number[10], Number[16], Number[0]: functions of the numbers
    WordSize    \* 2^64 scaled down: what a negative number gains when unsigned

\* Different strings have different places; y, m and n are no numbers.
ASSUME KOperandAssumption ==
    /\ Rank \in [DOMAIN Rank -> Int] /\ \A s, t \in DOMAIN Rank : Rank[s] = Rank[t] => s = t
    /\ \A b \in {0, 10, 16} : /\ Number[b] \in [DOMAIN Number[b] -> Int]
                             /\ {"y", "m", "n"} \cap DOMAIN Number[b] = {}
    /\ {"y", "m", "n"} \subseteq DOMAIN SymType \cap DOMAIN Rank
    /\ \A c \in {"y", "m", "n"} : SymType[c] = "UNKNOWN"
    /\ WordSize \in Nat

Compares == {"EQUAL", "UNEQUAL", "LTH", "LEQ", "GTH", "GEQ"}

NoExpr == [type |-> "NONE"]

SymbolExpr(s) == [type |-> "SYMBOL", sym |-> s]
Not(e) == [type |-> "NOT", left |-> e]
Two(t, e1, e2) == [type |-> t, left |-> e1, right |-> e2]
Comp(t, s1, s2) == [type |-> t, sym |-> s1, sym2 |-> s2]

\* A missing operand is neutral (it stands for y in a conjunction).
Join(t, e1, e2) == IF e1 = NoExpr THEN e2
                   ELSE IF e2 = NoExpr THEN e1 ELSE Two(t, e1, e2)
AndOf(e1, e2) == Join("AND", e1, e2)
OrOf(e1, e2) == Join("OR", e1, e2)

IsConst(e, s) == e.type = "SYMBOL" /\ e.sym = s
IsTwo(e) == e.type \in {"AND", "OR"}
IsConstSym(s) == SymType[s] = "UNKNOWN"

(***************************************************************************)
(* Evaluation.  val[s] is [tri |-> the tristate, str |-> the string value] *)
(* of a symbol that was calculated.                                        *)
(***************************************************************************)
TriMin(a, b) == IF a < b THEN a ELSE b
TriMax(a, b) == IF a > b THEN a ELSE b
TriNot(a) == 2 - a

Base(t) == CASE t = "INT" -> 10 [] t = "HEX" -> 16 [] OTHER -> 0

\* What one side of a comparison is read as: [kind, n].
expr_parse_string(str, type) ==
    CASE type \in {"BOOLEAN", "TRISTATE"} ->
           [kind |-> "signed", n |-> CASE str = "n" -> 0 [] str = "m" -> 1
                                       [] str = "y" -> 2 [] OTHER -> -1]
      [] type = "OTHER" -> [kind |-> "invalid", n |-> 0]
      [] OTHER ->
           LET Parsed(numbers) ==
                 IF str \in DOMAIN numbers
                 THEN [kind |-> IF type = "HEX" THEN "unsigned" ELSE "signed", n |-> numbers[str]]
                 ELSE [kind |-> "string", n |-> 0]
           IN  Parsed(Number[Base(type)])

Unsigned(n) == IF n < 0 THEN n + WordSize ELSE n

Holds(type, res) == type \in CASE res = 0 -> {"EQUAL", "LEQ", "GEQ"}
                                [] res < 0 -> {"UNEQUAL", "LTH", "LEQ"}
                                [] res > 0 -> {"UNEQUAL", "GTH", "GEQ"}

\* A comparison of two sides as they are read, left and right; order is what
\* strcmp() says.  What has no number at all is only compared for equality.
Compared(type, side, order) ==
    LET kinds == {side[i].kind : i \in {1, 2}}
        n(i) == IF "unsigned" \in kinds THEN Unsigned(side[i].n) ELSE side[i].n
    IN  /\ "invalid" \in kinds /\ "string" \notin kinds => type \in {"EQUAL", "UNEQUAL"}
        /\ Holds(type, IF kinds \cap {"string", "invalid"} # {} THEN order ELSE n(1) - n(2))

Compare(e, str1, str2) ==
    LET type == <<SymType[e.sym], SymType[e.sym2]>>
        text == type = <<"STRING", "STRING">>
    IN  Compared(e.type,
                 [i \in {1, 2} |-> IF text THEN [kind |-> "string", n |-> 0]
                                   ELSE expr_parse_string(<<str1, str2>>[i], type[i])],
                 Rank[str1] - Rank[str2])

\* What an expression without operands of its own is worth.
LeafValue(e, val) ==
    CASE e.type = "NONE" -> 2
      [] e.type = "SYMBOL" -> val[e.sym].tri
      [] OTHER -> IF Compare(e, val[e.sym].str, val[e.sym2].str) THEN 2 ELSE 0

\* The values a calculation gives: a tristate symbol has its value as text
\* too, a bool is never m, and a constant, or a symbol that no file declares,
\* is worth its own name (sym_calc_value, symbol.c).
IsCalculation(val) ==
    /\ val \in [DOMAIN SymType -> [tri : 0..2, str : DOMAIN Rank]]
    /\ \A s \in DOMAIN SymType :
         /\ SymType[s] \in {"BOOLEAN", "TRISTATE"} =>
              /\ val[s].str = <<"n", "m", "y">>[val[s].tri + 1]
              /\ SymType[s] = "BOOLEAN" => val[s].tri # 1
         /\ SymType[s] = "UNKNOWN" => val[s].str = s
    /\ val["n"].tri = 0 /\ val["m"].tri = 1 /\ val["y"].tri = 2

(***************************************************************************)
(* Constants absorbed: e && n is n, e && y is e, e || n is e, e || y is y. *)
(***************************************************************************)
Absorbed(type, l, r) ==
    LET zero == IF type = "AND" THEN "n" ELSE "y"
        unit == IF type = "AND" THEN "y" ELSE "n"
    IN  CASE IsConst(l, zero) -> SymbolExpr(zero)
          [] IsConst(l, unit) -> r
          [] IsConst(r, zero) -> SymbolExpr(zero)
          [] IsConst(r, unit) -> l
          [] OTHER -> Two(type, l, r)

(***************************************************************************)
(* One operand for two: NoExpr when they cannot be joined.                 *)
(***************************************************************************)
\* The symbol an operand that may be joined is about.
Joinable(e) == e.type \in {"EQUAL", "UNEQUAL", "SYMBOL", "NOT"}
Subject(e) == IF e.type = "NOT" THEN e.left.sym ELSE e.sym
SameSubject(e1, e2) ==
    /\ Joinable(e1) /\ Joinable(e2)
    /\ e1.type = "NOT" => e1.left.type \in {"EQUAL", "UNEQUAL", "SYMBOL"}
    /\ e2.type = "NOT" => e2.left.type = "SYMBOL"
    /\ Subject(e1) = Subject(e2)
    /\ SymType[Subject(e1)] \in {"BOOLEAN", "TRISTATE"}

\* Both of the type t, against the two constants of the set s.
Against(e1, e2, t, s) == e1.type = t /\ e2.type = t /\ {e1.sym2, e2.sym2} = s
\* One of them is the symbol, the other compares it: t with c.
Beside(e1, e2, t, c) ==
    \E p \in {<<e1, e2>>, <<e2, e1>>} :
        p[1].type = "SYMBOL" /\ p[2].type = t /\ p[2].sym2 = c
IsNegation(e1, e2) ==
    \E p \in {<<e1, e2>>, <<e2, e1>>} :
        p[1].type = "NOT" /\ p[1].left.type = "SYMBOL" /\ p[2].type = "SYMBOL"

\* Two different operands about the symbol a.
expr_join_or(e1, e2, a) ==
    IF SymType[a] # "TRISTATE" THEN IF IsNegation(e1, e2) THEN SymbolExpr("y") ELSE NoExpr
    ELSE CASE Against(e1, e2, "EQUAL", {"y", "m"}) -> Comp("UNEQUAL", a, "n")
           [] Against(e1, e2, "EQUAL", {"y", "n"}) -> Comp("UNEQUAL", a, "m")
           [] Against(e1, e2, "EQUAL", {"m", "n"}) -> Comp("UNEQUAL", a, "y")
           [] OTHER -> NoExpr

\* (a = b) && (a != c) for constants b, c; p is the pair in that order.
EqualAndNot(p) == /\ p[1].type = "EQUAL" /\ p[2].type = "UNEQUAL"
                  /\ IsConstSym(p[1].sym2) /\ IsConstSym(p[2].sym2)

expr_join_and(e1, e2, a) ==
    LET tri == SymType[a] = "TRISTATE"
        mixed == {p \in {<<e1, e2>>, <<e2, e1>>} : EqualAndNot(p)}
        OfMixed(p) == IF p[1].sym2 # p[2].sym2 THEN p[1] ELSE SymbolExpr("n")
    IN  CASE Beside(e1, e2, "EQUAL", "y") -> Comp("EQUAL", a, "y")
          [] Beside(e1, e2, "UNEQUAL", "n") -> SymbolExpr(a)
          [] Beside(e1, e2, "UNEQUAL", "m") -> Comp("EQUAL", a, "y")
          [] tri /\ mixed # {} -> OfMixed(CHOOSE p \in mixed : TRUE)
          [] tri /\ Against(e1, e2, "UNEQUAL", {"y", "n"}) -> Comp("EQUAL", a, "m")
          [] tri /\ Against(e1, e2, "UNEQUAL", {"y", "m"}) -> Comp("EQUAL", a, "n")
          [] tri /\ Against(e1, e2, "UNEQUAL", {"m", "n"}) -> Comp("EQUAL", a, "y")
          [] OTHER -> NoExpr

\* Two different operands about one symbol.
Joined(type, e1, e2) ==
    IF ~SameSubject(e1, e2) THEN NoExpr
    ELSE IF type = "OR" THEN expr_join_or(e1, e2, Subject(e1)) ELSE expr_join_and(e1, e2, Subject(e1))

(***************************************************************************)
(* Negations of comparisons and of constants, and comparisons of booleans, *)
(* removed.                                                                *)
(***************************************************************************)
Negated(t) == CASE t = "EQUAL" -> "UNEQUAL" [] t = "UNEQUAL" -> "EQUAL"
                [] t = "LEQ" -> "GTH" [] t = "GEQ" -> "LTH"
                [] t = "LTH" -> "GEQ" [] t = "GTH" -> "LEQ"
\* Mutant: !m is taken for y, as !n is.
NegatedConst_TwoValued(c) == IF c = "y" THEN "n" ELSE "y"
NegatedConst(c) == CASE c = "y" -> "n" [] c = "m" -> "m" [] c = "n" -> "y"

TransformCompare(e) ==
    IF ~(e.type \in {"EQUAL", "UNEQUAL"} /\ SymType[e.sym] = "BOOLEAN"
         /\ e.sym2 \in {"y", "m", "n"})
    THEN e
    ELSE LET is == e.type = "EQUAL"
         IN  CASE e.sym2 = "m" -> SymbolExpr(IF is THEN "n" ELSE "y")
               [] e.sym2 = (IF is THEN "n" ELSE "y") -> Not(SymbolExpr(e.sym))
               [] OTHER -> SymbolExpr(e.sym)
=============================================================================
