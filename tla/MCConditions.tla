--------------------------- MODULE MCConditions ----------------------------
(***************************************************************************)
(* Conditions over a tristate T, a boolean B, a number N and MODULES: all  *)
(* those with at most three operands of a small set of comparisons.        *)
(***************************************************************************)
EXTENDS Conditions

MCSymType == [s \in {"T", "B", "N", "MODULES", "y", "m", "n", "5"} |->
                CASE s = "T" -> "TRISTATE" [] s \in {"B", "MODULES"} -> "BOOLEAN"
                  [] s = "N" -> "INT" [] OTHER -> "UNKNOWN"]
MCRank == [s \in {"y", "m", "n", "5", "10"} |->
             CASE s = "10" -> 1 [] s = "5" -> 2 [] s = "m" -> 3 [] s = "n" -> 4 [] s = "y" -> 5]
MCNumber == LET f == [s \in {"5", "10"} |-> IF s = "5" THEN 5 ELSE 10]
            IN  [b \in {0, 10, 16} |-> IF b = 16 THEN [f EXCEPT !["10"] = 16] ELSE f]

Tri(v) == [tri |-> v, str |-> CASE v = 0 -> "n" [] v = 1 -> "m" [] v = 2 -> "y"]
Str(s) == [tri |-> 0, str |-> s]
MCAssignments ==
    {[s \in DOMAIN MCSymType |->
        CASE s = "T" -> Tri(t) [] s = "B" -> Tri(b) [] s = "MODULES" -> Tri(2)
          [] s = "N" -> Str(n) [] s = "5" -> Str("5")
          [] s = "y" -> Tri(2) [] s = "m" -> Tri(1) [] s = "n" -> Tri(0)]
       : t \in 0..2, b \in {0, 2}, n \in {"5", "10"}}
    \cup
    {[s \in DOMAIN MCSymType |->
        CASE s = "T" -> Tri(t) [] s = "B" -> Tri(b) [] s = "MODULES" -> Tri(0)
          [] s = "N" -> Str(n) [] s = "5" -> Str("5")
          [] s = "y" -> Tri(2) [] s = "m" -> Tri(1) [] s = "n" -> Tri(0)]
       : t \in {0, 2}, b \in {0, 2}, n \in {"5", "10"}}

Leaves == {SymbolExpr(s) : s \in {"T", "B", "m"}}
            \cup {Comp(t, "T", c) : t \in {"EQUAL", "UNEQUAL"}, c \in {"y", "m", "n"}}
            \cup {Comp("UNEQUAL", "B", "n"), Comp("EQUAL", "B", "m"), Comp("GTH", "N", "5")}
Operands1 == Leaves \cup {Not(e) : e \in Leaves}
Pairs == {Two(t, e, f) : t \in {"AND", "OR"}, e \in Operands1, f \in Leaves}
Some == {SymbolExpr("T"), Comp("UNEQUAL", "T", "m")}
MCWritten == Operands1 \cup Pairs \cup {Not(p) : p \in Pairs}
              \cup {Two(t, p, f) : t \in {"AND", "OR"}, p \in Pairs, f \in Some}
MCParents == {NoExpr, SymbolExpr("B"),
              Two("AND", SymbolExpr("B"), SymbolExpr("T")),
              Two("OR", SymbolExpr("T"), Comp("GTH", "N", "5")),
              Comp("EQUAL", "T", "n")}
=============================================================================
