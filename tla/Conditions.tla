---------------------------- MODULE Conditions -----------------------------
(***************************************************************************)
(* A condition ("depends on", "if") on its way from the Kconfig file to    *)
(* the menu entry: menu_finalize() rewrites m, simplifies, adds what the   *)
(* entry's parent depends on and removes duplicates.  Each step is one     *)
(* assignment of that loop.  The last one, for entries that are not        *)
(* tristates, may only be asked whether the condition is n.                *)
(***************************************************************************)
EXTENDS KExpr

CONSTANTS Written,      \* the conditions that may be written
          Parents,      \* what the parent may depend on, NoExpr if on nothing
          ModulesSym,   \* the symbol of "option modules"
          Assignments   \* the values the symbols may have together

\* What a parent depends on has been simplified before, and the bound is large
\* enough: m becomes two operands, and the test of Superset needs no more.
ASSUME ConditionsAssumption ==
    /\ ModulesSym \in KnownSyms
    /\ \A c \in Written : c \in Expr \ {NoExpr} /\ rewrite_m(c, ModulesSym) \in Expr
    /\ \A p \in Parents : p \in Expr /\ IsNormal(p)
    /\ \A c \in Written, p \in Parents : Size(p) + Size(rewrite_m(c, ModulesSym)) <= MaxOperands
    /\ \A val \in Assignments : IsCalculation(val)

VARIABLES cond,     \* the condition as written
          parent,   \* the parent's condition
          dep,      \* the condition as it is now
          rewriting \* the next rewriting

condVars == <<cond, parent, dep, rewriting>>

CondInit == /\ cond \in Written
            /\ parent \in Parents
            /\ dep = cond
            /\ rewriting = "rewrite_m"

Rewrite(from, to, e) ==
    rewriting = from /\ rewriting' = to /\ dep' = e /\ UNCHANGED <<cond, parent>>

RewriteM == Rewrite("rewrite_m", "transform", rewrite_m(dep, ModulesSym))
Transform == Rewrite("transform", "and", expr_transform(dep))
AddParent == Rewrite("and", "dups", AndOf(parent, dep))
EliminateDups == Rewrite("dups", "trans_bool", expr_eliminate_dups(dep))
\* Done for the entries whose symbol is not a tristate.
TransBool == Rewrite("trans_bool", "done", expr_trans_bool(dep))

CondNext == RewriteM \/ Transform \/ AddParent \/ EliminateDups \/ TransBool

CondSpec == CondInit /\ [][CondNext]_condVars

(***************************************************************************)
(* What a condition means: its value when every m in it counts only with   *)
(* modules.  The rewritten condition is evaluated as it stands, and so is  *)
(* the parent's, which was rewritten before.                               *)
(***************************************************************************)
Meaning(e, a) ==
    expr_calc_value(e, [a EXCEPT !["m"].tri = TriMin(@, a[ModulesSym].tri)])

Whole(a) == IF rewriting \in {"dups", "trans_bool", "done"}
            THEN TriMin(expr_calc_value(parent, a), Meaning(cond, a)) ELSE Meaning(cond, a)

\* Rewriting keeps the meaning: whatever values the symbols have, the
\* condition has at every step the value it was written with, and after the
\* last step, where only "is it n" matters, it is n for the same values
\* (menu_finalize, menu.c:343-398, over all of expr.c's simplifications).
MeaningIsKept ==
    rewriting # "rewrite_m" =>
      \A a \in Assignments :
        IF rewriting = "done" THEN expr_calc_value(dep, a) = 0 <=> Whole(a) = 0
        ELSE expr_calc_value(dep, a) = Whole(a)

\* Whether the comparisons that the test is made with tell that e is not n:
\* its symbols are tristates or y, m and n, and nothing negated in it is m.
\* Then a negation is m too, but its comparison asks what it negates to be n.
IsTold(e, a) ==
    LET told[x \in Expr] ==
          CASE IsTwo(x) -> told[x.left] /\ told[x.right]
            [] x.type = "NOT" -> told[x.left] /\ expr_calc_value(x.left, a) # 1
            [] x.type = "SYMBOL" -> x.sym \in TriSyms \cup {"y", "m", "n"}
            [] OTHER -> TRUE
    IN  told[e]

Simplified == rewriting \notin {"rewrite_m", "transform"}

\* An entry is put under another only when it cannot be visible without it:
\* where the test says that dep, once it is simplified, covers the parent's
\* condition, no values make dep visible and the parent not, as long as the
\* comparisons tell (menu.c:449-480, over expr_eliminate_eq of expr.c).  Where
\* they do not, !T is taken to cover T=n, although it is m when T is.
CoveredNeedsIt ==
    Simplified /\ Superset(dep, parent) =>
      \A a \in Assignments :
        IsTold(dep, a) /\ IsTold(parent, a) /\ expr_calc_value(dep, a) # 0
          => expr_calc_value(parent, a) # 0

(***************************************************************************)
(* How a printed condition is read: the grammar of zconf.y, where && binds *)
(* tighter than || and ! binds tighter than both.  Reading a sequence of   *)
(* tokens gives [e, rest]; acc is what stands left of the operands to come.*)
(***************************************************************************)
CompareToken(t) == CASE t = "=" -> "EQUAL" [] t = "!=" -> "UNEQUAL" [] t = "<" -> "LTH"
                     [] t = "<=" -> "LEQ" [] t = ">" -> "GTH" [] t = ">=" -> "GEQ"

Reading ==
    LET read[rule \in {"OPERAND", "AND", "OR", "MORE AND", "MORE OR"}, acc \in Expr, ts \in Seq(STRING)] ==
          LET As(e, n) == [e |-> e, rest |-> SubSeq(ts, n + 1, Len(ts))]
              Then(r) == read[IF rule = "AND" THEN "MORE AND" ELSE "MORE OR", r.e, r.rest]
              Part(tail) == IF rule \in {"OR", "MORE OR"} THEN read["AND", NoExpr, tail]
                                                         ELSE read["OPERAND", NoExpr, tail]
              More(type, r) == read[rule, Two(type, acc, r.e), r.rest]
              Negation(r) == [r EXCEPT !.e = Not(@)]
              Bracketed(r) == [r EXCEPT !.rest = Tail(@)]
          IN  CASE rule \in {"AND", "OR"} -> Then(Part(ts))
                [] rule = "MORE AND" ->
                     IF ts # <<>> /\ ts[1] = "&&" THEN More("AND", Part(Tail(ts))) ELSE As(acc, 0)
                [] rule = "MORE OR" ->
                     IF ts # <<>> /\ ts[1] = "||" THEN More("OR", Part(Tail(ts))) ELSE As(acc, 0)
                [] rule = "OPERAND" ->
                     CASE ts[1] = "!" -> Negation(read["OPERAND", NoExpr, Tail(ts)])
                       [] ts[1] = "(" -> Bracketed(read["OR", NoExpr, Tail(ts)])
                       [] OTHER -> IF Len(ts) > 2 /\ ts[2] \in {"=", "!=", "<", "<=", ">", ">="}
                                   THEN As(Comp(CompareToken(ts[2]), ts[1], ts[3]), 3)
                                   ELSE As(SymbolExpr(ts[1]), 1)
    IN  read["OR", NoExpr, expr_print(dep, "NONE")]

\* A dependency the user is shown reads as what it is: the tokens
\* expr_print() writes, read by the grammar of the Kconfig language, are all
\* consumed and have the value of the condition for all values of the symbols.
PrintedReadsBack ==
    LET r == Reading
    IN  /\ r.rest = <<>>
        /\ \A a \in Assignments : expr_calc_value(r.e, a) = expr_calc_value(dep, a)
=============================================================================
