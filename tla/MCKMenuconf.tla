----------------------------- MODULE MCKMenuconf ----------------------------
(***************************************************************************)
(* Small Kconfig files, each with the cases of one part of the language.   *)
(***************************************************************************)
EXTENDS KMenuconf

Sym(s) == SymbolExpr(s)
Yes == <<Prompt(NoExpr)>>
Consts == {"y", "m", "n", "1", "7", "9", "5", "0x10", "0x1f"}
Names == {"MODULES", "A", "B", "C", "I", "CH", "X", "Y", "E", "TC", "P", "Q", "N", "H", "G", "D", "T", "Z", "OC", "U", "V", "R1", "R2"}

MCSymType == [s \in Names \cup Consts |->
                CASE s \in {"MODULES", "X", "Y", "E", "G", "D", "CH", "Z", "OC", "U", "V", "R1", "R2"} -> "BOOLEAN"
                  [] s \in {"A", "B", "C", "I", "TC", "P", "Q"} -> "TRISTATE"
                  [] s = "N" -> "INT" [] s = "H" -> "HEX" [] s = "T" -> "STRING"
                  [] OTHER -> "UNKNOWN"]
Strings == <<"", "0x10", "0x1f", "1", "5", "7", "9", "a", "m", "n", "y">>
MCRank == [s \in Consts \cup {"", "a"} |-> CHOOSE i \in DOMAIN Strings : Strings[i] = s]
Numbers == [s \in {"1", "5", "7", "9", "0x10", "0x1f"} |->
              CASE s = "1" -> 1 [] s = "5" -> 5 [] s = "7" -> 7 [] s = "9" -> 9
                [] s = "0x10" -> 16 [] s = "0x1f" -> 31]
MCNumber == [b \in {0, 10, 16} |-> Numbers]
MCText == [t \in {"INT", "HEX"} |->
             [n \in 0..31 |-> CASE n = 1 -> "1" [] n = 5 -> "5" [] n = 7 -> "7" [] n = 9 -> "9"
                                [] n = 16 -> "0x10" [] OTHER -> "0x1f"]]
MCValidText == [t \in {"INT", "HEX"} |->
                  IF t = "INT" THEN {"1", "5", "7", "9"} ELSE {"0x10", "0x1f", "1f"}]
MCPrefixed == [s \in {"1f"} |-> "0x1f"]
MCChoiceSyms == {"CH", "TC", "OC"}

Kconfig(order, entries, modules, optional) ==
    [order |-> order, entries |-> entries, modules |-> modules, optional |-> optional]

\* Modules, dependencies, select and imply, a menu and a menuconfig.
Drivers == Kconfig(<<"MODULES", "A", "B", "C", "y", "m", "n">>,
    <<config("MODULES", NoExpr, Yes),
      config("A", NoExpr, Yes \o <<Select("C", NoExpr), Imply("B", NoExpr)>>),
      menuconfig("C", NoExpr, Yes),
      config("B", Not(Comp("EQUAL", "C", "n")), Yes \o <<Default(Sym("m"), Not(Sym("A")))>>)>>,
    "MODULES", {})
\* A choice whose values depend on a symbol that is asked for later, and
\* have a child.
Bools == Kconfig(<<"CH", "X", "Y", "Z", "E", "y", "m", "n">>,
    <<choice("CH", NoExpr, Yes \o <<Default(Sym("Y"), NoExpr)>>,
             <<config("X", NoExpr, Yes), config("Y", Sym("E"), Yes), config("Z", Sym("Y"), Yes)>>),
      menuconfig("E", NoExpr, Yes)>>,
    "n", {})
\* A tristate choice.
Tris == Kconfig(<<"MODULES", "TC", "P", "Q", "y", "m", "n">>,
    <<config("MODULES", NoExpr, Yes),
      choice("TC", NoExpr, Yes, <<config("P", NoExpr, Yes), config("Q", NoExpr, Yes)>>)>>,
    "MODULES", {})
\* Numbers and texts; the first question depends on a later one, a symbol is
\* computed from a number and a remark comes when a menu goes.
Numeric == Kconfig(<<"N", "H", "G", "D", "T", "y", "m", "n", "1", "7", "5", "0x10">>,
    <<config("H", Sym("G"), Yes \o <<Default(Sym("0x10"), NoExpr)>>),
      config("N", NoExpr, Yes \o <<Default(Sym("5"), NoExpr), Range_("1", "7", NoExpr)>>),
      config("G", NoExpr, <<Prompt(NoExpr), Default(Sym("y"), Comp("GTH", "N", "5"))>>),
      config("D", NoExpr, <<Default(Sym("y"), Comp("GTH", "N", "5"))>>),
      menu("texts", NoExpr, Sym("G"), <<config("T", NoExpr, Yes), comment("note", Sym("T"))>>),
      comment("off", Not(Sym("G")))>>,
    "n", {})
\* A choice that may be switched off.
Optional == Kconfig(<<"OC", "U", "V", "y", "m", "n">>,
    <<choice("OC", NoExpr, Yes, <<config("U", NoExpr, Yes), config("V", NoExpr, Yes)>>)>>,
    "n", {"OC"})
\* Two symbols that depend on each other: not accepted.
Cyclic == Kconfig(<<"R1", "R2", "y", "m", "n">>,
    <<config("R1", NoExpr, <<Default(Not(Sym("R2")), NoExpr)>>),
      config("R2", NoExpr, <<Default(Not(Sym("R1")), NoExpr)>>)>>,
    "n", {})

MCKconfigs == <<Drivers, Bools, Tris, Numeric, Optional, Cyclic>>
MCStartFiles == <<{NoFile, <<Line("A", "m"), Line("B", "y")>>}, {NoFile, <<Line("X", "y"), Line("Y", "y")>>},
                  {NoFile}, {NoFile, <<Line("N", "9")>>}, {NoFile}, {NoFile}>>
MCStartAuto == <<<<Line("B", "y"), Line("GONE", "y")>>, <<Line("X", "y"), Line("E", "y")>>, NoFile,
                 <<Line("N", "9"), Line("H", "0x10")>>, NoFile, NoFile>>
MCSeeds == <<{<<Line("C", "y")>>}, {<<Line("X", "y")>>}, {<<Line("P", "m"), Line("Q", "y")>>},
             {NoFile}, {<<Line("V", "y")>>}, {NoFile}>>
On(file) == [s \in ToSet(file.order) |-> 2]
MCDice == <<{On(Drivers)}, {[On(Bools) EXCEPT !["CH"] = [tri |-> 0, val |-> "X"]]}, {[On(Tris) EXCEPT !["TC"] = [tri |-> 1, val |-> "Q"]]},
            {On(Numeric)}, {[On(Optional) EXCEPT !["OC"] = [tri |-> 2, val |-> "U"]]}, {On(Cyclic)}>>
MCTexts == [t \in {"INT", "HEX", "STRING"} |->
              CASE t = "INT" -> {"7", "9"} [] t = "HEX" -> {"1f"} [] t = "STRING" -> {"a"}]
AllModes == {"oldaskconfig", "oldconfig", "syncconfig", "listnewconfig", "allnoconfig", "allyesconfig",
             "allmodconfig", "alldefconfig", "randconfig", "defconfig", "savedefconfig",
             "olddefconfig", "mconf", "nconf"}
\* The window is shown where there are a choice, a menu and texts; the modes
\* left out there set all symbols as the others do when there are no modules.
\* The three largest Kconfig files do without oldaskconfig, two of them without
\* nconf, which asks the same as mconf, or randconfig, and the first also
\* without listnewconfig and alldefconfig, which does what defconfig does.
Windowed == (AllModes \cup {"gconf"}) \ {"allmodconfig", "alldefconfig", "listnewconfig"}
MCModes == <<AllModes \ {"nconf", "oldaskconfig", "randconfig", "listnewconfig", "alldefconfig"},
             Windowed \ {"nconf", "oldaskconfig"},
             AllModes, Windowed \ {"oldaskconfig", "randconfig"}, AllModes, AllModes>>
MCMaxClicks == [p \in 1..6 |-> IF p = 2 THEN 3 ELSE 2]
=============================================================================
