---------------------------- MODULE KconfigProofs ---------------------------
(***************************************************************************)
(* What is proved of kconfig: of its files (ConfFiles), of the operands of *)
(* its conditions (KOperand), of the procedures of expr.c (KExpr) and of   *)
(* what menu_finalize() makes of a condition (Conditions).                 *)
(*                                                                         *)
(* The files of a configuration survive whatever is killed, and auto.conf  *)
(* says the truth when make takes it for up to date, for every set of      *)
(* symbols and values.  Neither property is inductive: both have to say    *)
(* what the process that runs has done so far and what a process that was  *)
(* killed left behind.                                                     *)
(*                                                                         *)
(* The rules that simplify conditions keep their value, for every set of   *)
(* symbols and every value they may have.  So do the recursive procedures  *)
(* that apply them, for conditions of every size up to MaxOperands, which  *)
(* may be any number.  What each procedure computes is proved by recursion *)
(* on a measure of its arguments: a function that gives a right answer     *)
(* wherever the smaller ones are right exists, and CHOOSE takes no other.  *)
(***************************************************************************)
EXTENDS ConfFiles, Conditions, WellFoundedInduction, SequenceTheorems, TLAPS

\* What a configuration file may hold, and what auto.conf, tristate.conf and
\* the header may.
Files == Configs \cup {Missing, Partial, Hollow}
Autos == {c \in Configs : \A s \in Syms : c[s] # No}

ConfigSteps == {"save", "write", "keep", "install"}
AutoSteps == {"autoconf", "autowrite", "header", "tristate", "auto"}

ConfTypeOK ==
    /\ config \in Files /\ old \in Files /\ tmp \in Files
    /\ autoconf \in Autos \cup {Missing}
    /\ tristate \in Autos \cup {Missing} /\ header \in Autos \cup {Missing}
    /\ tmps \in Autos \cup {Missing, Partial}
    /\ touched \in SUBSET Syms
    /\ built \in Configs
    /\ prog \in {"none", "mconf", "conf"}
    /\ pc \in {"none", "edit"} \cup ConfigSteps \cup AutoSteps
    /\ mem \in Configs

\* Which program can be where.
Programs ==
    /\ prog = "none" <=> pc = "none"
    /\ pc \in AutoSteps => prog = "conf"
    /\ pc = "edit" => prog = "mconf"

\* Symbols lose their marks when a file is written; they have them again
\* before the next one is, unless a rename has failed in menuconfig.
MarksInTime ==
    ~failed \/ prog = "conf" =>
      /\ pc \in {"edit", "save"} => marked \/ ~changed
      /\ pc = "write" => marked
      /\ pc \in {"keep", "install"} => tmp \in Configs

\* .config is whole or was just renamed, and then .config.old is whole.
ConfigIsWhole ==
    ~overwrite /\ ~failed =>
      /\ config \in Configs \cup {Missing}
      /\ saved => config \in Configs \/ old \in Configs

\* What conf has done when it is somewhere.
SyncInOrder ==
    /\ prog = "conf" /\ pc \in {"keep", "install"} => tmp = mem
    /\ pc \in AutoSteps => config = mem
    /\ pc \in AutoSteps \ {"autoconf"} => ToTouch = {}
    /\ pc \in {"header", "tristate", "auto"} => tmps = AutoText(mem)
    /\ pc \in {"tristate", "auto"} => header = AutoText(mem)
    /\ pc = "auto" => tristate = AutoText(mem)

\* What was built and is not touched says what auto.conf says, whatever
\* became of the process that touched the rest.
BuiltIsAuto ==
    \A s \in Syms \ touched :
       built[s] = IF autoconf = Missing THEN Absent ELSE autoconf[s]

\* A .config that is written in place is newer than auto.conf meanwhile.
InPlaceIsNewer == overwrite /\ pc = "write" => ~newer

ConfInv == /\ ConfTypeOK /\ Programs /\ MarksInTime /\ ConfigIsWhole
           /\ SyncInOrder /\ BuiltIsAuto /\ InPlaceIsNewer /\ UpToDateIsTrue

-----------------------------------------------------------------------------
(* What is written into auto.conf.                                         *)

\* The lines of auto.conf are values without n.
LEMMA AutoTextType == ASSUME NEW c \in Configs PROVE AutoText(c) \in Autos
  BY ConfFilesAssumption DEF Configs, AutoText, Autos

\* None of the other things a file may hold is a configuration.
LEMMA NotAConfig == Missing \notin Configs /\ Partial \notin Configs /\ Hollow \notin Configs
  BY ConfFilesAssumption

\* A symbol that does not differ from auto.conf would be written there as it is.
LEMMA SameIsWritten ==
    ASSUME NEW before \in Autos \cup {Missing}, NEW s \in Syms, mem \in Configs,
           ~Differs(s, before)
    PROVE  AutoText(mem)[s] = IF before = Missing THEN Absent ELSE before[s]
<1>1. AutoText(mem)[s] = IF mem[s] = No THEN Absent ELSE mem[s] BY DEF AutoText
<1>2. CASE before = Missing
  BY <1>1, <1>2, ConfFilesAssumption DEF Differs
<1>3. CASE before # Missing
  <2>1. before[s] # No BY <1>3 DEF Autos
  <2> QED BY <1>1, <1>3, <2>1, ConfFilesAssumption DEF Differs
<1> QED BY <1>2, <1>3

\* Once all that differ are touched, the rest was built as auto.conf will say.
LEMMA UntouchedIsWritten ==
    ASSUME ConfTypeOK, BuiltIsAuto, ToTouch = {}, NEW s \in Syms \ touched
    PROVE  built[s] = AutoText(mem)[s]
<1>1. ~Differs(s, autoconf) BY DEF ToTouch
<1>2. AutoText(mem)[s] = IF autoconf = Missing THEN Absent ELSE autoconf[s]
  BY <1>1, SameIsWritten DEF ConfTypeOK
<1> QED BY <1>2 DEF BuiltIsAuto

-----------------------------------------------------------------------------
(* The invariant holds at the beginning, and every step keeps each part.   *)

\* It holds of a tree that was never configured.
LEMMA ConfInit == Init => ConfInv
<1> SUFFICES ASSUME Init PROVE ConfInv OBVIOUS
<1>1. ConfTypeOK
  <2>1. [s \in Syms |-> No] \in Configs /\ [s \in Syms |-> Absent] \in Configs
    BY ConfFilesAssumption DEF Configs
  <2> QED BY <2>1 DEF Init, ConfTypeOK, Files
<1>2. Programs /\ MarksInTime /\ ConfigIsWhole /\ SyncInOrder /\ InPlaceIsNewer /\ UpToDateIsTrue
  BY DEF Init, Programs, MarksInTime, ConfigIsWhole, SyncInOrder, InPlaceIsNewer, UpToDateIsTrue,
         AutoSteps
<1>3. BuiltIsAuto BY DEF Init, BuiltIsAuto
<1> QED BY <1>1, <1>2, <1>3 DEF ConfInv

\* The actions that replace .config, those that make auto.conf, and the rest.
ConfigActions == OpenConfig \/ CannotOpen \/ WriteConfig \/ KeepOld \/ Install \/ CannotInstall
AutoActions == (\E s \in Syms : Touch(s)) \/ OpenAuto \/ WriteAuto \/ InstallHeader
                 \/ InstallTristate \/ InstallAuto
ProgramActions == menuconfig \/ syncconfig \/ Edit \/ Save \/ End

\* What a file is made of was written before: the types rest on SyncInOrder,
\* and what is built on UpToDateIsTrue.
LEMMA TypeNext == ConfInv /\ [Next]_vars => ConfTypeOK'
<1> SUFFICES ASSUME ConfInv, [Next]_vars PROVE ConfTypeOK' OBVIOUS
<1>i. ConfTypeOK BY DEF ConfInv
<1> USE <1>i DEF ConfTypeOK, ConfigSteps, AutoSteps
<1>0. [s \in Syms |-> No] \in Configs BY ConfFilesAssumption DEF Configs
<1>1. CASE ProgramActions
  <2>1. CASE menuconfig BY <2>1 DEF menuconfig, Read, files
  <2>2. CASE syncconfig BY <2>2 DEF syncconfig, Read, files
  <2>3. CASE Edit BY <2>3 DEF Edit, files
  <2>4. CASE Save BY <2>4 DEF Save, files
  <2>5. CASE End BY <1>0, <2>5 DEF End, Nowhere, Files
  <2> QED BY <1>1, <2>1, <2>2, <2>3, <2>4, <2>5 DEF ProgramActions
<1>2. CASE OpenConfig
  BY <1>2 DEF OpenConfig, Files
<1>3. CASE CannotOpen \/ KeepOld \/ Install
  <2>1. CASE CannotOpen BY <2>1 DEF CannotOpen, files
  <2>2. CASE KeepOld BY <2>2 DEF KeepOld, Files
  <2>3. CASE Install BY <2>3 DEF Install, Files
  <2> QED BY <1>3, <2>1, <2>2, <2>3
<1>4. CASE WriteConfig
  <2>1. (IF marked THEN mem ELSE Hollow) \in Files BY DEF Files
  <2> QED BY <1>4, <2>1 DEF WriteConfig
<1>5. CASE CannotInstall
  BY <1>0, <1>5 DEF CannotInstall, Nowhere, files
<1>6. CASE (\E s \in Syms : Touch(s)) \/ OpenAuto \/ InstallHeader \/ InstallTristate \/ InstallAuto
  <2>1. CASE \E s \in Syms : Touch(s) BY <2>1 DEF Touch, process
  <2>2. CASE OpenAuto BY <2>2 DEF OpenAuto
  <2>0. pc \in {"header", "tristate", "auto"} => tmps \in Autos
    BY AutoTextType DEF ConfInv, SyncInOrder
  <2>3. CASE InstallHeader BY <2>0, <2>3 DEF InstallHeader
  <2>4. CASE InstallTristate BY <2>0, <2>4 DEF InstallTristate
  <2>5. CASE InstallAuto BY <1>0, <2>0, <2>5 DEF InstallAuto, Nowhere
  <2> QED BY <1>6, <2>1, <2>2, <2>3, <2>4, <2>5
<1>7. CASE WriteAuto
  BY <1>7, AutoTextType DEF WriteAuto
<1>8. CASE Build
  <2>1. header \in Configs
    BY <1>8, AutoTextType DEF Build, ConfInv, UpToDateIsTrue, Autos
  <2>2. built' \in Configs BY <1>8, <2>1 DEF Build, Configs
  <2> QED BY <1>8, <2>2 DEF Build, process
<1>9. CASE UNCHANGED vars
  BY <1>9 DEF vars, files, process
<1> QED BY <1>1, <1>2, <1>3, <1>4, <1>5, <1>6, <1>7, <1>8, <1>9 DEF Next, ProgramActions

\* Where a program is says which program it is.
LEMMA ProgramsNext == ConfTypeOK /\ Programs /\ [Next]_vars => Programs'
<1> SUFFICES ASSUME ConfTypeOK, Programs, [Next]_vars PROVE Programs' OBVIOUS
<1> USE DEF Programs, AutoSteps
<1>1. CASE menuconfig \/ syncconfig BY <1>1 DEF menuconfig, syncconfig
<1>2. CASE Edit \/ Save \/ End BY <1>2 DEF Edit, Save, End, Nowhere
<1>3. CASE OpenConfig \/ CannotOpen \/ KeepOld BY <1>3 DEF OpenConfig, CannotOpen, KeepOld
<1>4. CASE WriteConfig \/ Install
  <2>1. prog \in {"none", "mconf", "conf"} BY DEF ConfTypeOK
  <2> QED BY <1>4, <2>1 DEF WriteConfig, Install
<1>5. CASE CannotInstall BY <1>5 DEF CannotInstall, Nowhere, files
<1>6. CASE AutoActions
  BY <1>6 DEF AutoActions, Touch, OpenAuto, WriteAuto, InstallHeader, InstallTristate, InstallAuto,
              Nowhere, process
<1>7. CASE Build BY <1>7 DEF Build, process
<1>8. CASE UNCHANGED vars BY <1>8 DEF vars, process
<1> QED BY <1>1, <1>2, <1>3, <1>4, <1>5, <1>6, <1>7, <1>8 DEF Next, AutoActions

\* Once all values are marked, the file that is opened gets all of them.
LEMMA MarksNext == ConfTypeOK /\ Programs /\ MarksInTime /\ [Next]_vars => MarksInTime'
<1> SUFFICES ASSUME ConfTypeOK, Programs, MarksInTime, [Next]_vars PROVE MarksInTime' OBVIOUS
<1> USE DEF MarksInTime
<1>1. CASE menuconfig BY <1>1 DEF menuconfig, Read
<1>2. CASE syncconfig BY <1>2 DEF syncconfig, Read
<1>3. CASE Edit \/ Save BY <1>3 DEF Edit, Save, files
<1>4. CASE End BY <1>4 DEF End, Nowhere
<1>5. CASE OpenConfig BY <1>5 DEF OpenConfig
<1>6. CASE CannotOpen BY <1>6 DEF CannotOpen, files
<1>7. CASE WriteConfig BY <1>7 DEF WriteConfig, ConfTypeOK
<1>8. CASE KeepOld BY <1>8 DEF KeepOld
<1>9. CASE Install BY <1>9 DEF Install
<1>10. CASE CannotInstall BY <1>10 DEF CannotInstall, Nowhere
<1>11. CASE AutoActions
  BY <1>11 DEF AutoActions, Touch, OpenAuto, WriteAuto, InstallHeader, InstallTristate,
               InstallAuto, Nowhere, process
<1>12. CASE Build BY <1>12 DEF Build, process
<1>13. CASE UNCHANGED vars BY <1>13 DEF vars, files, process
<1> QED BY <1>1, <1>2, <1>3, <1>4, <1>5, <1>6, <1>7, <1>8, <1>9, <1>10, <1>11, <1>12, <1>13
        DEF Next, AutoActions

\* .config.old takes what .config was only when that was whole, and .config is
\* replaced only by a file that is.
LEMMA WholeNext == ConfTypeOK /\ MarksInTime /\ ConfigIsWhole /\ [Next]_vars => ConfigIsWhole'
<1> SUFFICES ASSUME ConfTypeOK, MarksInTime, ConfigIsWhole, [Next]_vars PROVE ConfigIsWhole' OBVIOUS
<1> USE DEF ConfigIsWhole
<1>1. CASE ProgramActions
  BY <1>1 DEF ProgramActions, menuconfig, syncconfig, Edit, Save, End, files
<1>2. CASE OpenConfig BY <1>2 DEF OpenConfig
<1>3. CASE CannotOpen \/ CannotInstall BY <1>3 DEF CannotOpen, CannotInstall, files
<1>4. CASE WriteConfig BY <1>4 DEF WriteConfig
<1>5. CASE KeepOld BY <1>5 DEF KeepOld
<1>6. CASE Install BY <1>6 DEF Install, MarksInTime
<1>7. CASE AutoActions
  BY <1>7 DEF AutoActions, Touch, OpenAuto, WriteAuto, InstallHeader, InstallTristate, InstallAuto
<1>8. CASE Build \/ UNCHANGED vars BY <1>8 DEF Build, vars, files
<1> QED BY <1>1, <1>2, <1>3, <1>4, <1>5, <1>6, <1>7, <1>8
        DEF Next, ProgramActions, AutoActions

\* conf goes from .config to auto.conf step by step.
LEMMA SyncNext == ConfInv /\ [Next]_vars => SyncInOrder'
<1> SUFFICES ASSUME ConfInv, [Next]_vars PROVE SyncInOrder' OBVIOUS
<1>i. ConfTypeOK /\ Programs /\ MarksInTime /\ SyncInOrder BY DEF ConfInv
<1> USE <1>i DEF SyncInOrder, AutoSteps
<1>1. CASE menuconfig BY <1>1 DEF menuconfig
<1>2. CASE syncconfig BY <1>2 DEF syncconfig, Read, files
<1>3. CASE Edit \/ Save BY <1>3 DEF Edit, Save
<1>4. CASE End BY <1>4 DEF End, Nowhere
<1>5. CASE OpenConfig \/ CannotOpen BY <1>5 DEF OpenConfig, CannotOpen
<1>6. CASE WriteConfig BY <1>6 DEF WriteConfig, MarksInTime
<1>7. CASE KeepOld BY <1>7 DEF KeepOld
<1>8. CASE Install BY <1>8 DEF Install
<1>9. CASE CannotInstall BY <1>9 DEF CannotInstall, Nowhere
<1>10. CASE \E s \in Syms : Touch(s) BY <1>10 DEF Touch, process
<1>11. CASE OpenAuto BY <1>11 DEF OpenAuto, ToTouch, Differs
<1>12. CASE WriteAuto BY <1>12 DEF WriteAuto, ToTouch, Differs, AutoText
<1>13. CASE InstallHeader BY <1>13 DEF InstallHeader, ToTouch, Differs, AutoText
<1>14. CASE InstallTristate BY <1>14 DEF InstallTristate, ToTouch, Differs, AutoText
<1>15. CASE InstallAuto BY <1>15 DEF InstallAuto, Nowhere
<1>16. CASE Build BY <1>16 DEF Build, process, Programs
<1>17. CASE UNCHANGED vars BY <1>17 DEF vars, files, process, ToTouch, Differs, AutoText
<1> QED BY <1>1, <1>2, <1>3, <1>4, <1>5, <1>6, <1>7, <1>8, <1>9, <1>10, <1>11, <1>12, <1>13,
           <1>14, <1>15, <1>16, <1>17 DEF Next

\* The order of the touches and of the last rename is what makes it true.
LEMMA BuiltNext == ConfInv /\ [Next]_vars => BuiltIsAuto'
<1> SUFFICES ASSUME ConfInv, [Next]_vars PROVE BuiltIsAuto' OBVIOUS
<1>i. ConfTypeOK /\ BuiltIsAuto BY DEF ConfInv
<1>1. CASE UNCHANGED <<autoconf, touched, built>>
  BY <1>i, <1>1 DEF BuiltIsAuto
<1>2. CASE \E s \in Syms : Touch(s)
  BY <1>i, <1>2 DEF Touch, BuiltIsAuto
<1>3. CASE InstallAuto
  <2>1. ToTouch = {} /\ autoconf' = AutoText(mem) /\ UNCHANGED <<touched, built>>
    BY <1>3 DEF InstallAuto, ConfInv, SyncInOrder, AutoSteps
  <2>2. autoconf' # Missing
    BY <1>i, <2>1, AutoTextType, NotAConfig DEF ConfTypeOK, Autos
  <2> QED BY <1>i, <2>1, <2>2, UntouchedIsWritten DEF BuiltIsAuto
<1>4. CASE Build
  <2>1. config \in Configs /\ autoconf = AutoText(config) /\ header = AutoText(config)
    BY <1>4 DEF Build, ConfInv, UpToDateIsTrue
  <2>2. autoconf # Missing BY <2>1, AutoTextType, NotAConfig DEF Autos
  <2>3. ASSUME NEW s \in Syms PROVE built'[s] = autoconf[s]
    BY <1>i, <1>4, <2>1, <2>2 DEF Build, BuiltIsAuto
  <2> QED BY <1>4, <2>2, <2>3 DEF Build, BuiltIsAuto
<1>5. CASE ProgramActions \/ ConfigActions
  BY <1>1, <1>5 DEF ProgramActions, menuconfig, syncconfig, Edit, Save, End, ConfigActions,
     OpenConfig, CannotOpen, WriteConfig, KeepOld, Install, CannotInstall, files
<1>6. CASE OpenAuto \/ WriteAuto \/ InstallHeader \/ InstallTristate
  BY <1>1, <1>6 DEF OpenAuto, WriteAuto, InstallHeader, InstallTristate
<1>7. CASE UNCHANGED vars BY <1>1, <1>7 DEF vars, files
<1> QED BY <1>2, <1>3, <1>4, <1>5, <1>6, <1>7 DEF Next, ProgramActions, ConfigActions

\* A .config written in place is older than auto.conf only when that is next.
LEMMA InPlaceNext == InPlaceIsNewer /\ [Next]_vars => InPlaceIsNewer'
<1> SUFFICES ASSUME InPlaceIsNewer, [Next]_vars PROVE InPlaceIsNewer' OBVIOUS
<1> USE DEF InPlaceIsNewer
<1>1. CASE ProgramActions
  BY <1>1 DEF ProgramActions, menuconfig, syncconfig, Edit, Save, End, Nowhere, files
<1>2. CASE ConfigActions
  BY <1>2 DEF ConfigActions, OpenConfig, CannotOpen, WriteConfig, KeepOld, Install, CannotInstall,
              Nowhere, files
<1>3. CASE AutoActions
  BY <1>3 DEF AutoActions, Touch, OpenAuto, WriteAuto, InstallHeader, InstallTristate,
              InstallAuto, Nowhere, process
<1>4. CASE Build \/ UNCHANGED vars BY <1>4 DEF Build, vars, files, process
<1> QED BY <1>1, <1>2, <1>3, <1>4 DEF Next, ProgramActions, ConfigActions, AutoActions

\* auto.conf is made the newest when all files say the same, and what is newer
\* than .config is written again only by what .config says.
LEMMA UpToDateNext == ConfInv /\ [Next]_vars => UpToDateIsTrue'
<1> SUFFICES ASSUME ConfInv, [Next]_vars, newer', config' # Missing
             PROVE  /\ config' \in Configs
                    /\ autoconf' = AutoText(config') /\ tristate' = AutoText(config')
                    /\ header' = AutoText(config')
                    /\ \A s \in Syms \ touched' : built'[s] = AutoText(config')[s]
  BY DEF UpToDateIsTrue, AutoText
<1>i. ConfTypeOK /\ Programs /\ SyncInOrder /\ BuiltIsAuto /\ InPlaceIsNewer /\ UpToDateIsTrue
  BY DEF ConfInv
<1>1. CASE UNCHANGED <<config, newer, autoconf, tristate, header, touched, built>>
  BY <1>i, <1>1 DEF UpToDateIsTrue
<1>2. CASE ProgramActions \/ CannotOpen \/ CannotInstall
  BY <1>1, <1>2 DEF ProgramActions, menuconfig, syncconfig, Edit, Save, End, CannotOpen,
                    CannotInstall, files
<1>3. CASE OpenConfig BY <1>1, <1>3 DEF OpenConfig
<1>4. CASE WriteConfig BY <1>1, <1>4, <1>i DEF WriteConfig, InPlaceIsNewer
<1>5. CASE KeepOld \/ Install BY <1>1, <1>5 DEF KeepOld, Install
<1>6. CASE \E s \in Syms : Touch(s) BY <1>i, <1>6 DEF Touch, UpToDateIsTrue
<1>7. CASE OpenAuto \/ WriteAuto BY <1>1, <1>7 DEF OpenAuto, WriteAuto
<1>8. CASE InstallHeader
  BY <1>i, <1>8 DEF InstallHeader, SyncInOrder, AutoSteps, UpToDateIsTrue
<1>9. CASE InstallTristate
  BY <1>i, <1>9 DEF InstallTristate, SyncInOrder, AutoSteps, UpToDateIsTrue
<1>10. CASE InstallAuto
  <2>1. /\ mem \in Configs /\ config = mem /\ ToTouch = {}
        /\ header = AutoText(mem) /\ tristate = AutoText(mem) /\ tmps = AutoText(mem)
    BY <1>i, <1>10 DEF InstallAuto, ConfTypeOK, SyncInOrder, AutoSteps
  <2>2. \A s \in Syms \ touched : built[s] = AutoText(mem)[s]
    BY <1>i, <2>1, UntouchedIsWritten
  <2> QED BY <1>10, <2>1, <2>2 DEF InstallAuto
<1>11. CASE Build
  BY <1>i, <1>11 DEF Build, UpToDateIsTrue
<1>12. CASE UNCHANGED vars BY <1>1, <1>12 DEF vars, files
<1> QED BY <1>2, <1>3, <1>4, <1>5, <1>6, <1>7, <1>8, <1>9, <1>10, <1>11, <1>12
        DEF Next, ProgramActions

\* It holds at every step.
LEMMA ConfInvHolds == Spec => []ConfInv
<1>1. ConfInv /\ [Next]_vars => ConfInv'
  BY TypeNext, ProgramsNext, MarksNext, WholeNext, SyncNext, BuiltNext, InPlaceNext, UpToDateNext
     DEF ConfInv
<1> QED BY <1>1, ConfInit, PTL DEF Spec

-----------------------------------------------------------------------------
(* What the user and the build rely on.                                    *)

\* Each file holds a configuration or what an interrupted program left of it.
THEOREM ConfTypeCorrect == Spec => []ConfTypeOK
  BY ConfInvHolds, PTL DEF ConfInv

\* A configuration that was saved is never lost: wherever menuconfig or conf
\* is killed in conf_write(), .config or .config.old is whole.
THEOREM ConfigAlwaysKept == Spec => []AConfigIsKept
<1>1. ConfInv => AConfigIsKept BY DEF ConfInv, ConfigIsWhole, AConfigIsKept
<1> QED BY <1>1, ConfInvHolds, PTL

\* What make concludes from the times of auto.conf and .config is right: the
\* files of the build and what was built say what .config says.
THEOREM UpToDateAlwaysTrue == Spec => []UpToDateIsTrue
  BY ConfInvHolds, PTL DEF ConfInv

-----------------------------------------------------------------------------
(* Operands: symbols and comparisons, and what they are worth.             *)

\* The operands the rules look at: a symbol, a comparison, or the negation of
\* one of these.
Simple == [type : {"SYMBOL"}, sym : DOMAIN SymType]
            \cup [type : Compares, sym : DOMAIN SymType, sym2 : DOMAIN SymType]
Operands == Simple \cup [type : {"NOT"}, left : Simple]

OperandValue(e, val) == IF e.type = "NOT" THEN TriNot(LeafValue(e.left, val)) ELSE LeafValue(e, val)

\* The symbols whose value is one of n, m and y.
Tristates == {s \in DOMAIN SymType : SymType[s] \in {"BOOLEAN", "TRISTATE"}}
\* What such a symbol may be compared with: a constant, but not a number.
Plain == {c \in DOMAIN SymType : SymType[c] = "UNKNOWN" /\ c \notin DOMAIN Number[0]}

\* The constant of a comparison is no number.
NoNumber(e) ==
    e.type \in {"EQUAL", "UNEQUAL"} /\ IsConstSym(e.sym2) => e.sym2 \notin DOMAIN Number[0]

\* The three constants of the rules are such.
LEMMA ConstantsArePlain == {"y", "m", "n"} \subseteq Plain
  BY KOperandAssumption DEF Plain

\* A tristate symbol is read as its value, a constant as a text.
LEMMA TristateIsRead ==
    ASSUME NEW val, IsCalculation(val), NEW s \in Tristates
    PROVE  expr_parse_string(val[s].str, SymType[s]) = [kind |-> "signed", n |-> val[s].tri]
<1>1. val[s].tri \in 0..2 /\ val[s].str = <<"n", "m", "y">>[val[s].tri + 1]
  BY DEF IsCalculation, Tristates
<1>2. \/ val[s].tri = 0 /\ val[s].str = "n"
      \/ val[s].tri = 1 /\ val[s].str = "m"
      \/ val[s].tri = 2 /\ val[s].str = "y"
  <2> DEFINE names == <<"n", "m", "y">>
  <2>1. names[1] = "n" /\ names[2] = "m" /\ names[3] = "y" OBVIOUS
  <2>2. val[s].tri = 0 \/ val[s].tri = 1 \/ val[s].tri = 2 BY <1>1
  <2>3. val[s].str = names[val[s].tri + 1] BY <1>1
  <2> HIDE DEF names
  <2> QED BY <2>1, <2>2, <2>3
<1>3. expr_parse_string(val[s].str, SymType[s]) =
        [kind |-> "signed", n |-> CASE val[s].str = "n" -> 0 [] val[s].str = "m" -> 1
                                    [] val[s].str = "y" -> 2 [] OTHER -> -1]
  BY DEF expr_parse_string, Tristates
<1> QED BY <1>2, <1>3

\* Only the name of such a constant counts.
LEMMA ConstantIsText ==
    ASSUME NEW val, IsCalculation(val), NEW c \in Plain
    PROVE  /\ val[c].str = c
           /\ expr_parse_string(val[c].str, SymType[c]) = [kind |-> "string", n |-> 0]
<1>1. val[c].str = c /\ SymType[c] = "UNKNOWN" BY DEF IsCalculation, Plain
<1>2. Base("UNKNOWN") = 0 BY DEF Base
<1> QED BY <1>1, <1>2 DEF expr_parse_string, Plain

\* Hence a tristate symbol equals a constant when its value has that name.
LEMMA ComparedByName ==
    ASSUME NEW val, IsCalculation(val), NEW e, e.type \in {"EQUAL", "UNEQUAL"},
           e.sym \in Tristates, e.sym2 \in Plain
    PROVE  LeafValue(e, val) = IF (val[e.sym].str = e.sym2) <=> (e.type = "EQUAL") THEN 2 ELSE 0
<1> DEFINE s == e.sym
           c == e.sym2
           order == Rank[val[s].str] - Rank[val[c].str]
           side == [i \in {1, 2} |-> IF i = 1 THEN [kind |-> "signed", n |-> val[s].tri]
                                             ELSE [kind |-> "string", n |-> 0]]
<1>1. val[s].str \in DOMAIN Rank /\ val[c].str \in DOMAIN Rank
  BY DEF IsCalculation, Tristates, Plain
<1>2. val[c].str = c BY ConstantIsText
<1>3. order \in Int /\ (order = 0 <=> val[s].str = c)
  <2>1. Rank[val[s].str] \in Int /\ Rank[val[c].str] \in Int BY <1>1, KOperandAssumption
  <2>2. Rank[val[s].str] = Rank[val[c].str] => val[s].str = val[c].str BY <1>1, KOperandAssumption
  <2> QED BY <1>2, <2>1, <2>2
<1>4. Compare(e, val[s].str, val[c].str) <=> Compared(e.type, side, order)
  <2>1. <<SymType[s], SymType[c]>> # <<"STRING", "STRING">> BY DEF Tristates
  <2>2. \A i \in {1, 2} : expr_parse_string(<<val[s].str, val[c].str>>[i], <<SymType[s], SymType[c]>>[i])
                            = side[i]
    BY TristateIsRead, ConstantIsText
  <2> QED BY <2>1, <2>2 DEF Compare
<1>5. Compared(e.type, side, order) <=> Holds(e.type, order)
  <2>1. {side[i].kind : i \in {1, 2}} = {"signed", "string"}
    <3>1. side[1].kind = "signed" /\ side[2].kind = "string" OBVIOUS
    <3> QED BY <3>1
  <2> HIDE DEF side, order
  <2> QED BY <2>1 DEF Compared
<1>6. Holds(e.type, order) <=> ((order = 0) <=> (e.type = "EQUAL"))
  <2> HIDE DEF order
  <2> QED BY <1>3 DEF Holds
<1>7. LeafValue(e, val) = IF Compare(e, val[s].str, val[c].str) THEN 2 ELSE 0 BY DEF LeafValue
<1> HIDE DEF order, side
<1> QED BY <1>3, <1>4, <1>5, <1>6, <1>7

\* The value with the name of y, m or n.
LEMMA ValueByName ==
    ASSUME NEW val, IsCalculation(val), NEW s \in Tristates
    PROVE  /\ val[s].tri \in {0, 1, 2}
           /\ val[s].str = "n" <=> val[s].tri = 0
           /\ val[s].str = "m" <=> val[s].tri = 1
           /\ val[s].str = "y" <=> val[s].tri = 2
           /\ SymType[s] = "BOOLEAN" => val[s].tri # 1
<1>1. val[s].tri \in 0..2 /\ val[s].str = <<"n", "m", "y">>[val[s].tri + 1]
      /\ (SymType[s] = "BOOLEAN" => val[s].tri # 1)
  BY DEF IsCalculation, Tristates
<1> DEFINE names == <<"n", "m", "y">>
<1>2. names[1] = "n" /\ names[2] = "m" /\ names[3] = "y" OBVIOUS
<1>3. val[s].tri = 0 \/ val[s].tri = 1 \/ val[s].tri = 2 BY <1>1
<1>4. val[s].str = names[val[s].tri + 1] BY <1>1
<1> HIDE DEF names
<1> QED BY <1>1, <1>2, <1>3, <1>4

\* What the result of a rule is worth.
LEMMA ResultValue ==
    ASSUME NEW val, IsCalculation(val), NEW s \in Tristates
    PROVE  /\ OperandValue(SymbolExpr(s), val) = val[s].tri
           /\ OperandValue(SymbolExpr("y"), val) = 2 /\ OperandValue(SymbolExpr("n"), val) = 0
           /\ \A t \in {"EQUAL", "UNEQUAL"}, c \in Plain :
                OperandValue(Comp(t, s, c), val) =
                  IF (val[s].str = c) <=> (t = "EQUAL") THEN 2 ELSE 0
<1>1. \A x : OperandValue(SymbolExpr(x), val) = val[x].tri
  BY DEF OperandValue, LeafValue, SymbolExpr
<1>2. val["y"].tri = 2 /\ val["n"].tri = 0 BY DEF IsCalculation
<1>3. ASSUME NEW t \in {"EQUAL", "UNEQUAL"}, NEW c \in Plain
      PROVE  OperandValue(Comp(t, s, c), val) = IF (val[s].str = c) <=> (t = "EQUAL") THEN 2 ELSE 0
  <2>1. Comp(t, s, c).type = t /\ Comp(t, s, c).sym = s /\ Comp(t, s, c).sym2 = c BY DEF Comp
  <2>2. LeafValue(Comp(t, s, c), val) = IF (val[s].str = c) <=> (t = "EQUAL") THEN 2 ELSE 0
    BY <2>1, ComparedByName
  <2> QED BY <2>1, <2>2 DEF OperandValue
<1> QED BY <1>1, <1>2, <1>3

\* What an operand about the symbol s is worth.
LEMMA OperandMeaning ==
    ASSUME NEW val, IsCalculation(val), NEW s \in Tristates, NEW e, Joinable(e), Subject(e) = s
    PROVE  /\ e.type = "SYMBOL" => OperandValue(e, val) = val[s].tri
           /\ e.type = "EQUAL" /\ e.sym2 \in Plain =>
                OperandValue(e, val) = IF val[s].str = e.sym2 THEN 2 ELSE 0
           /\ e.type = "UNEQUAL" /\ e.sym2 \in Plain =>
                OperandValue(e, val) = IF val[s].str = e.sym2 THEN 0 ELSE 2
           /\ e.type = "NOT" /\ e.left.type = "SYMBOL" => OperandValue(e, val) = 2 - val[s].tri
<1>1. e.type \in {"EQUAL", "UNEQUAL"} /\ e.sym2 \in Plain =>
        OperandValue(e, val) = IF (val[s].str = e.sym2) <=> (e.type = "EQUAL") THEN 2 ELSE 0
  BY ComparedByName DEF Subject, OperandValue
<1>2. e.type = "SYMBOL" => OperandValue(e, val) = val[s].tri
  BY DEF Subject, OperandValue, LeafValue
<1>3. e.type = "NOT" /\ e.left.type = "SYMBOL" => OperandValue(e, val) = 2 - val[s].tri
  BY DEF Subject, OperandValue, LeafValue, TriNot
<1> QED BY <1>1, <1>2, <1>3

\* Two pairs of the same members.
LEMMA PairIs ==
    ASSUME NEW x, NEW y, NEW b, NEW c, b # c, {x, y} = {b, c}
    PROVE  (x = b /\ y = c) \/ (x = c /\ y = b)
<1>1. x \in {b, c} /\ y \in {b, c} /\ b \in {x, y} /\ c \in {x, y} OBVIOUS
<1> QED BY <1>1

\* Two operands joined by || have the value of the disjunction.
LEMMA OrIsKept ==
    ASSUME NEW val, IsCalculation(val), NEW e1, NEW e2, SameSubject(e1, e2),
           e1 \in Operands, e2 \in Operands, NoNumber(e1), NoNumber(e2),
           Joined("OR", e1, e2) # NoExpr
    PROVE  OperandValue(Joined("OR", e1, e2), val) = TriMax(OperandValue(e1, val), OperandValue(e2, val))
<1> DEFINE s == Subject(e1)
           j == Joined("OR", e1, e2)
           Goal == OperandValue(j, val) = TriMax(OperandValue(e1, val), OperandValue(e2, val))
<1> SUFFICES Goal OBVIOUS
<1>0. \A e \in Operands : Joinable(e) => Subject(e) \in DOMAIN SymType
  BY DEF Operands, Simple, Joinable, Subject, Compares
<1>1. s \in Tristates /\ Joinable(e1) /\ Joinable(e2) /\ Subject(e2) = s
  BY <1>0 DEF SameSubject, Tristates
<1>2. j = expr_join_or(e1, e2, s) BY DEF Joined
<1>3. /\ val[s].tri \in {0, 1, 2}
      /\ val[s].str = "n" <=> val[s].tri = 0
      /\ val[s].str = "m" <=> val[s].tri = 1
      /\ val[s].str = "y" <=> val[s].tri = 2
      /\ SymType[s] = "BOOLEAN" => val[s].tri # 1
  BY <1>1, ValueByName
<1>4. \A e \in {e1, e2} :
        /\ e.type = "SYMBOL" => OperandValue(e, val) = val[s].tri
        /\ e.type = "EQUAL" /\ e.sym2 \in Plain =>
             OperandValue(e, val) = IF val[s].str = e.sym2 THEN 2 ELSE 0
        /\ e.type = "NOT" /\ e.left.type = "SYMBOL" => OperandValue(e, val) = 2 - val[s].tri
  BY <1>1, OperandMeaning
<1>5. /\ OperandValue(SymbolExpr("y"), val) = 2
      /\ \A c \in {"y", "m", "n"} :
           OperandValue(Comp("UNEQUAL", s, c), val) = IF val[s].str = c THEN 0 ELSE 2
  BY <1>1, ResultValue, ConstantsArePlain
<1> HIDE DEF s, j
<1>6. CASE SymType[s] # "TRISTATE"
  <2>1. IsNegation(e1, e2) /\ j = SymbolExpr("y") BY <1>2, <1>6 DEF expr_join_or, j
  <2>2. \/ e1.type = "NOT" /\ e1.left.type = "SYMBOL" /\ e2.type = "SYMBOL"
        \/ e2.type = "NOT" /\ e2.left.type = "SYMBOL" /\ e1.type = "SYMBOL"
    BY <2>1 DEF IsNegation
  <2>3. val[s].tri = 0 \/ val[s].tri = 2 BY <1>1, <1>3, <1>6 DEF Tristates
  <2>4. OperandValue(j, val) = 2 BY <1>5, <2>1
  <2> QED BY <1>4, <2>2, <2>3, <2>4 DEF TriMax
<1>7. CASE SymType[s] = "TRISTATE"
  <2>1. \/ Against(e1, e2, "EQUAL", {"y", "m"}) /\ j = Comp("UNEQUAL", s, "n")
        \/ Against(e1, e2, "EQUAL", {"y", "n"}) /\ j = Comp("UNEQUAL", s, "m")
        \/ Against(e1, e2, "EQUAL", {"m", "n"}) /\ j = Comp("UNEQUAL", s, "y")
    BY <1>2, <1>7 DEF expr_join_or, j
  <2>2. ASSUME NEW b \in {"y", "m", "n"}, NEW c \in {"y", "m", "n"}, NEW d \in {"y", "m", "n"},
               b # c, d # b, d # c, Against(e1, e2, "EQUAL", {b, c}), j = Comp("UNEQUAL", s, d)
        PROVE  Goal
    <3>1. /\ e1.type = "EQUAL" /\ e2.type = "EQUAL"
          /\ (e1.sym2 = b /\ e2.sym2 = c) \/ (e1.sym2 = c /\ e2.sym2 = b)
      BY <2>2, PairIs DEF Against
    <3>2. val[s].str \in {b, c, d} BY <1>3, <2>2
    <3>3. OperandValue(j, val) = IF val[s].str = d THEN 0 ELSE 2 BY <1>5, <2>2
    <3>4. /\ OperandValue(e1, val) = IF val[s].str = e1.sym2 THEN 2 ELSE 0
          /\ OperandValue(e2, val) = IF val[s].str = e2.sym2 THEN 2 ELSE 0
      BY <1>4, <2>2, <3>1, ConstantsArePlain
    <3> QED BY <2>2, <3>1, <3>2, <3>3, <3>4 DEF TriMax
  <2>3. CASE Against(e1, e2, "EQUAL", {"y", "m"}) /\ j = Comp("UNEQUAL", s, "n") BY <2>2, <2>3
  <2>4. CASE Against(e1, e2, "EQUAL", {"y", "n"}) /\ j = Comp("UNEQUAL", s, "m") BY <2>2, <2>4
  <2>5. CASE Against(e1, e2, "EQUAL", {"m", "n"}) /\ j = Comp("UNEQUAL", s, "y") BY <2>2, <2>5
  <2> QED BY <2>1, <2>3, <2>4, <2>5
<1> QED BY <1>6, <1>7

\* Two operands joined by && have the value of the conjunction.
LEMMA AndIsKept ==
    ASSUME NEW val, IsCalculation(val), NEW e1, NEW e2, SameSubject(e1, e2),
           e1 \in Operands, e2 \in Operands, NoNumber(e1), NoNumber(e2),
           Joined("AND", e1, e2) # NoExpr
    PROVE  OperandValue(Joined("AND", e1, e2), val) = TriMin(OperandValue(e1, val), OperandValue(e2, val))
<1> DEFINE s == Subject(e1)
           j == Joined("AND", e1, e2)
           Goal == OperandValue(j, val) = TriMin(OperandValue(e1, val), OperandValue(e2, val))
           mixed == {p \in {<<e1, e2>>, <<e2, e1>>} : EqualAndNot(p)}
           OfMixed(p) == IF p[1].sym2 # p[2].sym2 THEN p[1] ELSE SymbolExpr("n")
<1> SUFFICES Goal OBVIOUS
<1>0. \A e \in Operands : Joinable(e) => Subject(e) \in DOMAIN SymType
  BY DEF Operands, Simple, Joinable, Subject, Compares
<1>1. s \in Tristates /\ Joinable(e1) /\ Joinable(e2) /\ Subject(e2) = s
  BY <1>0 DEF SameSubject, Tristates
<1>2. j = expr_join_and(e1, e2, s) BY DEF Joined
<1>3. /\ val[s].tri \in {0, 1, 2}
      /\ val[s].str = "n" <=> val[s].tri = 0
      /\ val[s].str = "m" <=> val[s].tri = 1
      /\ val[s].str = "y" <=> val[s].tri = 2
  BY <1>1, ValueByName
<1>4. \A e \in {e1, e2} :
        /\ e.type = "SYMBOL" => OperandValue(e, val) = val[s].tri
        /\ e.type = "EQUAL" /\ e.sym2 \in Plain =>
             OperandValue(e, val) = IF val[s].str = e.sym2 THEN 2 ELSE 0
        /\ e.type = "UNEQUAL" /\ e.sym2 \in Plain =>
             OperandValue(e, val) = IF val[s].str = e.sym2 THEN 0 ELSE 2
  BY <1>1, OperandMeaning
<1>5. /\ OperandValue(SymbolExpr("n"), val) = 0 /\ OperandValue(SymbolExpr(s), val) = val[s].tri
      /\ \A c \in {"y", "m", "n"} :
           OperandValue(Comp("EQUAL", s, c), val) = IF val[s].str = c THEN 2 ELSE 0
  BY <1>1, ResultValue, ConstantsArePlain
<1>6. \/ Beside(e1, e2, "EQUAL", "y") /\ j = Comp("EQUAL", s, "y")
      \/ Beside(e1, e2, "UNEQUAL", "n") /\ j = SymbolExpr(s)
      \/ Beside(e1, e2, "UNEQUAL", "m") /\ j = Comp("EQUAL", s, "y")
      \/ mixed # {} /\ j = OfMixed(CHOOSE p \in mixed : TRUE)
      \/ Against(e1, e2, "UNEQUAL", {"y", "n"}) /\ j = Comp("EQUAL", s, "m")
      \/ Against(e1, e2, "UNEQUAL", {"y", "m"}) /\ j = Comp("EQUAL", s, "n")
      \/ Against(e1, e2, "UNEQUAL", {"m", "n"}) /\ j = Comp("EQUAL", s, "y")
  <2> HIDE DEF s, Goal
  <2> QED BY <1>2 DEF expr_join_and
<1> HIDE DEF s, j
\* A symbol beside a comparison of itself.
<1>7. ASSUME NEW t \in {"EQUAL", "UNEQUAL"}, NEW c \in {"y", "m", "n"}, Beside(e1, e2, t, c)
      PROVE  /\ OperandValue(e1, val) \in {0, 1, 2} /\ OperandValue(e2, val) \in {0, 1, 2}
             /\ TriMin(OperandValue(e1, val), OperandValue(e2, val)) =
                  IF (val[s].str = c) <=> (t = "EQUAL") THEN val[s].tri ELSE 0
  <2>1. PICK p \in {<<e1, e2>>, <<e2, e1>>} : p[1].type = "SYMBOL" /\ p[2].type = t /\ p[2].sym2 = c
    BY <1>7 DEF Beside
  <2>2. p[1] \in {e1, e2} /\ p[2] \in {e1, e2} BY <2>1
  <2>3. /\ OperandValue(p[1], val) = val[s].tri
        /\ OperandValue(p[2], val) = IF (val[s].str = c) <=> (t = "EQUAL") THEN 2 ELSE 0
    BY <1>4, <2>1, <2>2, ConstantsArePlain
  <2>4. CASE p = <<e1, e2>> BY <1>3, <2>3, <2>4 DEF TriMin
  <2>5. CASE p = <<e2, e1>> BY <1>3, <2>3, <2>5 DEF TriMin
  <2> QED BY <2>4, <2>5
<1>8. CASE Beside(e1, e2, "EQUAL", "y") /\ j = Comp("EQUAL", s, "y")
  <2>1. TriMin(OperandValue(e1, val), OperandValue(e2, val)) = IF val[s].str = "y" THEN val[s].tri ELSE 0
    BY <1>7, <1>8
  <2>2. OperandValue(j, val) = IF val[s].str = "y" THEN 2 ELSE 0 BY <1>5, <1>8
  <2> QED BY <1>3, <2>1, <2>2
<1>9. CASE Beside(e1, e2, "UNEQUAL", "n") /\ j = SymbolExpr(s)
  <2>1. TriMin(OperandValue(e1, val), OperandValue(e2, val)) = IF val[s].str = "n" THEN 0 ELSE val[s].tri
    BY <1>7, <1>9
  <2> QED BY <1>3, <1>5, <1>9, <2>1
<1>10. CASE Beside(e1, e2, "UNEQUAL", "m") /\ j = Comp("EQUAL", s, "y")
  <2>1. TriMin(OperandValue(e1, val), OperandValue(e2, val)) = IF val[s].str = "m" THEN 0 ELSE val[s].tri
    BY <1>7, <1>10
  <2>2. OperandValue(j, val) = IF val[s].str = "y" THEN 2 ELSE 0 BY <1>5, <1>10
  <2> QED BY <1>3, <2>1, <2>2
<1>11. CASE mixed # {} /\ j = OfMixed(CHOOSE p \in mixed : TRUE)
  <2>1. PICK p \in mixed : j = OfMixed(p) BY <1>11
  <2>2. /\ p \in {<<e1, e2>>, <<e2, e1>>}
        /\ p[1].type = "EQUAL" /\ p[2].type = "UNEQUAL"
    BY <2>1 DEF EqualAndNot
  <2>3. /\ OperandValue(p[1], val) = IF val[s].str = p[1].sym2 THEN 2 ELSE 0
        /\ OperandValue(p[2], val) = IF val[s].str = p[2].sym2 THEN 0 ELSE 2
    <3>1. p[1] \in {e1, e2} /\ p[2] \in {e1, e2} BY <2>2
    <3>2. \A e \in {e1, e2} : e.type \in {"EQUAL", "UNEQUAL"} => e.sym2 \in DOMAIN SymType
      BY DEF Operands, Simple
    <3>3. p[1].sym2 \in Plain /\ p[2].sym2 \in Plain
      <4>1. IsConstSym(p[1].sym2) /\ IsConstSym(p[2].sym2) BY <2>1 DEF EqualAndNot
      <4>2. NoNumber(p[1]) /\ NoNumber(p[2]) BY <3>1
      <4> QED BY <2>2, <3>1, <3>2, <4>1, <4>2 DEF NoNumber, Plain, IsConstSym
    <3> QED BY <1>4, <2>2, <3>1, <3>3
  <2>4. OperandValue(j, val) = IF p[1].sym2 # p[2].sym2 THEN OperandValue(p[1], val) ELSE 0
    <3>1. CASE p[1].sym2 # p[2].sym2 BY <2>1, <3>1
    <3>2. CASE p[1].sym2 = p[2].sym2 BY <1>5, <2>1, <3>2
    <3> QED BY <3>1, <3>2
  <2>5. OperandValue(j, val) = TriMin(OperandValue(p[1], val), OperandValue(p[2], val))
    BY <2>3, <2>4 DEF TriMin
  <2>6. OperandValue(j, val) = TriMin(OperandValue(p[2], val), OperandValue(p[1], val))
    BY <2>3, <2>4 DEF TriMin
  <2>7. (p[1] = e1 /\ p[2] = e2) \/ (p[1] = e2 /\ p[2] = e1) BY <2>2
  <2> QED BY <2>5, <2>6, <2>7
<1>12. ASSUME NEW b \in {"y", "m", "n"}, NEW c \in {"y", "m", "n"}, NEW d \in {"y", "m", "n"},
              b # c, d # b, d # c, Against(e1, e2, "UNEQUAL", {b, c}), j = Comp("EQUAL", s, d)
       PROVE  Goal
  <2>1. /\ e1.type = "UNEQUAL" /\ e2.type = "UNEQUAL"
        /\ (e1.sym2 = b /\ e2.sym2 = c) \/ (e1.sym2 = c /\ e2.sym2 = b)
    BY <1>12, PairIs DEF Against
  <2>2. val[s].str \in {b, c, d} BY <1>3, <1>12
  <2>3. OperandValue(j, val) = IF val[s].str = d THEN 2 ELSE 0 BY <1>5, <1>12
  <2>4. /\ OperandValue(e1, val) = IF val[s].str = e1.sym2 THEN 0 ELSE 2
        /\ OperandValue(e2, val) = IF val[s].str = e2.sym2 THEN 0 ELSE 2
    BY <1>4, <1>12, <2>1, ConstantsArePlain
  <2> QED BY <1>12, <2>1, <2>2, <2>3, <2>4 DEF TriMin
<1>13. CASE Against(e1, e2, "UNEQUAL", {"y", "n"}) /\ j = Comp("EQUAL", s, "m") BY <1>12, <1>13
<1>14. CASE Against(e1, e2, "UNEQUAL", {"y", "m"}) /\ j = Comp("EQUAL", s, "n") BY <1>12, <1>14
<1>15. CASE Against(e1, e2, "UNEQUAL", {"m", "n"}) /\ j = Comp("EQUAL", s, "y") BY <1>12, <1>15
<1> QED BY <1>6, <1>8, <1>9, <1>10, <1>11, <1>13, <1>14, <1>15

\* Whatever two operands about one symbol are joined into one, the one has
\* the value of their disjunction or conjunction, for every value of every
\* symbol (expr.c, expr_join_or and expr_join_and).  A constant that is a
\* number is no such operand: a tristate is compared with it as a number, so
\* that "a = 2 && a != y" is not "a = 2".
THEOREM JoinKeepsTheValue ==
    ASSUME NEW val, IsCalculation(val), NEW type \in {"AND", "OR"},
           NEW e1 \in Operands, NEW e2 \in Operands, NoNumber(e1), NoNumber(e2),
           Joined(type, e1, e2) # NoExpr
    PROVE  OperandValue(Joined(type, e1, e2), val) =
             IF type = "AND" THEN TriMin(OperandValue(e1, val), OperandValue(e2, val))
                             ELSE TriMax(OperandValue(e1, val), OperandValue(e2, val))
<1>1. SameSubject(e1, e2) BY DEF Joined
<1> QED BY <1>1, AndIsKept, OrIsKept

\* The comparisons, of whatever two symbols.
Comparing == [type : Compares, sym : DOMAIN SymType, sym2 : DOMAIN SymType]

\* A side of a comparison is read as a number or a text.
LEMMA SideIsRead ==
    ASSUME NEW str, NEW type, type # "OTHER"
    PROVE  /\ expr_parse_string(str, type).kind \in {"signed", "unsigned", "string"}
           /\ expr_parse_string(str, type).n \in Int
<1>1. CASE type \in {"BOOLEAN", "TRISTATE"} BY <1>1 DEF expr_parse_string
<1>2. CASE type \notin {"BOOLEAN", "TRISTATE"}
  <2> DEFINE numbers == Number[Base(type)]
             side == IF str \in DOMAIN numbers
                     THEN [kind |-> IF type = "HEX" THEN "unsigned" ELSE "signed", n |-> numbers[str]]
                     ELSE [kind |-> "string", n |-> 0]
  <2>1. expr_parse_string(str, type) = side BY <1>2 DEF expr_parse_string
  <2>2. Base(type) \in {0, 10, 16} BY DEF Base
  <2>3. numbers \in [DOMAIN numbers -> Int] BY <2>2, KOperandAssumption
  <2> HIDE DEF numbers
  <2>4. side.kind \in {"signed", "unsigned", "string"} /\ side.n \in Int BY <2>3
  <2> QED BY <2>1, <2>4
<1> QED BY <1>1, <1>2

\* Every comparison, of numbers, texts or tristates, is negated by its
\* counterpart, and y, m and n by n, m and y (expr.c, expr_transform): the
\* three-valued m is its own negation.
THEOREM NegationKeepsTheValue ==
    ASSUME NEW val, IsCalculation(val)
    PROVE  /\ \A e \in Comparing :
                SymType[e.sym] # "OTHER" /\ SymType[e.sym2] # "OTHER" =>
                  LeafValue(Comp(Negated(e.type), e.sym, e.sym2), val) = TriNot(LeafValue(e, val))
           /\ \A c \in {"y", "m", "n"} : val[NegatedConst(c)].tri = TriNot(val[c].tri)
<1>1. ASSUME NEW t \in Compares, NEW res \in Int PROVE Holds(Negated(t), res) <=> ~Holds(t, res)
  <2>1. CASE res = 0 BY <2>1 DEF Compares, Negated, Holds
  <2>2. CASE res < 0 BY <2>2 DEF Compares, Negated, Holds
  <2>3. CASE res > 0 BY <2>3 DEF Compares, Negated, Holds
  <2> QED BY <2>1, <2>2, <2>3
<1>2. ASSUME NEW t \in Compares, NEW side, NEW order \in Int,
             \A i \in {1, 2} : side[i].kind \in {"signed", "unsigned", "string"} /\ side[i].n \in Int
      PROVE  Compared(Negated(t), side, order) <=> ~Compared(t, side, order)
  <2> DEFINE kinds == {side[i].kind : i \in {1, 2}}
             n(i) == IF "unsigned" \in kinds THEN Unsigned(side[i].n) ELSE side[i].n
             res == IF kinds \cap {"string", "invalid"} # {} THEN order ELSE n(1) - n(2)
  <2>1. "invalid" \notin kinds BY <1>2
  <2>2. n(1) \in Int /\ n(2) \in Int BY <1>2, KOperandAssumption DEF Unsigned
  <2>3. \A u : Compared(u, side, order) <=> Holds(u, res)
    <3> HIDE DEF Holds
    <3> QED BY <2>1 DEF Compared
  <2> HIDE DEF n, kinds
  <2>4. res \in Int BY <2>2
  <2> HIDE DEF res
  <2> QED BY <1>1, <2>3, <2>4
<1>3. ASSUME NEW e \in Comparing, SymType[e.sym] # "OTHER", SymType[e.sym2] # "OTHER"
      PROVE  LeafValue(Comp(Negated(e.type), e.sym, e.sym2), val) = TriNot(LeafValue(e, val))
  <2> DEFINE f == Comp(Negated(e.type), e.sym, e.sym2)
             str == <<val[e.sym].str, val[e.sym2].str>>
             type == <<SymType[e.sym], SymType[e.sym2]>>
             text == type = <<"STRING", "STRING">>
             side == [i \in {1, 2} |-> IF text THEN [kind |-> "string", n |-> 0]
                                       ELSE expr_parse_string(str[i], type[i])]
             order == Rank[str[1]] - Rank[str[2]]
  <2>1. e.type \in Compares /\ e.sym \in DOMAIN SymType /\ e.sym2 \in DOMAIN SymType BY DEF Comparing
  <2>2. /\ f.type = Negated(e.type) /\ f.sym = e.sym /\ f.sym2 = e.sym2
        /\ f.type \in Compares
    BY <2>1 DEF Comp, Compares, Negated
  <2>3. order \in Int
    <3>1. str[1] \in DOMAIN Rank /\ str[2] \in DOMAIN Rank BY <2>1 DEF IsCalculation
    <3>2. Rank[str[1]] \in Int /\ Rank[str[2]] \in Int BY <3>1, KOperandAssumption
    <3> QED BY <3>2
  <2>4. \A i \in {1, 2} : side[i].kind \in {"signed", "unsigned", "string"} /\ side[i].n \in Int
    <3>1. \A i \in {1, 2} : type[i] # "OTHER" BY <1>3
    <3> HIDE DEF type, str
    <3>2. \A i \in {1, 2} : /\ expr_parse_string(str[i], type[i]).kind \in {"signed", "unsigned", "string"}
                             /\ expr_parse_string(str[i], type[i]).n \in Int
      BY <3>1, SideIsRead
    <3> QED BY <3>2
  <2>5. /\ Compare(e, str[1], str[2]) <=> Compared(e.type, side, order)
        /\ Compare(f, str[1], str[2]) <=> Compared(Negated(e.type), side, order)
    <3> HIDE DEF f
    <3> QED BY <2>2 DEF Compare
  <2>6. /\ LeafValue(e, val) = IF Compare(e, str[1], str[2]) THEN 2 ELSE 0
        /\ LeafValue(f, val) = IF Compare(f, str[1], str[2]) THEN 2 ELSE 0
    <3> HIDE DEF f
    <3> QED BY <2>1, <2>2 DEF LeafValue, Compares
  <2> HIDE DEF f, str, side, order
  <2>7. Compared(Negated(e.type), side, order) <=> ~Compared(e.type, side, order)
    BY <1>2, <2>1, <2>3, <2>4
  <2> QED BY <2>5, <2>6, <2>7 DEF f, TriNot
<1>4. \A c \in {"y", "m", "n"} : val[NegatedConst(c)].tri = TriNot(val[c].tri)
  BY DEF IsCalculation, NegatedConst, TriNot
<1> QED BY <1>3, <1>4

\* A comparison of a bool is replaced by the bool, its negation or a constant
\* of the same value (expr.c, expr_transform).
THEOREM BooleanKeepsTheValue ==
    ASSUME NEW val, IsCalculation(val), NEW e \in Comparing
    PROVE  OperandValue(TransformCompare(e), val) = LeafValue(e, val)
<1> DEFINE s == e.sym
           is == e.type = "EQUAL"
           f == TransformCompare(e)
<1>1. CASE f = e
  <2>1. e.type # "NOT" BY DEF Comparing, Compares
  <2> QED BY <1>1, <2>1 DEF OperandValue
<1>2. CASE f # e
  <2>1. e.type \in {"EQUAL", "UNEQUAL"} /\ SymType[s] = "BOOLEAN" /\ e.sym2 \in {"y", "m", "n"}
    BY <1>2 DEF TransformCompare
  <2>2. s \in Tristates BY <2>1 DEF Tristates, Comparing
  <2>3. LeafValue(e, val) = IF (val[s].str = e.sym2) <=> is THEN 2 ELSE 0
    BY <2>1, <2>2, ComparedByName, ConstantsArePlain
  <2>4. \/ val[s].tri = 0 /\ val[s].str = "n"
        \/ val[s].tri = 2 /\ val[s].str = "y"
    BY <2>1, <2>2, ValueByName
  <2>5. /\ OperandValue(SymbolExpr(s), val) = val[s].tri
        /\ OperandValue(SymbolExpr("y"), val) = 2 /\ OperandValue(SymbolExpr("n"), val) = 0
    BY <2>2, ResultValue
  <2>6. OperandValue(Not(SymbolExpr(s)), val) = 2 - val[s].tri
    BY DEF OperandValue, LeafValue, Not, SymbolExpr, TriNot
  <2>7. CASE e.sym2 = "m"
    <3>1. f = SymbolExpr(IF is THEN "n" ELSE "y") BY <2>1, <2>7 DEF TransformCompare
    <3> QED BY <2>3, <2>4, <2>5, <2>7, <3>1
  <2>8. CASE e.sym2 = (IF is THEN "n" ELSE "y")
    <3>1. f = Not(SymbolExpr(s)) BY <2>1, <2>8 DEF TransformCompare
    <3> QED BY <2>3, <2>4, <2>6, <2>8, <3>1
  <2>9. CASE e.sym2 = (IF is THEN "y" ELSE "n")
    <3>1. f = SymbolExpr(s) BY <2>1, <2>9 DEF TransformCompare
    <3> QED BY <2>3, <2>4, <2>5, <2>9, <3>1
  <2> QED BY <2>1, <2>7, <2>8, <2>9
<1> QED BY <1>1, <1>2

\* Absorbing constants keeps the value, in whatever way expressions are given
\* values, as long as && is the minimum and || the maximum: what is absorbed
\* may be a tree (expr.c, expr_eliminate_yn).
THEOREM AbsorptionKeepsTheValue ==
    ASSUME NEW Exprs, NEW V \in [Exprs -> 0..2], NEW type \in {"AND", "OR"},
           NEW l \in Exprs, NEW r \in Exprs, Two(type, l, r) \in Exprs,
           SymbolExpr("y") \in Exprs, SymbolExpr("n") \in Exprs,
           V[SymbolExpr("y")] = 2, V[SymbolExpr("n")] = 0,
           V[Two(type, l, r)] = IF type = "AND" THEN TriMin(V[l], V[r]) ELSE TriMax(V[l], V[r]),
           \A e \in Exprs, c \in {"y", "n"} : IsConst(e, c) => V[e] = V[SymbolExpr(c)]
    PROVE  V[Absorbed(type, l, r)] = V[Two(type, l, r)]
<1>1. V[l] \in {0, 1, 2} /\ V[r] \in {0, 1, 2} OBVIOUS
<1>2. \A e \in {l, r} : (IsConst(e, "y") => V[e] = 2) /\ (IsConst(e, "n") => V[e] = 0)
  OBVIOUS
<1>3. CASE type = "AND"
  <2>1. \/ IsConst(l, "n") /\ Absorbed(type, l, r) = SymbolExpr("n")
        \/ IsConst(l, "y") /\ Absorbed(type, l, r) = r
        \/ IsConst(r, "n") /\ Absorbed(type, l, r) = SymbolExpr("n")
        \/ IsConst(r, "y") /\ Absorbed(type, l, r) = l
        \/ Absorbed(type, l, r) = Two(type, l, r)
    BY <1>3 DEF Absorbed
  <2> QED BY <1>1, <1>2, <1>3, <2>1 DEF TriMin
<1>4. CASE type = "OR"
  <2>1. \/ IsConst(l, "y") /\ Absorbed(type, l, r) = SymbolExpr("y")
        \/ IsConst(l, "n") /\ Absorbed(type, l, r) = r
        \/ IsConst(r, "y") /\ Absorbed(type, l, r) = SymbolExpr("y")
        \/ IsConst(r, "n") /\ Absorbed(type, l, r) = l
        \/ Absorbed(type, l, r) = Two(type, l, r)
    BY <1>4 DEF Absorbed
  <2> QED BY <1>1, <1>2, <1>4, <2>1 DEF TriMax
<1> QED BY <1>3, <1>4

-----------------------------------------------------------------------------
(* Functions defined by recursion on a measure.                            *)

\* The order of the numbers is well founded.
LEMMA NatLess == IsWellFoundedOn({p \in Nat \X Nat : p[1] < p[2]}, Nat)
<1>1. {p \in Nat \X Nat : p[1] < p[2]} = OpToRel(<, Nat) BY DEF OpToRel
<1> QED BY <1>1, NatLessThanWellFounded

\* A set of numbers has a smallest one.
LEMMA SmallestNat ==
    ASSUME NEW S \in SUBSET Nat, S # {}
    PROVE  \E i \in S : \A j \in S : i <= j
<1> DEFINE R == {p \in Nat \X Nat : p[1] < p[2]}
<1>1. IsWellFoundedOn(R, Nat) BY NatLess
<1>2. \E i \in S : \A j \in S : ~ (<<j, i>> \in R)
  <2> HIDE DEF R
  <2> QED BY <1>1, WFMin
<1>3. PICK i \in S : \A j \in S : ~ (<<j, i>> \in R) BY <1>2
<1>4. \A j \in S : ~ (j < i) BY <1>3
<1> QED BY <1>3, <1>4

\* What holds of x when it holds of all that mu measures less, holds of all.
LEMMA MeasureInduction ==
    ASSUME NEW D, NEW mu, \A x \in D : mu[x] \in Nat, NEW P,
           \A x \in D : (\A y \in D : mu[y] < mu[x] => y \in P) => x \in P
    PROVE  D \subseteq P
<1> DEFINE bad == {x \in D : x \notin P}
           S == {mu[x] : x \in bad}
<1>1. ASSUME NEW a \in D, a \notin P PROVE FALSE
  <2>1. S \in SUBSET Nat OBVIOUS
  <2>2. mu[a] \in S BY <1>1
  <2> HIDE DEF S
  <2>3. PICK i \in S : \A j \in S : i <= j BY <2>1, <2>2, SmallestNat
  <2>4. PICK x \in bad : i = mu[x] BY <2>3 DEF S
  <2>5. \A y \in bad : mu[y] \in S BY DEF S
  <2>6. ASSUME NEW y \in D, mu[y] < mu[x] PROVE y \in P
    <3>1. CASE y \in bad
      <4>1. mu[x] <= mu[y] BY <2>3, <2>4, <2>5, <3>1
      <4>2. mu[x] \in Nat /\ mu[y] \in Nat BY <2>4
      <4> QED BY <2>6, <4>1, <4>2
    <3> QED BY <3>1
  <2> QED BY <2>4, <2>6
<1> QED BY <1>1

\* The functions of D that take values of Val.
Choices(D, Val) == [D -> UNION {Val[x] : x \in D}]

\* What B makes of a function and an argument depends only on the values of
\* the function for what mu measures less, and is right when these are.
IsBody(D, mu, Val, B) ==
    /\ \A x \in D : mu[x] \in Nat /\ Val[x] # {}
    /\ \A g \in Choices(D, Val), x \in D :
         (\A y \in D : mu[y] < mu[x] => g[y] \in Val[y]) => B[g][x] \in Val[x]
    /\ \A g \in Choices(D, Val), h \in Choices(D, Val), x \in D :
         (\A y \in D : mu[y] < mu[x] => g[y] = h[y] /\ g[y] \in Val[y]) => B[g][x] = B[h][x]

\* Then there is a function that is defined by B.
LEMMA Recursion ==
    ASSUME NEW D, NEW mu, NEW Val, NEW B, IsBody(D, mu, Val, B)
    PROVE  \E f \in Choices(D, Val) : \A x \in D : f[x] = B[f][x] /\ f[x] \in Val[x]
<1> DEFINE G == Choices(D, Val)
<1>0. /\ \A x \in D : mu[x] \in Nat /\ Val[x] # {}
      /\ \A g \in G, x \in D :
           (\A y \in D : mu[y] < mu[x] => g[y] \in Val[y]) => B[g][x] \in Val[x]
      /\ \A g \in G, h \in G, x \in D :
           (\A y \in D : mu[y] < mu[x] => g[y] = h[y] /\ g[y] \in Val[y]) => B[g][x] = B[h][x]
  BY DEF IsBody
<1>00. G = [D -> UNION {Val[x] : x \in D}] BY DEF Choices
<1> HIDE DEF G
<1> DEFINE V == UNION {Val[x] : x \in D}
           F(g, x) == IF B[g][x] \in Val[x] THEN B[g][x] ELSE CHOOSE v : v \in Val[x]
           Good(g, n) == g \in G /\ \A x \in D : mu[x] < n => g[x] = F(g, x)
<1> USE <1>0, <1>00
<1>1. ASSUME NEW g \in G, NEW x \in D PROVE F(g, x) \in Val[x] OBVIOUS
<1>2. ASSUME NEW g \in G, NEW h \in G, NEW x \in D,
             \A y \in D : mu[y] < mu[x] => g[y] = h[y] /\ g[y] \in Val[y]
      PROVE  F(g, x) = F(h, x)
  BY <1>2
<1>3. \A x \in D : Val[x] \subseteq V OBVIOUS
<1> HIDE DEF F, V
\* A function can be good for all that is measured less than n.
<1>4. ASSUME NEW n \in Nat PROVE \E g : Good(g, n)
  <2> DEFINE P == {k \in Nat : \E g : Good(g, k)}
             id == [k \in Nat |-> k]
  <2>1. ASSUME NEW k \in Nat, \A j \in Nat : id[j] < id[k] => j \in P PROVE k \in P
    <3>1. CASE k = 0
      <4> DEFINE g == [x \in D |-> CHOOSE v : v \in Val[x]]
      <4>1. g \in [D -> V] BY <1>3
      <4>2. \A x \in D : ~(mu[x] < 0) OBVIOUS
      <4>3. Good(g, 0) BY <4>1, <4>2 DEF V
      <4> QED BY <3>1, <4>3
    <3>2. CASE k # 0
      <4>1. k - 1 \in Nat /\ k - 1 < k BY <3>2
      <4>2. PICK g : Good(g, k - 1) BY <2>1, <4>1
      <4> DEFINE h == [x \in D |-> F(g, x)]
      <4>3. h \in G
        <5>1. h \in [D -> V] BY <1>1, <1>3, <4>2
        <5> QED BY <5>1 DEF V
      <4>4. ASSUME NEW x \in D, mu[x] < k PROVE h[x] = F(h, x)
        <5>1. ASSUME NEW y \in D, mu[y] < mu[x] PROVE g[y] = h[y] /\ g[y] \in Val[y]
          <6>1. mu[y] < k - 1
            <7>1. mu[y] \in Nat /\ mu[x] \in Nat OBVIOUS
            <7> QED BY <4>4, <5>1, <7>1
          <6>2. g[y] = F(g, y) BY <4>2, <6>1
          <6> QED BY <1>1, <4>2, <6>2
        <5>2. F(g, x) = F(h, x) BY <1>2, <4>2, <4>3, <5>1
        <5> QED BY <5>2
      <4>5. Good(h, k) BY <4>3, <4>4
      <4> QED BY <4>5
    <3> QED BY <3>1, <3>2
  <2>2. \A j \in Nat : id[j] \in Nat OBVIOUS
  <2> HIDE DEF P, id
  <2>3. \A k \in Nat : (\A j \in Nat : id[j] < id[k] => j \in P) => k \in P BY <2>1
  <2>4. Nat \subseteq P
    <3> DEFINE N == Nat
    <3>1. \A j \in N : id[j] \in Nat BY <2>2
    <3>2. \A k \in N : (\A j \in N : id[j] < id[k] => j \in P) => k \in P BY <2>3
    <3> HIDE DEF N
    <3>3. N \subseteq P BY <3>1, <3>2, MeasureInduction
    <3> QED BY <3>3 DEF N
  <2> QED BY <2>4 DEF P
\* Two of them are the same there.
<1>5. ASSUME NEW n \in Nat, NEW g, NEW h, Good(g, n), Good(h, n)
      PROVE  \A x \in D : mu[x] < n => g[x] = h[x]
  <2> DEFINE P == {x \in D : mu[x] < n => g[x] = h[x]}
  <2>1. ASSUME NEW x \in D, \A y \in D : mu[y] < mu[x] => y \in P PROVE x \in P
    <3> SUFFICES ASSUME mu[x] < n PROVE g[x] = h[x] OBVIOUS
    <3>1. ASSUME NEW y \in D, mu[y] < mu[x] PROVE g[y] = h[y] /\ g[y] \in Val[y]
      <4>1. mu[y] < n
        <5>1. mu[y] \in Nat /\ mu[x] \in Nat OBVIOUS
        <5> QED BY <3>1, <5>1
      <4>2. g[y] = F(g, y) BY <1>5, <4>1
      <4> QED BY <1>1, <1>5, <2>1, <3>1, <4>1, <4>2
    <3>2. F(g, x) = F(h, x) BY <1>2, <1>5, <3>1
    <3> QED BY <1>5, <3>2
  <2> HIDE DEF P
  <2>2. D \subseteq P BY <2>1, MeasureInduction
  <2> QED BY <2>2 DEF P
<1> DEFINE best(x) == CHOOSE g : Good(g, mu[x] + 1)
           f == [x \in D |-> best(x)[x]]
<1>6. ASSUME NEW x \in D PROVE Good(best(x), mu[x] + 1)
  <2>1. mu[x] + 1 \in Nat OBVIOUS
  <2> HIDE DEF Good
  <2> QED BY <1>4, <2>1
<1>7. ASSUME NEW x \in D PROVE best(x)[x] = F(best(x), x) /\ best(x) \in G
  <2>1. mu[x] < mu[x] + 1 OBVIOUS
  <2> QED BY <1>6, <2>1
<1>8. f \in G
  <2> HIDE DEF best
  <2>1. ASSUME NEW x \in D PROVE best(x)[x] \in V
    <3>1. F(best(x), x) \in Val[x] BY <1>1, <1>7
    <3>2. best(x)[x] = F(best(x), x) BY <1>7
    <3> QED BY <1>3, <3>1, <3>2
  <2>2. f \in [D -> V] BY <2>1
  <2> QED BY <2>2 DEF V
<1>9. ASSUME NEW x \in D PROVE f[x] = F(f, x)
  <2>0. \A y \in D : f[y] = best(y)[y]
    <3> HIDE DEF best
    <3> QED OBVIOUS
  <2>1. ASSUME NEW y \in D, mu[y] < mu[x] PROVE f[y] = best(x)[y] /\ f[y] \in Val[y]
    <3>1. mu[y] \in Nat /\ mu[x] \in Nat OBVIOUS
    <3>2. Good(best(x), mu[y] + 1)
      <4>1. Good(best(x), mu[x] + 1) BY <1>6
      <4>2. \A z \in D : mu[z] < mu[y] + 1 => mu[z] < mu[x] + 1
        <5> TAKE z \in D
        <5>1. mu[z] \in Nat OBVIOUS
        <5> QED BY <2>1, <3>1, <5>1
      <4> HIDE DEF best
      <4> QED BY <4>1, <4>2
    <3>3. Good(best(y), mu[y] + 1) BY <1>6
    <3>4. mu[y] < mu[y] + 1 /\ mu[y] + 1 \in Nat BY <3>1
    <3>5. best(x)[y] = best(y)[y]
      <4> HIDE DEF best, Good
      <4> QED BY <1>5, <3>2, <3>3, <3>4
    <3> HIDE DEF best, f
    <3>6. F(best(y), y) \in Val[y] BY <1>1, <1>7
    <3>7. f[y] = F(best(y), y) BY <1>7, <2>0
    <3> QED BY <2>0, <3>5, <3>6, <3>7
  <2>2. best(x) \in G BY <1>7
  <2>3. F(f, x) = F(best(x), x)
    <3> HIDE DEF f, best
    <3> QED BY <1>2, <1>8, <2>1, <2>2
  <2> QED BY <1>7, <2>3
<1> HIDE DEF f
\* And it takes the values of the body.
<1>10. ASSUME NEW x \in D PROVE f[x] \in Val[x] BY <1>1, <1>8, <1>9
<1>11. ASSUME NEW x \in D PROVE f[x] = B[f][x] BY <1>8, <1>9, <1>10 DEF F
<1> QED BY <1>8, <1>10, <1>11 DEF G

-----------------------------------------------------------------------------
(* The expressions.                                                        *)

Atom == Symbols \cup Comparings

\* Those that nest i deep, made of those that nest less.
Layer(g, i) ==
    LET Part == g[i - 1]
    IN  Symbols \cup Comparings \cup [type : {"NOT"}, left : Symbols]
          \cup IF i = 0 THEN {}
               ELSE [type : {"NOT"}, left : Part] \cup [type : {"AND", "OR"}, left : Part, right : Part]
IsTower(g, n) == g = [i \in 0..n |-> Layer(g, i)]

\* A tower has a next layer.
LEMMA TowerGrows ==
    ASSUME NEW n \in Nat, NEW g, IsTower(g, n)
    PROVE  \E h : IsTower(h, n + 1)
<1> DEFINE h == [i \in 0..(n + 1) |-> IF i = n + 1 THEN Layer(g, n + 1) ELSE g[i]]
<1>1. DOMAIN h = 0..(n + 1) /\ h[n + 1] = Layer(g, n + 1) OBVIOUS
<1>2. \A i \in 0..n : h[i] = g[i] /\ g[i] = Layer(g, i)
  <2> TAKE i \in 0..n
  <2>1. i \in 0..(n + 1) /\ i # n + 1 OBVIOUS
  <2>2. h[i] = g[i] BY <2>1
  <2> HIDE DEF h
  <2> QED BY <2>2 DEF IsTower
<1>3. h = [i \in 0..(n + 1) |-> h[i]] OBVIOUS
<1> HIDE DEF h
<1>4. ASSUME NEW i \in 0..(n + 1) PROVE h[i] = Layer(h, i)
  <2>1. i = 0 \/ h[i - 1] = g[i - 1]
    <3>1. i = 0 \/ i - 1 \in 0..n OBVIOUS
    <3> QED BY <1>2, <3>1
  <2>2. h[i] = Layer(g, i)
    <3>1. i = n + 1 \/ i \in 0..n OBVIOUS
    <3> QED BY <1>1, <1>2, <3>1
  <2> QED BY <2>1, <2>2 DEF Layer
<1>5. IsTower(h, n + 1) BY <1>3, <1>4 DEF IsTower
<1> QED BY <1>5

\* Induction over Nat, of a set.
LEMMA Induction ==
    ASSUME NEW P, 0 \in P, \A n \in Nat : n \in P => n + 1 \in P
    PROVE  Nat \subseteq P
<1> DEFINE bad == {n \in Nat : n \notin P}
<1>1. ASSUME bad # {} PROVE FALSE
  <2>1. bad \in SUBSET Nat OBVIOUS
  <2> HIDE DEF bad
  <2>2. PICK n \in bad : \A j \in bad : n <= j BY <1>1, <2>1, SmallestNat
  <2>3. n \in Nat /\ n \notin P /\ n # 0 BY <2>2 DEF bad
  <2>4. n - 1 \in Nat /\ n - 1 \notin bad BY <2>2, <2>3
  <2>5. n - 1 \in P BY <2>4 DEF bad
  <2>6. (n - 1) + 1 = n BY <2>3
  <2> QED BY <2>3, <2>4, <2>5, <2>6
<1> QED BY <1>1

\* There are towers of every height.
LEMMA TowerExists == \A n \in Nat : \E g : IsTower(g, n)
<1> DEFINE P == {n \in Nat : \E g : IsTower(g, n)}
<1>1. 0 \in P
  <2> DEFINE g == [i \in 0..0 |-> Layer(<<>>, 0)]
  <2>1. \A h : Layer(h, 0) = Layer(<<>>, 0) BY DEF Layer
  <2>2. g = [i \in 0..0 |-> Layer(g, i)]
    <3>1. \A i \in 0..0 : i = 0 OBVIOUS
    <3>2. \A i \in 0..0 : Layer(g, i) = Layer(<<>>, 0) BY <2>1, <3>1
    <3> QED BY <3>2
  <2>3. IsTower(g, 0) BY <2>2 DEF IsTower
  <2> QED BY <2>3
<1>2. ASSUME NEW n \in Nat, n \in P PROVE n + 1 \in P
  BY <1>2, TowerGrows
<1> HIDE DEF P
<1>3. Nat \subseteq P BY <1>1, <1>2, Induction
<1> QED BY <1>3 DEF P

\* Two towers are the same up to the height of the lower.
LEMMA TowersAgree ==
    ASSUME NEW n \in Nat, NEW m \in Nat, NEW g, NEW h, IsTower(g, n), IsTower(h, m)
    PROVE  \A i \in Nat : i <= n /\ i <= m => g[i] = h[i]
<1> DEFINE P == {i \in Nat : i <= n /\ i <= m => g[i] = h[i]}
<1>1. 0 \in P
  <2>1. 0 \in 0..n /\ 0 \in 0..m OBVIOUS
  <2>2. g[0] = Layer(g, 0) /\ h[0] = Layer(h, 0) BY <2>1 DEF IsTower
  <2> QED BY <2>2 DEF Layer
<1>2. ASSUME NEW i \in Nat, i \in P PROVE i + 1 \in P
  <2> SUFFICES ASSUME i + 1 <= n, i + 1 <= m PROVE g[i + 1] = h[i + 1] OBVIOUS
  <2>1. i + 1 \in 0..n /\ i + 1 \in 0..m /\ i <= n /\ i <= m OBVIOUS
  <2>2. g[i + 1] = Layer(g, i + 1) /\ h[i + 1] = Layer(h, i + 1) BY <2>1 DEF IsTower
  <2>3. (i + 1) - 1 = i OBVIOUS
  <2>4. g[i] = h[i] BY <1>2, <2>1
  <2>5. Layer(g, i + 1) = Layer(h, i + 1) BY <2>3, <2>4 DEF Layer
  <2> QED BY <2>2, <2>5
<1> HIDE DEF P
<1>3. Nat \subseteq P BY <1>1, <1>2, Induction
<1> QED BY <1>3 DEF P

\* Nested is the tower without an end.
LEMMA NestedIsLayer == Nested = [n \in Nat |-> Layer(Nested, n)]
<1> DEFINE tower(n) == CHOOSE g : IsTower(g, n)
           f == [n \in Nat |-> tower(n)[n]]
<1>1. ASSUME NEW n \in Nat PROVE IsTower(tower(n), n) BY TowerExists
<1>2. ASSUME NEW n \in Nat PROVE f[n] = Layer(f, n)
  <2> HIDE DEF tower
  <2>1. f[n] = tower(n)[n] OBVIOUS
  <2>2. tower(n)[n] = Layer(tower(n), n) BY <1>1 DEF IsTower
  <2>3. n = 0 \/ f[n - 1] = tower(n)[n - 1]
    <3> SUFFICES ASSUME n # 0 PROVE f[n - 1] = tower(n)[n - 1] OBVIOUS
    <3>1. n - 1 \in Nat /\ n - 1 <= n - 1 /\ n - 1 <= n OBVIOUS
    <3>2. f[n - 1] = tower(n - 1)[n - 1] BY <3>1
    <3>3. IsTower(tower(n - 1), n - 1) /\ IsTower(tower(n), n) BY <1>1, <3>1
    <3> HIDE DEF f
    <3>4. tower(n - 1)[n - 1] = tower(n)[n - 1] BY <3>1, <3>3, TowersAgree
    <3> QED BY <3>2, <3>4
  <2> HIDE DEF f
  <2>4. Layer(tower(n), n) = Layer(f, n) BY <2>3 DEF Layer
  <2> QED BY <2>1, <2>2, <2>4
<1>3. f = [n \in Nat |-> Layer(f, n)]
  <2>1. f = [n \in Nat |-> f[n]] OBVIOUS
  <2> HIDE DEF f
  <2> QED BY <1>2, <2>1
<1> HIDE DEF f
<1>4. \E g : g = [n \in Nat |-> Layer(g, n)] BY <1>3
<1>5. Nested = CHOOSE g : g = [n \in Nat |-> Layer(g, n)] BY DEF Nested, Layer
<1> QED BY <1>4, <1>5

\* What nests n deep is a leaf, or made of what nests less than n deep.
LEMMA NestedIs ==
    ASSUME NEW n \in Nat, NEW x
    PROVE  x \in Nested[n] <=>
             \/ x \in Atom
             \/ \E y \in Symbols : x = Not(y)
             \/ n # 0 /\ \E y \in Nested[n - 1] : x = Not(y)
             \/ n # 0 /\ \E t \in {"AND", "OR"}, y \in Nested[n - 1], z \in Nested[n - 1] : x = Two(t, y, z)
<1>1. Nested[n] = Layer(Nested, n) BY NestedIsLayer
<1>2. ASSUME NEW S PROVE x \in [type : {"NOT"}, left : S] <=> \E y \in S : x = Not(y)
  BY DEF Not
<1>3. ASSUME NEW S
      PROVE x \in [type : {"AND", "OR"}, left : S, right : S] <=>
              \E t \in {"AND", "OR"}, y \in S, z \in S : x = Two(t, y, z)
  BY DEF Two
<1>4. x \in Layer(Nested, n) <=>
        \/ x \in Atom
        \/ x \in [type : {"NOT"}, left : Symbols]
        \/ n # 0 /\ x \in [type : {"NOT"}, left : Nested[n - 1]]
        \/ n # 0 /\ x \in [type : {"AND", "OR"}, left : Nested[n - 1], right : Nested[n - 1]]
  BY DEF Layer, Atom
<1> QED BY <1>1, <1>2, <1>3, <1>4

\* What nests n deep also nests n + 1 deep.
LEMMA NestedGrows == \A n \in Nat : Nested[n] \subseteq Nested[n + 1]
<1> DEFINE P == {n \in Nat : Nested[n] \subseteq Nested[n + 1]}
<1>1. 0 \in P
  <2>1. ASSUME NEW x \in Nested[0] PROVE x \in Nested[0 + 1]
    <3>1. x \in Atom \/ \E y \in Symbols : x = Not(y) BY NestedIs
    <3>2. 0 + 1 \in Nat OBVIOUS
    <3> QED BY <3>1, <3>2, NestedIs
  <2> QED BY <2>1
<1>2. ASSUME NEW n \in Nat, n \in P PROVE n + 1 \in P
  <2>1. Nested[n] \subseteq Nested[n + 1] BY <1>2
  <2>2. ASSUME NEW x \in Nested[n + 1] PROVE x \in Nested[(n + 1) + 1]
    <3>1. n + 1 \in Nat /\ (n + 1) - 1 = n /\ n + 1 # 0 OBVIOUS
    <3>2. (n + 1) + 1 \in Nat /\ ((n + 1) + 1) - 1 = n + 1 /\ (n + 1) + 1 # 0 OBVIOUS
    <3>3. \/ x \in Atom
          \/ \E y \in Symbols : x = Not(y)
          \/ \E y \in Nested[n] : x = Not(y)
          \/ \E t \in {"AND", "OR"}, y \in Nested[n], z \in Nested[n] : x = Two(t, y, z)
      BY <3>1, NestedIs
    <3>4. \/ x \in Atom
          \/ \E y \in Symbols : x = Not(y)
          \/ \E y \in Nested[n + 1] : x = Not(y)
          \/ \E t \in {"AND", "OR"}, y \in Nested[n + 1], z \in Nested[n + 1] : x = Two(t, y, z)
      BY <2>1, <3>3
    <3> QED BY <3>2, <3>4, NestedIs
  <2> QED BY <2>2
<1> HIDE DEF P
<1>3. Nat \subseteq P BY <1>1, <1>2, Induction
<1> QED BY <1>3 DEF P

\* And any depth above n.
LEMMA NestedMonotone ==
    ASSUME NEW m \in Nat, NEW n \in Nat, m <= n
    PROVE  Nested[m] \subseteq Nested[n]
<1> DEFINE P == {k \in Nat : Nested[m] \subseteq Nested[m + k]}
<1>1. 0 \in P
  <2>1. m + 0 = m OBVIOUS
  <2> QED BY <2>1
<1>2. ASSUME NEW k \in Nat, k \in P PROVE k + 1 \in P
  <2>1. m + k \in Nat /\ (m + k) + 1 = m + (k + 1) OBVIOUS
  <2> QED BY <1>2, <2>1, NestedGrows
<1> HIDE DEF P
<1>3. Nat \subseteq P BY <1>1, <1>2, Induction
<1>4. n - m \in Nat /\ m + (n - m) = n OBVIOUS
<1> QED BY <1>3, <1>4 DEF P

\* An operand, a negation or two expressions.
LEMMA Parts ==
    ASSUME NEW n \in Nat, NEW x \in Nested[n]
    PROVE  /\ x \in Atom \/ x.type = "NOT" \/ IsTwo(x)
           /\ x \in Atom => x.type \in Compares \cup {"SYMBOL"}
           /\ x.type = "NOT" => /\ x = Not(x.left) /\ x.left \in Nested[n]
                                /\ x.left \in Symbols \/ (n # 0 /\ x.left \in Nested[n - 1])
           /\ IsTwo(x) => /\ x = Two(x.type, x.left, x.right) /\ n # 0
                          /\ x.left \in Nested[n - 1] /\ x.right \in Nested[n - 1]
                          /\ x.left \in Nested[n] /\ x.right \in Nested[n]
           /\ x # NoExpr /\ x.type # "NONE"
<1>1. n # 0 => n - 1 \in Nat /\ (n - 1) + 1 = n OBVIOUS
<1>2. n # 0 => Nested[n - 1] \subseteq Nested[n] BY <1>1, NestedGrows
<1>3. ASSUME NEW y \in Symbols PROVE y \in Nested[n] BY NestedIs DEF Atom
<1>4. \A y : Not(y).type = "NOT" /\ Not(y).left = y BY DEF Not
<1>5. \A t, y, z : Two(t, y, z).type = t /\ Two(t, y, z).left = y /\ Two(t, y, z).right = z BY DEF Two
<1>6. x \in Atom => x.type \in Compares \cup {"SYMBOL"}
  BY DEF Atom, Symbols, Comparings, Compares
<1>7. NoExpr.type = "NONE" BY DEF NoExpr
<1> USE DEF IsTwo
<1>8. CASE x \in Atom BY <1>6, <1>7, <1>8 DEF Compares
<1>9. CASE \E y \in Symbols : x = Not(y) BY <1>3, <1>4, <1>7, <1>9, <1>6 DEF Compares
<1>10. CASE n # 0 /\ \E y \in Nested[n - 1] : x = Not(y) BY <1>2, <1>4, <1>6, <1>7, <1>10 DEF Compares
<1>11. CASE n # 0 /\ \E t \in {"AND", "OR"}, y \in Nested[n - 1], z \in Nested[n - 1] : x = Two(t, y, z)
  BY <1>2, <1>5, <1>6, <1>7, <1>11 DEF Compares
<1> QED BY <1>8, <1>9, <1>10, <1>11, NestedIs

\* What they are made of may be exchanged.
LEMMA Built ==
    ASSUME NEW n \in Nat
    PROVE  /\ Atom \subseteq Nested[n]
           /\ \A y \in Symbols : Not(y) \in Nested[n]
           /\ \A y \in Nested[n] : Not(y) \in Nested[n + 1]
           /\ \A t \in {"AND", "OR"}, y \in Nested[n], z \in Nested[n] : Two(t, y, z) \in Nested[n + 1]
<1>1. n + 1 \in Nat /\ (n + 1) - 1 = n /\ n + 1 # 0 OBVIOUS
<1>2. \A x \in Atom : x \in Nested[n] BY NestedIs
<1>3. \A y \in Symbols : Not(y) \in Nested[n] BY NestedIs
<1>4. \A y \in Nested[n] : Not(y) \in Nested[n + 1] BY <1>1, NestedIs
<1>5. \A t \in {"AND", "OR"}, y \in Nested[n], z \in Nested[n] : Two(t, y, z) \in Nested[n + 1]
  <2> TAKE t \in {"AND", "OR"}, y \in Nested[n], z \in Nested[n]
  <2> QED BY <1>1, NestedIs
<1> QED BY <1>2, <1>3, <1>4, <1>5

\* How deep an expression nests; a negation counts half.
IsDepth(x, n) == x \in Nested[n] /\ \A k \in Nat : x \in Nested[k] => n <= k
Height(x) == IF x = NoExpr THEN 0
             ELSE 2 * (CHOOSE n \in Nat : IsDepth(x, n)) + (IF x.type = "NOT" THEN 1 ELSE 0)

\* An expression that nests has a least depth, which gives its height.
LEMMA DepthExists ==
    ASSUME NEW n \in Nat, NEW x \in Nested[n]
    PROVE  \E d \in Nat : IsDepth(x, d) /\ Height(x) = 2 * d + (IF x.type = "NOT" THEN 1 ELSE 0)
<1> DEFINE S == {k \in Nat : x \in Nested[k]}
<1>1. S \in SUBSET Nat /\ n \in S OBVIOUS
<1>2. PICK d \in S : \A k \in S : d <= k
  <2> HIDE DEF S
  <2> QED BY <1>1, SmallestNat
<1>3. \E k \in Nat : IsDepth(x, k) BY <1>2 DEF IsDepth
<1>4. x # NoExpr BY Parts
<1> QED BY <1>3, <1>4 DEF Height

Top == MaxOperands + 1

\* Expressions nest up to MaxOperands + 1 deep.
LEMMA TopNat == Top \in Nat /\ Expr = {NoExpr} \cup Nested[Top] /\ Top - 1 \in Nat /\ Top # 0
  BY KExprAssumption DEF Expr, Top

\* The height of an expression is a number: recursions over it end.
LEMMA HeightNat == \A x \in Expr : Height(x) \in Nat
<1> TAKE x \in Expr
<1>1. CASE x = NoExpr BY <1>1 DEF Height
<1>2. CASE x # NoExpr
  <2>1. x \in Nested[Top] BY <1>2, TopNat
  <2>2. PICK d \in Nat : Height(x) = 2 * d + (IF x.type = "NOT" THEN 1 ELSE 0)
    BY <2>1, TopNat, DepthExists
  <2> QED BY <2>2
<1> QED BY <1>1, <1>2

\* The parts of an expression are expressions, and less high.
LEMMA PartsOf ==
    ASSUME NEW x \in Expr
    PROVE  /\ x = NoExpr \/ x \in Atom \/ x.type = "NOT" \/ IsTwo(x)
           /\ x.type = "NONE" <=> x = NoExpr
           /\ x \in Atom => x.type \in Compares \cup {"SYMBOL"}
           /\ x.type = "NOT" => /\ x = Not(x.left) /\ x.left \in Expr /\ x.left # NoExpr
                                /\ Height(x.left) < Height(x)
           /\ IsTwo(x) => /\ x = Two(x.type, x.left, x.right)
                          /\ x.left \in Expr /\ x.left # NoExpr /\ Height(x.left) < Height(x)
                          /\ x.right \in Expr /\ x.right # NoExpr /\ Height(x.right) < Height(x)
<1>1. CASE x = NoExpr
  <2>1. x.type = "NONE" BY <1>1 DEF NoExpr
  <2>2. x \notin Atom BY <2>1 DEF Atom, Symbols, Comparings, Compares
  <2> QED BY <1>1, <2>1, <2>2 DEF IsTwo
<1>2. CASE x # NoExpr
  <2>1. Top \in Nat /\ x \in Nested[Top] BY <1>2, TopNat
  <2>2. PICK d \in Nat : IsDepth(x, d) /\ Height(x) = 2 * d + (IF x.type = "NOT" THEN 1 ELSE 0)
    BY <2>1, DepthExists
  <2>3. x \in Nested[d] BY <2>2 DEF IsDepth
  <2>4. /\ x \in Atom \/ x.type = "NOT" \/ IsTwo(x)
        /\ x \in Atom => x.type \in Compares \cup {"SYMBOL"}
        /\ x.type = "NOT" => x = Not(x.left) /\ x.left \in Nested[Top]
        /\ IsTwo(x) => x = Two(x.type, x.left, x.right) /\ x.left \in Nested[Top] /\ x.right \in Nested[Top]
        /\ x.type # "NONE"
    BY <2>1, Parts
  <2>5. \A y \in Nested[Top] : y \in Expr /\ y # NoExpr BY <2>1, TopNat, Parts
  <2>6. ASSUME NEW k \in Nat, k < d, NEW y \in Nested[k] PROVE Height(y) < 2 * d
    <3>1. PICK e \in Nat : IsDepth(y, e) /\ Height(y) = 2 * e + (IF y.type = "NOT" THEN 1 ELSE 0)
      BY <2>6, DepthExists
    <3>2. e <= k BY <2>6, <3>1 DEF IsDepth
    <3> QED BY <2>6, <3>1, <3>2
  <2>7. CASE x.type = "NOT"
    <3>1. x.left \in Symbols \/ (d # 0 /\ x.left \in Nested[d - 1]) BY <2>3, <2>7, Parts
    <3>2. CASE d # 0 /\ x.left \in Nested[d - 1]
      <4>1. d - 1 \in Nat /\ d - 1 < d BY <3>2
      <4>2. Height(x.left) < 2 * d BY <2>6, <3>2, <4>1
      <4>3. Height(x.left) \in Nat BY <2>4, <2>5, <2>7, HeightNat
      <4>4. Height(x) = 2 * d + 1 BY <2>2, <2>7
      <4>5. Height(x.left) < Height(x) BY <4>2, <4>3, <4>4
      <4> QED BY <1>2, <2>4, <2>5, <2>7, <4>5 DEF IsTwo
    <3>3. CASE x.left \in Symbols
      <4>1. x.left \in Nested[0] BY <3>3, Built DEF Atom
      <4>2. PICK e \in Nat : IsDepth(x.left, e) /\ Height(x.left) = 2 * e + (IF x.left.type = "NOT" THEN 1 ELSE 0)
        BY <4>1, DepthExists
      <4>3. e <= 0 BY <4>1, <4>2 DEF IsDepth
      <4>4. x.left.type # "NOT" BY <3>3 DEF Symbols
      <4>5. Height(x.left) < Height(x) BY <2>2, <2>7, <4>2, <4>3, <4>4
      <4> QED BY <1>2, <2>4, <2>5, <2>7, <4>5 DEF IsTwo
    <3> QED BY <3>1, <3>2, <3>3
  <2>8. CASE IsTwo(x)
    <3>1. d # 0 /\ x.left \in Nested[d - 1] /\ x.right \in Nested[d - 1] BY <2>3, <2>8, Parts
    <3>2. d - 1 \in Nat /\ d - 1 < d BY <3>1
    <3>3. Height(x.left) < 2 * d /\ Height(x.right) < 2 * d BY <2>6, <3>1, <3>2
    <3>4. x.type # "NOT" BY <2>8 DEF IsTwo
    <3>5. Height(x) = 2 * d BY <2>2, <3>4
    <3> QED BY <1>2, <2>4, <2>5, <2>8, <3>3, <3>4, <3>5
  <2>9. CASE x.type # "NOT" /\ ~IsTwo(x) BY <1>2, <2>4, <2>9
  <2> QED BY <2>7, <2>8, <2>9
<1> QED BY <1>1, <1>2

\* What holds of the operands, and of whatever is made of two expressions it
\* holds of, holds of all expressions.
LEMMA ExprInduction ==
    ASSUME NEW P,
           \A x \in Expr : x = NoExpr \/ x \in Atom => x \in P,
           \A x \in Expr : x.type = "NOT" /\ x.left \in P => x \in P,
           \A x \in Expr : IsTwo(x) /\ x.left \in P /\ x.right \in P => x \in P
    PROVE  Expr \subseteq P
<1> DEFINE height == [x \in Expr |-> Height(x)]
<1>1. \A x \in Expr : height[x] \in Nat BY HeightNat
<1>2. ASSUME NEW x \in Expr, \A y \in Expr : height[y] < height[x] => y \in P
      PROVE  x \in P
  <2>1. x.type = "NOT" => x.left \in P BY <1>2, PartsOf
  <2>2. IsTwo(x) => x.left \in P /\ x.right \in P BY <1>2, PartsOf
  <2> QED BY <2>1, <2>2, PartsOf
<1> HIDE DEF height
<1> QED BY <1>1, <1>2, MeasureInduction

\* A function of the expressions can be defined by what it is of the operands
\* and of an expression whose parts have the values it has.
IsFold(R, leaf, neg, two) ==
    \A x \in Expr :
      /\ R[x] # {}
      /\ x = NoExpr \/ x \in Atom => leaf[x] \in R[x]
      /\ x.type = "NOT" => \A r \in R[x.left] : neg[<<x, r>>] \in R[x]
      /\ IsTwo(x) => \A r \in R[x.left], s \in R[x.right] : two[<<x, r, s>>] \in R[x]

\* A function defined by what it is of a leaf, of a negation and of two
\* operands exists on all expressions, with values where each is to be.
LEMMA ExprRecursion ==
    ASSUME NEW R, NEW leaf, NEW neg, NEW two, IsFold(R, leaf, neg, two)
    PROVE  \E f : /\ f = [x \in Expr |-> f[x]]
                  /\ \A x \in Expr :
                       /\ f[x] \in R[x]
                       /\ f[x] = IF IsTwo(x) THEN two[<<x, f[x.left], f[x.right]>>]
                                 ELSE IF x.type = "NOT" THEN neg[<<x, f[x.left]>>] ELSE leaf[x]
<1> DEFINE height == [x \in Expr |-> Height(x)]
           G == Choices(Expr, R)
           Body(g, x) == IF IsTwo(x) THEN two[<<x, g[x.left], g[x.right]>>]
                         ELSE IF x.type = "NOT" THEN neg[<<x, g[x.left]>>] ELSE leaf[x]
           B == [g \in G |-> [x \in Expr |-> Body(g, x)]]
<1>1. \A x \in Expr : height[x] \in Nat BY HeightNat
<1>2. \A g \in G, x \in Expr : B[g][x] = Body(g, x) OBVIOUS
<1>3. ASSUME NEW g \in G, NEW x \in Expr, \A y \in Expr : height[y] < height[x] => g[y] \in R[y]
      PROVE  Body(g, x) \in R[x]
  <2>1. CASE IsTwo(x)
    <3>1. g[x.left] \in R[x.left] /\ g[x.right] \in R[x.right] BY <1>3, <2>1, PartsOf
    <3> QED BY <2>1, <3>1 DEF IsFold
  <2>2. CASE x.type = "NOT"
    <3>1. g[x.left] \in R[x.left] BY <1>3, <2>2, PartsOf
    <3> QED BY <2>2, <3>1 DEF IsFold, IsTwo
  <2>3. CASE ~IsTwo(x) /\ x.type # "NOT" BY <2>3, PartsOf DEF IsFold
  <2> QED BY <2>1, <2>2, <2>3
<1>4. ASSUME NEW g \in G, NEW h \in G, NEW x \in Expr,
             \A y \in Expr : height[y] < height[x] => g[y] = h[y] /\ g[y] \in R[y]
      PROVE  Body(g, x) = Body(h, x)
  <2>1. x.type = "NOT" => g[x.left] = h[x.left] BY <1>4, PartsOf
  <2>2. IsTwo(x) => g[x.left] = h[x.left] /\ g[x.right] = h[x.right] BY <1>4, PartsOf
  <2> HIDE DEF G, height
  <2> QED BY <2>1, <2>2
<1> HIDE DEF height, B, Body
<1>5. IsBody(Expr, height, R, B)
  <2>1. \A g \in G, x \in Expr :
        (\A y \in Expr : height[y] < height[x] => g[y] \in R[y]) => B[g][x] \in R[x]
    BY <1>2, <1>3
  <2>2. \A g \in G, h \in G, x \in Expr :
        (\A y \in Expr : height[y] < height[x] => g[y] = h[y] /\ g[y] \in R[y]) => B[g][x] = B[h][x]
    BY <1>2, <1>4
  <2>3. \A x \in Expr : R[x] # {} BY DEF IsFold
  <2> QED BY <1>1, <2>1, <2>2, <2>3 DEF IsBody
<1>6. \E f \in G : \A x \in Expr : f[x] = B[f][x] /\ f[x] \in R[x]
  BY <1>5, Recursion
<1>7. PICK f \in G : \A x \in Expr : f[x] = B[f][x] /\ f[x] \in R[x] BY <1>6
<1>8. f = [x \in Expr |-> f[x]] BY DEF Choices
<1> HIDE DEF G
<1>9. \A x \in Expr : f[x] = Body(f, x) BY <1>2, <1>7
<1> QED BY <1>7, <1>8, <1>9 DEF Body

-----------------------------------------------------------------------------
(* The value of an expression.                                             *)

\* What evaluation needs to know of the values of the symbols.
IsAssignment(val) == \A s \in KnownSyms : val[s].tri \in 0..2

\* Calculated symbols are n, m or y.
LEMMA CalculationAssigns ==
    ASSUME NEW val, IsCalculation(val)
    PROVE  IsAssignment(val)
<1> SUFFICES ASSUME NEW s \in KnownSyms PROVE val[s].tri \in 0..2 BY DEF IsAssignment
<1>1. s \in DOMAIN SymType BY DEF KnownSyms
<1>2. val[s] \in [tri : 0..2, str : DOMAIN Rank] BY <1>1 DEF IsCalculation
<1> QED BY <1>2

\* A symbol or a comparison is made of known symbols.
LEMMA AtomSyms ==
    ASSUME NEW x \in Atom
    PROVE  /\ x.sym \in KnownSyms
           /\ x.type \in Compares => x.sym2 \in KnownSyms /\ x = Comp(x.type, x.sym, x.sym2)
           /\ x.type = "SYMBOL" => x = SymbolExpr(x.sym)
  BY DEF Atom, Symbols, Comparings, Compares, TriSyms, KnownSyms, Comp, SymbolExpr

\* A leaf is n, m or y.
LEMMA LeafInRange ==
    ASSUME NEW val, IsAssignment(val), NEW x \in Expr, x = NoExpr \/ x \in Atom
    PROVE  LeafValue(x, val) \in 0..2
<1>1. CASE x = NoExpr BY <1>1 DEF NoExpr, LeafValue
<1>2. CASE x \in Atom
  <2>1. val[x.sym].tri \in 0..2 BY <1>2, AtomSyms DEF IsAssignment
  <2>2. x.type # "NONE" BY <1>2 DEF Atom, Symbols, Comparings, Compares
  <2> QED BY <2>1, <2>2 DEF LeafValue
<1> QED BY <1>1, <1>2

\* A value is n, m or y: the least of a conjunction, the greatest of a
\* disjunction, the opposite of a negation.
LEMMA Value ==
    ASSUME NEW val, IsAssignment(val), NEW x \in Expr
    PROVE  /\ expr_calc_value(x, val) \in 0..2
           /\ x.type = "AND" => expr_calc_value(x, val) =
                TriMin(expr_calc_value(x.left, val), expr_calc_value(x.right, val))
           /\ x.type = "OR" => expr_calc_value(x, val) =
                TriMax(expr_calc_value(x.left, val), expr_calc_value(x.right, val))
           /\ x.type = "NOT" => expr_calc_value(x, val) = TriNot(expr_calc_value(x.left, val))
           /\ x = NoExpr \/ x \in Atom => expr_calc_value(x, val) = LeafValue(x, val)
<1> DEFINE R == 0..2
           body(g, y) == CASE y.type = "AND" -> TriMin(g[y.left], g[y.right])
                           [] y.type = "OR" -> TriMax(g[y.left], g[y.right])
                           [] y.type = "NOT" -> TriNot(g[y.left])
                           [] OTHER -> LeafValue(y, val)
           leaf == [y \in Expr |-> LeafValue(y, val)]
           neg == [t \in Expr \X R |-> TriNot(t[2])]
           two == [t \in Expr \X R \X R |-> IF t[1].type = "AND" THEN TriMin(t[2], t[3]) ELSE TriMax(t[2], t[3])]
           value == CHOOSE g : g = [y \in Expr |-> body(g, y)]
           T == [y \in Expr |-> R]
<1>1. \A y \in Expr : y = NoExpr \/ y \in Atom => leaf[y] \in R BY LeafInRange
<1>2. \A y \in Expr, r \in R : y.type = "NOT" => neg[<<y, r>>] \in R BY DEF TriNot
<1>3. \A y \in Expr, r \in R, s \in R : IsTwo(y) => two[<<y, r, s>>] \in R BY DEF TriMin, TriMax
<1>4. PICK f : /\ f = [y \in Expr |-> f[y]]
               /\ \A y \in Expr :
                    /\ f[y] \in T[y]
                    /\ f[y] = IF IsTwo(y) THEN two[<<y, f[y.left], f[y.right]>>]
                              ELSE IF y.type = "NOT" THEN neg[<<y, f[y.left]>>] ELSE leaf[y]
  <2>1. R # {} /\ \A y \in Expr : T[y] = R OBVIOUS
  <2>2. \A y \in Expr : /\ y.type = "NOT" => y.left \in Expr
                        /\ IsTwo(y) => y.left \in Expr /\ y.right \in Expr
    BY PartsOf
  <2> HIDE DEF R, T, leaf, neg, two
  <2>3. IsFold(T, leaf, neg, two) BY <1>1, <1>2, <1>3, <2>1, <2>2 DEF IsFold
  <2> QED BY <2>3, ExprRecursion
<1>5. \E g : g = [y \in Expr |-> body(g, y)]
  <2>2. ASSUME NEW y \in Expr PROVE f[y] = body(f, y)
    <3>1. IsTwo(y) => f[y.left] \in R /\ f[y.right] \in R BY <1>4, PartsOf
    <3>2. y.type = "NOT" => f[y.left] \in R BY <1>4, PartsOf
    <3> QED BY <1>4, <3>1, <3>2 DEF IsTwo
  <2> HIDE DEF body
  <2>3. f = [y \in Expr |-> body(f, y)] BY <1>4, <2>2
  <2> QED BY <2>3
<1> HIDE DEF body
<1>6. value = [y \in Expr |-> body(value, y)] BY <1>5
<1> HIDE DEF value
<1>7. \A y \in Expr : value[y] = body(value, y) BY <1>6
<1> DEFINE P == {y \in Expr : value[y] \in R}
<1>8. Expr \subseteq P
  <2>1. \A y \in Expr : y = NoExpr \/ y \in Atom => y \in P
    <3> TAKE y \in Expr
    <3> HAVE y = NoExpr \/ y \in Atom
    <3>1. y.type \notin {"AND", "OR", "NOT"} BY PartsOf DEF NoExpr, Compares
    <3> QED BY <1>7, <3>1, LeafInRange DEF body
  <2>2. \A y \in Expr : y.type = "NOT" /\ y.left \in P => y \in P BY <1>7 DEF body, TriNot
  <2>3. \A y \in Expr : IsTwo(y) /\ y.left \in P /\ y.right \in P => y \in P
    BY <1>7 DEF body, IsTwo, TriMin, TriMax
  <2> HIDE DEF P
  <2> QED BY <2>1, <2>2, <2>3, ExprInduction
<1>9. \A y : expr_calc_value(y, val) = value[y] BY DEF expr_calc_value, value, body
<1>10. x = NoExpr \/ x \in Atom => x.type \notin {"AND", "OR", "NOT"} BY PartsOf DEF NoExpr, Compares
<1> QED BY <1>7, <1>8, <1>9, <1>10 DEF body

-----------------------------------------------------------------------------
(* Normal forms: how many operands they have.                              *)

\* An expression has operands: those of its parts.
LEMMA SizeIs ==
    ASSUME NEW x \in Expr
    PROVE  /\ Size(x) \in Nat \ {0}
           /\ IsTwo(x) => Size(x) = Size(x.left) + Size(x.right)
           /\ x.type = "NOT" => Size(x) = Size(x.left)
           /\ x = NoExpr \/ x \in Atom => Size(x) = 1
<1> DEFINE R == Nat \ {0}
           body(g, y) == IF IsTwo(y) THEN g[y.left] + g[y.right]
                         ELSE IF y.type = "NOT" THEN g[y.left] ELSE 1
           leaf == [y \in Expr |-> 1]
           neg == [t \in Expr \X R |-> t[2]]
           two == [t \in Expr \X R \X R |-> t[2] + t[3]]
           T == [y \in Expr |-> R]
           size == CHOOSE g : g = [y \in Expr |-> body(g, y)]
<1>1. PICK f : /\ f = [y \in Expr |-> f[y]]
               /\ \A y \in Expr :
                    /\ f[y] \in T[y]
                    /\ f[y] = IF IsTwo(y) THEN two[<<y, f[y.left], f[y.right]>>]
                              ELSE IF y.type = "NOT" THEN neg[<<y, f[y.left]>>] ELSE leaf[y]
  <2>1. R # {} /\ \A y \in Expr : T[y] = R OBVIOUS
  <2>2. \A y \in Expr : /\ y.type = "NOT" => y.left \in Expr
                        /\ IsTwo(y) => y.left \in Expr /\ y.right \in Expr
    BY PartsOf
  <2>3. \A y \in Expr : leaf[y] \in R OBVIOUS
  <2>4. \A y \in Expr, r \in R : neg[<<y, r>>] \in R OBVIOUS
  <2>5. \A y \in Expr, r \in R, s \in R : two[<<y, r, s>>] \in R OBVIOUS
  <2> HIDE DEF R, T, leaf, neg, two
  <2>6. IsFold(T, leaf, neg, two) BY <2>1, <2>2, <2>3, <2>4, <2>5 DEF IsFold
  <2> QED BY <2>6, ExprRecursion
<1>2. \E g : g = [y \in Expr |-> body(g, y)]
  <2>2. ASSUME NEW y \in Expr PROVE f[y] = body(f, y)
    <3>1. IsTwo(y) => f[y.left] \in R /\ f[y.right] \in R BY <1>1, PartsOf
    <3>2. y.type = "NOT" => f[y.left] \in R BY <1>1, PartsOf
    <3> QED BY <1>1, <3>1, <3>2
  <2> HIDE DEF body
  <2>3. f = [y \in Expr |-> body(f, y)] BY <1>1, <2>2
  <2> QED BY <2>3
<1> HIDE DEF body
<1>3. \A y \in Expr : size[y] = body(size, y) BY <1>2
<1>4. \A y : Size(y) = size[y] BY DEF Size, size, body
<1> HIDE DEF size
<1> DEFINE P == {y \in Expr : size[y] \in R}
<1>5. Expr \subseteq P
  <2>1. \A y \in Expr : y = NoExpr \/ y \in Atom => y \in P
    BY <1>3, PartsOf DEF body, NoExpr, Compares, IsTwo
  <2>2. \A y \in Expr : y.type = "NOT" /\ y.left \in P => y \in P BY <1>3 DEF body, IsTwo
  <2>3. \A y \in Expr : IsTwo(y) /\ y.left \in P /\ y.right \in P => y \in P BY <1>3 DEF body
  <2> HIDE DEF P
  <2> QED BY <2>1, <2>2, <2>3, ExprInduction
<1>6. x = NoExpr \/ x \in Atom => x.type # "NOT" /\ ~IsTwo(x) BY PartsOf DEF NoExpr, Compares, IsTwo
<1>7. x.type = "NOT" => ~IsTwo(x) BY DEF IsTwo
<1> QED BY <1>3, <1>4, <1>5, <1>6, <1>7 DEF body

\* Negations stand at symbols alone in both parts of a normal form.
LEMMA NormalIs ==
    ASSUME NEW x \in Expr
    PROVE  /\ IsTwo(x) => (IsNormal(x) <=> IsNormal(x.left) /\ IsNormal(x.right))
           /\ x.type = "NOT" => (IsNormal(x) <=> x.left.type = "SYMBOL")
           /\ x = NoExpr \/ x \in Atom => IsNormal(x)
<1> DEFINE body(g, y) == CASE IsTwo(y) -> g[y.left] /\ g[y.right]
                           [] y.type = "NOT" -> y.left.type = "SYMBOL"
                           [] OTHER -> TRUE
           leaf == [y \in Expr |-> TRUE]
           neg == [t \in Expr \X BOOLEAN |-> t[1].left.type = "SYMBOL"]
           two == [t \in Expr \X BOOLEAN \X BOOLEAN |-> t[2] /\ t[3]]
           T == [y \in Expr |-> BOOLEAN]
           normal == CHOOSE g : g = [y \in Expr |-> body(g, y)]
<1>1. PICK f : /\ f = [y \in Expr |-> f[y]]
               /\ \A y \in Expr :
                    /\ f[y] \in T[y]
                    /\ f[y] = IF IsTwo(y) THEN two[<<y, f[y.left], f[y.right]>>]
                              ELSE IF y.type = "NOT" THEN neg[<<y, f[y.left]>>] ELSE leaf[y]
  <2>1. \A y \in Expr : T[y] = BOOLEAN OBVIOUS
  <2>2. \A y \in Expr : /\ y.type = "NOT" => y.left \in Expr
                        /\ IsTwo(y) => y.left \in Expr /\ y.right \in Expr
    BY PartsOf
  <2>3. \A y \in Expr : leaf[y] \in BOOLEAN OBVIOUS
  <2>4. \A y \in Expr, r \in BOOLEAN : neg[<<y, r>>] \in BOOLEAN OBVIOUS
  <2>5. \A y \in Expr, r \in BOOLEAN, s \in BOOLEAN : two[<<y, r, s>>] \in BOOLEAN OBVIOUS
  <2> HIDE DEF T, leaf, neg, two
  <2>6. IsFold(T, leaf, neg, two) BY <2>1, <2>2, <2>3, <2>4, <2>5 DEF IsFold
  <2> QED BY <2>6, ExprRecursion
<1>2. \E g : g = [y \in Expr |-> body(g, y)]
  <2>2. ASSUME NEW y \in Expr PROVE f[y] = body(f, y)
    <3>1. IsTwo(y) => f[y.left] \in BOOLEAN /\ f[y.right] \in BOOLEAN BY <1>1, PartsOf
    <3>2. y.type = "NOT" => f[y.left] \in BOOLEAN BY <1>1, PartsOf
    <3> QED BY <1>1, <3>1, <3>2 DEF IsTwo
  <2> HIDE DEF body
  <2>3. f = [y \in Expr |-> body(f, y)] BY <1>1, <2>2
  <2> QED BY <2>3
<1> HIDE DEF body
<1>3. \A y \in Expr : normal[y] = body(normal, y) BY <1>2
<1>4. \A y : IsNormal(y) = normal[y] BY DEF IsNormal, normal, body
<1> HIDE DEF normal
<1>6. x = NoExpr \/ x \in Atom => x.type # "NOT" /\ ~IsTwo(x) BY PartsOf DEF NoExpr, Compares, IsTwo
<1>7. x.type = "NOT" => ~IsTwo(x) BY DEF IsTwo
<1> QED BY <1>3, <1>4, <1>6, <1>7 DEF body

-----------------------------------------------------------------------------
(* A normal form nests less deep than it has operands.                     *)

\* The operands of a normal form.
Leaf == Atom \cup {Not(y) : y \in Symbols}
NF == NormalForms(MaxOperands)

\* A leaf is a normal form of one operand.
LEMMA LeafIs ==
    ASSUME NEW x \in Leaf
    PROVE  /\ x \in NF /\ Size(x) = 1 /\ ~IsTwo(x)
           /\ x \in Atom \/ (x.type = "NOT" /\ x.left \in Symbols /\ x = Not(x.left))
           /\ x \in Nested[0]
<1>1. Top \in Nat /\ 0 \in Nat /\ 0 <= Top /\ MaxOperands >= 1 BY TopNat, KExprAssumption
<1>2. x \in Atom \/ (x.type = "NOT" /\ x.left \in Symbols /\ x = Not(x.left)) BY DEF Leaf, Not
<1>3. x \in Nested[0] BY <1>1, <1>2, Built
<1>4. x \in Expr /\ x # NoExpr
  <2>1. x \in Nested[Top] BY <1>1, <1>3, NestedMonotone
  <2> QED BY <1>1, <2>1, TopNat, Parts
<1>5. CASE x \in Atom
  <2>1. Size(x) = 1 /\ IsNormal(x) /\ ~IsTwo(x)
    BY <1>4, <1>5, SizeIs, NormalIs, PartsOf DEF IsTwo, Compares
  <2> QED BY <1>1, <1>2, <1>3, <1>4, <2>1 DEF NF, NormalForms
<1>6. CASE x.type = "NOT" /\ x.left \in Symbols
  <2>1. x.left \in Expr /\ x.left \in Atom /\ x.left.type = "SYMBOL" BY <1>4, <1>6, PartsOf DEF Atom, Symbols
  <2>2. Size(x) = 1 /\ IsNormal(x) /\ ~IsTwo(x)
    BY <1>4, <1>6, <2>1, SizeIs, NormalIs DEF IsTwo
  <2> QED BY <1>1, <1>2, <1>3, <1>4, <2>2 DEF NF, NormalForms
<1> QED BY <1>2, <1>5, <1>6

\* A normal form is an operand or two normal forms with fewer.
LEMMA NormalParts ==
    ASSUME NEW x \in NF
    PROVE  /\ x \in Expr /\ x # NoExpr /\ Size(x) \in 1..MaxOperands
           /\ x \in Leaf \/ IsTwo(x)
           /\ IsTwo(x) => /\ x = Two(x.type, x.left, x.right) /\ x.type \in {"AND", "OR"}
                          /\ x.left \in NF /\ x.right \in NF
                          /\ Size(x) = Size(x.left) + Size(x.right)
                          /\ Size(x.left) < Size(x) /\ Size(x.right) < Size(x)
<1>0. x \in Expr /\ x # NoExpr /\ IsNormal(x) /\ Size(x) <= MaxOperands BY DEF NF, NormalForms
<1>1. MaxOperands \in Nat /\ Size(x) \in Nat \ {0} BY <1>0, KExprAssumption, SizeIs
<1>2. ASSUME x.type = "NOT" PROVE x \in Leaf
  <2>1. x.left.type = "SYMBOL" /\ x = Not(x.left) /\ x.left \in Expr BY <1>0, <1>2, NormalIs, PartsOf
  <2>2. x.left \in Symbols
    <3>1. x.left \in Atom BY <2>1, PartsOf DEF NoExpr, IsTwo
    <3> QED BY <2>1, <3>1 DEF Atom, Comparings, Compares
  <2> QED BY <2>1, <2>2 DEF Leaf
<1>3. ASSUME IsTwo(x)
      PROVE  /\ x = Two(x.type, x.left, x.right) /\ x.type \in {"AND", "OR"}
             /\ x.left \in NF /\ x.right \in NF
             /\ Size(x) = Size(x.left) + Size(x.right)
             /\ Size(x.left) < Size(x) /\ Size(x.right) < Size(x)
  <2>1. /\ x = Two(x.type, x.left, x.right)
        /\ x.left \in Expr /\ x.left # NoExpr /\ x.right \in Expr /\ x.right # NoExpr
    BY <1>0, <1>3, PartsOf
  <2>2. Size(x) = Size(x.left) + Size(x.right) /\ IsNormal(x.left) /\ IsNormal(x.right)
    BY <1>0, <1>3, SizeIs, NormalIs
  <2>3. Size(x.left) \in Nat \ {0} /\ Size(x.right) \in Nat \ {0} BY <2>1, SizeIs
  <2>4. Size(x.left) < Size(x) /\ Size(x.right) < Size(x) BY <2>2, <2>3
  <2>5. Size(x.left) <= MaxOperands /\ Size(x.right) <= MaxOperands BY <1>0, <1>1, <2>3, <2>4
  <2> QED BY <1>3, <2>1, <2>2, <2>4, <2>5 DEF NF, NormalForms, IsTwo
<1>4. x \in Atom \/ x.type = "NOT" \/ IsTwo(x) BY <1>0, PartsOf
<1>5. x \in Leaf \/ IsTwo(x) BY <1>2, <1>4 DEF Leaf
<1>6. Size(x) \in 1..MaxOperands BY <1>0, <1>1
<1> QED BY <1>0, <1>3, <1>5, <1>6

\* What holds of the operands, and of two normal forms when it holds of both.
LEMMA NormalInduction ==
    ASSUME NEW P, Leaf \subseteq P,
           \A x \in NF : IsTwo(x) /\ x.left \in P /\ x.right \in P => x \in P
    PROVE  NF \subseteq P
<1> DEFINE size == [x \in NF |-> Size(x)]
<1>1. \A x \in NF : size[x] \in Nat BY NormalParts
<1>2. ASSUME NEW x \in NF, \A y \in NF : size[y] < size[x] => y \in P
      PROVE  x \in P
  <2>1. CASE x \in Leaf BY <2>1
  <2>2. CASE IsTwo(x)
    <3>1. x.left \in P /\ x.right \in P BY <1>2, <2>2, NormalParts
    <3> QED BY <2>2, <3>1
  <2> QED BY <2>1, <2>2, NormalParts
<1> HIDE DEF size
<1> QED BY <1>1, <1>2, MeasureInduction

\* A normal form nests less deep than it has operands.
LEMMA NormalDepth == \A x \in NF : x \in Nested[Size(x) - 1]
<1> DEFINE P == {x \in NF : x \in Nested[Size(x) - 1]}
<1>1. Leaf \subseteq P
  <2>1. ASSUME NEW x \in Leaf PROVE x \in NF /\ Size(x) - 1 = 0 /\ x \in Nested[0] BY LeafIs
  <2> QED BY <2>1
<1>2. ASSUME NEW x \in NF, IsTwo(x), x.left \in P, x.right \in P PROVE x \in P
  <2> DEFINE n == Size(x) - 2
             a == Size(x.left)
             b == Size(x.right)
  <2>1. /\ x = Two(x.type, x.left, x.right) /\ x.type \in {"AND", "OR"}
        /\ Size(x) = a + b /\ a \in Nat \ {0} /\ b \in Nat \ {0}
    BY <1>2, NormalParts
  <2>2. x.left \in Nested[a - 1] /\ x.right \in Nested[b - 1] BY <1>2
  <2>3. n \in Nat /\ a - 1 \in Nat /\ b - 1 \in Nat /\ a - 1 <= n /\ b - 1 <= n /\ n + 1 = Size(x) - 1
    BY <2>1
  <2> HIDE DEF a, b, n
  <2>4. x.left \in Nested[n] /\ x.right \in Nested[n] BY <2>2, <2>3, NestedMonotone
  <2>5. x \in Nested[n + 1] BY <2>1, <2>3, <2>4, Built
  <2> QED BY <2>3, <2>5
<1> HIDE DEF P
<1>3. NF \subseteq P BY <1>1, <1>2, NormalInduction
<1> QED BY <1>3 DEF P

\* Two normal forms make one, while the bound allows it.
LEMMA NormalTwo ==
    ASSUME NEW l \in NF, NEW r \in NF, NEW t \in {"AND", "OR"}, Size(l) + Size(r) <= MaxOperands
    PROVE  Two(t, l, r) \in NF /\ Size(Two(t, l, r)) = Size(l) + Size(r)
<1> DEFINE x == Two(t, l, r)
           a == Size(l)
           b == Size(r)
<1>1. a \in Nat \ {0} /\ b \in Nat \ {0} /\ MaxOperands \in Nat BY NormalParts, KExprAssumption
<1>2. l \in Nested[a - 1] /\ r \in Nested[b - 1] BY NormalDepth
<1>3. Top = MaxOperands + 1 /\ Top - 1 = MaxOperands BY <1>1 DEF Top
<1>4. a - 1 \in Nat /\ b - 1 \in Nat /\ a - 1 <= Top - 1 /\ b - 1 <= Top - 1 /\ Top - 1 \in Nat /\ (Top - 1) + 1 = Top
  BY <1>1, <1>3
<1> HIDE DEF a, b
<1>5. l \in Nested[Top - 1] /\ r \in Nested[Top - 1] BY <1>2, <1>4, NestedMonotone
<1>6. x \in Nested[Top] BY <1>4, <1>5, Built
<1>7. x.type = t /\ x.left = l /\ x.right = r BY DEF Two
<1>8. x \in Expr /\ x # NoExpr /\ IsTwo(x) BY <1>6, <1>7, TopNat, Parts DEF IsTwo
<1> HIDE DEF x
<1>9. Size(x) = a + b BY <1>7, <1>8, SizeIs DEF a, b
<1>10. IsNormal(l) /\ IsNormal(r) BY DEF NF, NormalForms
<1>11. IsNormal(x) BY <1>7, <1>8, <1>10, NormalIs
<1> QED BY <1>8, <1>9, <1>11 DEF NF, NormalForms, x, a, b

-----------------------------------------------------------------------------
(* Constants absorbed.                                                     *)

AnyTree == UNION {Nested[n] : n \in Nat}

\* Trees are made of trees.
LEMMA AnyTwo ==
    /\ \A l \in AnyTree, r \in AnyTree, t \in {"AND", "OR"} : Two(t, l, r) \in AnyTree
    /\ \A l \in AnyTree : Not(l) \in AnyTree
    /\ Leaf \subseteq AnyTree
    /\ \A x \in Expr : x # NoExpr => x \in AnyTree
<1>1. ASSUME NEW l \in AnyTree, NEW r \in AnyTree, NEW t \in {"AND", "OR"}
      PROVE  Two(t, l, r) \in AnyTree
  <2>1. PICK a \in Nat, b \in Nat : l \in Nested[a] /\ r \in Nested[b] BY DEF AnyTree
  <2>2. a + b \in Nat /\ a <= a + b /\ b <= a + b /\ a + b + 1 \in Nat OBVIOUS
  <2>3. l \in Nested[a + b] /\ r \in Nested[a + b] BY <2>1, <2>2, NestedMonotone
  <2>4. Two(t, l, r) \in Nested[a + b + 1] BY <2>2, <2>3, Built
  <2> QED BY <2>2, <2>4 DEF AnyTree
<1>2. ASSUME NEW l \in AnyTree PROVE Not(l) \in AnyTree
  <2>1. PICK a \in Nat : l \in Nested[a] BY DEF AnyTree
  <2>2. Not(l) \in Nested[a + 1] /\ a + 1 \in Nat BY <2>1, Built
  <2> QED BY <2>2 DEF AnyTree
<1>3. Leaf \subseteq AnyTree BY LeafIs DEF AnyTree
<1>4. ASSUME NEW x \in Expr, x # NoExpr PROVE x \in AnyTree BY <1>4, TopNat DEF AnyTree
<1> QED BY <1>1, <1>2, <1>3, <1>4

\* The trees a function may make of an expression.
Trees == [x \in Expr |-> IF x = NoExpr THEN {NoExpr} ELSE AnyTree]

\* A function that makes trees of trees.
MakesTrees(leaf, neg, two) ==
    /\ \A x \in Expr : x = NoExpr \/ x \in Atom => leaf[x] \in Trees[x]
    /\ \A x \in Expr, r \in AnyTree : x.type = "NOT" => neg[<<x, r>>] \in AnyTree
    /\ \A x \in Expr, r \in AnyTree, s \in AnyTree : IsTwo(x) => two[<<x, r, s>>] \in AnyTree
IsMade(f, leaf, neg, two) ==
    /\ f = [x \in Expr |-> f[x]]
    /\ \A x \in Expr :
         /\ f[x] \in Trees[x]
         /\ IsTwo(x) => f[x.left] \in AnyTree /\ f[x.right] \in AnyTree
                         /\ f[x] = two[<<x, f[x.left], f[x.right]>>]
         /\ x.type = "NOT" => f[x.left] \in AnyTree /\ f[x] = neg[<<x, f[x.left]>>]
         /\ ~IsTwo(x) /\ x.type # "NOT" => f[x] = leaf[x]

\* A function that makes trees of trees exists on all expressions.
LEMMA TreeRecursion ==
    ASSUME NEW leaf, NEW neg, NEW two, MakesTrees(leaf, neg, two)
    PROVE  \E f : IsMade(f, leaf, neg, two)
<1>1. AnyTree # {}
  <2>1. SymbolExpr("y") \in Symbols BY KOperandAssumption DEF Symbols, SymbolExpr, KnownSyms
  <2> QED BY <2>1, AnyTwo DEF Leaf, Atom
<1>2. \A x \in Expr : /\ x.type = "NOT" \/ IsTwo(x) => Trees[x] = AnyTree /\ Trees[x.left] = AnyTree
                      /\ IsTwo(x) => Trees[x.right] = AnyTree
                      /\ Trees[x] # {}
  <2> TAKE x \in Expr
  <2>1. x.type = "NOT" \/ IsTwo(x) => x # NoExpr /\ x.left \in Expr /\ x.left # NoExpr
    BY PartsOf DEF NoExpr, IsTwo
  <2>2. IsTwo(x) => x.right \in Expr /\ x.right # NoExpr BY PartsOf
  <2> QED BY <1>1, <2>1, <2>2 DEF Trees
<1>3. IsFold(Trees, leaf, neg, two) BY <1>2 DEF IsFold, MakesTrees
<1>4. PICK f : /\ f = [x \in Expr |-> f[x]]
               /\ \A x \in Expr :
                    /\ f[x] \in Trees[x]
                    /\ f[x] = IF IsTwo(x) THEN two[<<x, f[x.left], f[x.right]>>]
                              ELSE IF x.type = "NOT" THEN neg[<<x, f[x.left]>>] ELSE leaf[x]
  <2> HIDE DEF Trees
  <2> QED BY <1>3, ExprRecursion
<1>5. \A x \in Expr : /\ IsTwo(x) => f[x.left] \in AnyTree /\ f[x.right] \in AnyTree
                      /\ x.type = "NOT" => f[x.left] \in AnyTree
  <2>1. \A x \in Expr : f[x] \in Trees[x] BY <1>4
  <2> QED BY <1>2, <2>1, PartsOf
<1>6. \A x : ~(IsTwo(x) /\ x.type = "NOT") BY DEF IsTwo
<1> QED BY <1>4, <1>5, <1>6 DEF IsMade

\* Absorbing leaves a constant, one of the two operands or both.
LEMMA AbsorbedIs ==
    ASSUME NEW t \in {"AND", "OR"}, NEW l, NEW r
    PROVE  Absorbed(t, l, r) \in {SymbolExpr("n"), SymbolExpr("y"), l, r, Two(t, l, r)}
  BY DEF Absorbed

\* The constants are absorbed in the parts first.
LEMMA YnIs ==
    ASSUME NEW x \in Expr
    PROVE  expr_eliminate_yn(x) =
             IF IsTwo(x) THEN Absorbed(x.type, expr_eliminate_yn(x.left), expr_eliminate_yn(x.right)) ELSE x
<1> DEFINE body(g, y) == IF IsTwo(y) THEN Absorbed(y.type, g[y.left], g[y.right]) ELSE y
           leaf == [y \in Expr |-> y]
           neg == [t \in Expr \X AnyTree |-> t[1]]
           two == [t \in Expr \X AnyTree \X AnyTree |-> Absorbed(t[1].type, t[2], t[3])]
           eliminated == CHOOSE g : g = [y \in Expr |-> body(g, y)]
<1>1. PICK f : IsMade(f, leaf, neg, two)
  <2>1. \A y \in Expr : leaf[y] \in Trees[y] BY AnyTwo DEF Trees
  <2>2. \A y \in Expr, r \in AnyTree : y.type = "NOT" => neg[<<y, r>>] \in AnyTree
    BY AnyTwo DEF NoExpr
  <2>3. \A y \in Expr, r \in AnyTree, s \in AnyTree : IsTwo(y) => two[<<y, r, s>>] \in AnyTree
    <3> TAKE y \in Expr, r \in AnyTree, s \in AnyTree
    <3> HAVE IsTwo(y)
    <3>1. two[<<y, r, s>>] = Absorbed(y.type, r, s) OBVIOUS
    <3>2. y.type \in {"AND", "OR"} BY DEF IsTwo
    <3>3. SymbolExpr("n") \in AnyTree /\ SymbolExpr("y") \in AnyTree
      BY AnyTwo, KOperandAssumption DEF Leaf, Atom, Symbols, SymbolExpr, KnownSyms
    <3>4. Two(y.type, r, s) \in AnyTree BY <3>2, AnyTwo
    <3>5. Absorbed(y.type, r, s) \in AnyTree BY <3>2, <3>3, <3>4, AbsorbedIs
    <3> QED BY <3>1, <3>5
  <2> HIDE DEF leaf, neg, two
  <2>4. MakesTrees(leaf, neg, two) BY <2>1, <2>2, <2>3 DEF MakesTrees
  <2> QED BY <2>4, TreeRecursion
<1>3. \A y \in Expr : f[y] = body(f, y)
  <2> TAKE y \in Expr
  <2>1. CASE IsTwo(y) BY <1>1, <2>1 DEF IsMade
  <2>2. CASE ~IsTwo(y) BY <1>1, <2>2 DEF IsMade
  <2> QED BY <2>1, <2>2
<1> HIDE DEF body
<1>4. f = [y \in Expr |-> body(f, y)] BY <1>1, <1>3 DEF IsMade
<1>5. \E g : g = [y \in Expr |-> body(g, y)] BY <1>4
<1>6. \A y \in Expr : eliminated[y] = body(eliminated, y) BY <1>5
<1>7. \A y : expr_eliminate_yn(y) = eliminated[y] BY DEF expr_eliminate_yn, eliminated, body
<1> HIDE DEF eliminated
<1> QED BY <1>6, <1>7 DEF body

-----------------------------------------------------------------------------
(* Absorbing keeps the value, and leaves a constant or fewer operands.     *)

\* && is the least, || the greatest.
Op(t, a, b) == IF t = "AND" THEN TriMin(a, b) ELSE TriMax(a, b)

\* && and || are commutative and associative, and an operand counts once.
LEMMA OpLaws ==
    ASSUME NEW t \in {"AND", "OR"}, NEW a \in 0..2, NEW b \in 0..2, NEW c \in 0..2
    PROVE  /\ Op(t, a, b) \in 0..2
           /\ Op(t, a, b) = Op(t, b, a) /\ Op(t, a, a) = a
           /\ Op(t, Op(t, a, b), c) = Op(t, a, Op(t, b, c))
  BY DEF Op, TriMin, TriMax

\* The value of two expressions.
LEMMA ValueTwo ==
    ASSUME NEW val, IsCalculation(val), NEW x \in Expr
    PROVE  /\ expr_calc_value(x, val) \in 0..2
           /\ IsTwo(x) => expr_calc_value(x, val) =
                            Op(x.type, expr_calc_value(x.left, val), expr_calc_value(x.right, val))
  BY CalculationAssigns, Value DEF IsTwo, Op

\* The constants.
LEMMA ConstantIs ==
    ASSUME NEW c \in {"y", "m", "n"}
    PROVE  /\ SymbolExpr(c) \in Leaf /\ SymbolExpr(c) \in Expr /\ IsConst(SymbolExpr(c), c)
           /\ \A e : IsConst(e, c) /\ e \in Expr => e = SymbolExpr(c)
           /\ \A val : IsCalculation(val) =>
                expr_calc_value(SymbolExpr(c), val) = CASE c = "n" -> 0 [] c = "m" -> 1 [] c = "y" -> 2
<1>1. SymbolExpr(c) \in Symbols BY KOperandAssumption DEF Symbols, SymbolExpr, KnownSyms
<1>2. SymbolExpr(c) \in Leaf /\ SymbolExpr(c) \in Atom BY <1>1 DEF Leaf, Atom
<1>3. SymbolExpr(c) \in Expr BY <1>2, LeafIs, NormalParts
<1>4. IsConst(SymbolExpr(c), c) BY DEF IsConst, SymbolExpr
<1>5. ASSUME NEW e, IsConst(e, c), e \in Expr PROVE e = SymbolExpr(c)
  <2>1. e.type = "SYMBOL" /\ e.sym = c BY <1>5 DEF IsConst
  <2>2. e \in Atom BY <1>5, <2>1, PartsOf DEF NoExpr, IsTwo
  <2> QED BY <2>1, <2>2, AtomSyms
<1>6. ASSUME NEW val, IsCalculation(val)
      PROVE  expr_calc_value(SymbolExpr(c), val) = CASE c = "n" -> 0 [] c = "m" -> 1 [] c = "y" -> 2
  <2>1. expr_calc_value(SymbolExpr(c), val) = LeafValue(SymbolExpr(c), val)
    BY <1>2, <1>3, <1>6, CalculationAssigns, Value
  <2>2. LeafValue(SymbolExpr(c), val) = val[c].tri BY DEF LeafValue, SymbolExpr
  <2>3. val["n"].tri = 0 /\ val["m"].tri = 1 /\ val["y"].tri = 2 BY <1>6 DEF IsCalculation
  <2> QED BY <2>1, <2>2, <2>3
<1> QED BY <1>2, <1>3, <1>4, <1>5, <1>6

\* Two expressions that have the same value whatever the symbols have.
Same(x, y) == \A val : IsCalculation(val) => expr_calc_value(x, val) = expr_calc_value(y, val)

\* y or n.
IsUnit(e) == IsConst(e, "y") \/ IsConst(e, "n")

\* Absorbing a constant removes operands and keeps the value.
LEMMA AbsorbedNormal ==
    ASSUME NEW t \in {"AND", "OR"}, NEW l \in NF, NEW r \in NF, Size(l) + Size(r) <= MaxOperands
    PROVE  /\ Absorbed(t, l, r) \in NF /\ Size(Absorbed(t, l, r)) <= Size(l) + Size(r)
           /\ Same(Absorbed(t, l, r), Two(t, l, r))
           /\ IsUnit(l) \/ IsUnit(r) => Size(Absorbed(t, l, r)) < Size(l) + Size(r)
<1> DEFINE x == Absorbed(t, l, r)
           yes == SymbolExpr("y")
           no == SymbolExpr("n")
<1>1. /\ yes \in Leaf /\ no \in Leaf /\ yes \in NF /\ no \in NF /\ Size(yes) = 1 /\ Size(no) = 1
  BY ConstantIs, LeafIs
<1>2. Size(l) \in Nat \ {0} /\ Size(r) \in Nat \ {0} BY NormalParts
<1>3. Two(t, l, r) \in NF /\ Size(Two(t, l, r)) = Size(l) + Size(r) BY NormalTwo
<1>4. x \in {no, yes, l, r, Two(t, l, r)} BY AbsorbedIs
<1>5. x \in NF BY <1>1, <1>3, <1>4
<1>6. Size(x) <= Size(l) + Size(r) BY <1>1, <1>2, <1>3, <1>4
<1>7. ASSUME IsUnit(l) \/ IsUnit(r) PROVE Size(x) < Size(l) + Size(r)
  <2>1. x \in {no, yes, l, r} BY <1>7 DEF IsUnit, Absorbed
  <2> QED BY <1>1, <1>2, <2>1
<1>8. ASSUME NEW val, IsCalculation(val)
      PROVE  expr_calc_value(x, val) = expr_calc_value(Two(t, l, r), val)
  <2> DEFINE V(e) == expr_calc_value(e, val)
  <2>1. l \in Expr /\ r \in Expr /\ Two(t, l, r) \in Expr BY <1>3, NormalParts
  <2>2. V(l) \in 0..2 /\ V(r) \in 0..2 BY <1>8, <2>1, ValueTwo
  <2>3. V(Two(t, l, r)) = Op(t, V(l), V(r))
    <3>1. Two(t, l, r).type = t /\ Two(t, l, r).left = l /\ Two(t, l, r).right = r /\ IsTwo(Two(t, l, r))
      BY DEF Two, IsTwo
    <3> QED BY <1>8, <2>1, <3>1, ValueTwo
  <2>4. V(yes) = 2 /\ V(no) = 0 BY <1>8, ConstantIs
  <2>5. \A e \in {l, r} : (IsConst(e, "y") => V(e) = 2) /\ (IsConst(e, "n") => V(e) = 0)
    BY <2>1, <2>4, ConstantIs
  <2> HIDE DEF V, yes, no
  <2>6. CASE t = "AND"
    <3>1. \/ IsConst(l, "n") /\ x = no
          \/ IsConst(l, "y") /\ x = r
          \/ IsConst(r, "n") /\ x = no
          \/ IsConst(r, "y") /\ x = l
          \/ x = Two(t, l, r)
      BY <2>6 DEF Absorbed, yes, no
    <3> QED BY <2>2, <2>3, <2>4, <2>5, <2>6, <3>1 DEF Op, TriMin, V
  <2>7. CASE t = "OR"
    <3>1. \/ IsConst(l, "y") /\ x = yes
          \/ IsConst(l, "n") /\ x = r
          \/ IsConst(r, "y") /\ x = yes
          \/ IsConst(r, "n") /\ x = l
          \/ x = Two(t, l, r)
      BY <2>7 DEF Absorbed, yes, no
    <3> QED BY <2>2, <2>3, <2>4, <2>5, <2>7, <3>1 DEF Op, TriMax, V
  <2> QED BY <2>6, <2>7
<1> QED BY <1>5, <1>6, <1>7, <1>8 DEF Same

\* y or n stands somewhere in it.
IsReducible(x) == IsUnit(x) \/ Size(expr_eliminate_yn(x)) < Size(x)

\* All constants of a normal form are absorbed, and only constants.
LEMMA YnNormal ==
    ASSUME NEW x \in NF
    PROVE  /\ expr_eliminate_yn(x) \in NF /\ Size(expr_eliminate_yn(x)) <= Size(x)
           /\ Same(expr_eliminate_yn(x), x)
           /\ IsTwo(x) /\ (IsReducible(x.left) \/ IsReducible(x.right)) => IsReducible(x)
           /\ IsTwo(x) /\ IsReducible(x) => Size(expr_eliminate_yn(x)) < Size(x)
<1> DEFINE yn(y) == expr_eliminate_yn(y)
           P == {y \in NF : yn(y) \in NF /\ Size(yn(y)) <= Size(y) /\ Same(yn(y), y)}
<1>1. ASSUME NEW y \in Leaf PROVE y \in P
  <2>1. y \in NF /\ y \in Expr /\ ~IsTwo(y) BY <1>1, LeafIs, NormalParts
  <2>2. yn(y) = y BY <2>1, YnIs
  <2>3. Size(y) \in Nat BY <2>1, NormalParts
  <2> QED BY <2>1, <2>2, <2>3 DEF Same
<1>2. ASSUME NEW y \in NF, IsTwo(y), y.left \in P, y.right \in P
      PROVE  /\ y \in P
             /\ IsReducible(y.left) \/ IsReducible(y.right) => Size(yn(y)) < Size(y)
  <2> DEFINE l == yn(y.left)
             r == yn(y.right)
  <2>1. /\ y \in Expr /\ y.type \in {"AND", "OR"} /\ y.left \in NF /\ y.right \in NF
        /\ Size(y) = Size(y.left) + Size(y.right) /\ Size(y) \in 1..MaxOperands
        /\ y = Two(y.type, y.left, y.right)
    BY <1>2, NormalParts
  <2>2. yn(y) = Absorbed(y.type, l, r) BY <1>2, <2>1, YnIs
  <2>3. l \in NF /\ r \in NF /\ Size(l) <= Size(y.left) /\ Size(r) <= Size(y.right)
        /\ Same(l, y.left) /\ Same(r, y.right)
    BY <1>2
  <2>4. /\ Size(l) \in Nat /\ Size(r) \in Nat /\ Size(y.left) \in Nat /\ Size(y.right) \in Nat
        /\ MaxOperands \in Nat
    BY <2>1, <2>3, NormalParts, KExprAssumption
  <2>5. Size(l) + Size(r) <= MaxOperands BY <2>1, <2>3, <2>4
  <2> HIDE DEF l, r
  <2>6. /\ yn(y) \in NF /\ Size(yn(y)) <= Size(l) + Size(r)
        /\ Same(yn(y), Two(y.type, l, r))
        /\ IsUnit(l) \/ IsUnit(r) => Size(yn(y)) < Size(l) + Size(r)
    BY <2>1, <2>2, <2>3, <2>5, AbsorbedNormal
  <2>7. Two(y.type, l, r) \in NF BY <2>1, <2>3, <2>5, NormalTwo
  <2>8. Same(Two(y.type, l, r), y)
    <3>1. /\ Two(y.type, l, r) \in Expr /\ IsTwo(Two(y.type, l, r))
          /\ Two(y.type, l, r).type = y.type /\ Two(y.type, l, r).left = l /\ Two(y.type, l, r).right = r
      BY <2>1, <2>7, NormalParts DEF Two, IsTwo
    <3> QED BY <1>2, <2>1, <2>3, <3>1, ValueTwo DEF Same
  <2>9. Size(yn(y)) \in Nat BY <2>6, NormalParts
  <2>10. y \in P BY <2>1, <2>3, <2>4, <2>6, <2>8, <2>9 DEF Same
  <2>11. ASSUME IsReducible(y.left) \/ IsReducible(y.right) PROVE Size(yn(y)) < Size(y)
    <3>1. CASE IsUnit(y.left) \/ IsUnit(y.right)
      <4>1. \A z \in NF : IsUnit(z) => yn(z) = z
        <5> TAKE z \in NF
        <5>1. z \in Expr BY NormalParts
        <5> QED BY <5>1, YnIs DEF IsUnit, IsConst, IsTwo
      <4>2. IsUnit(l) \/ IsUnit(r) BY <2>1, <3>1, <4>1 DEF l, r
      <4> QED BY <2>1, <2>3, <2>4, <2>6, <2>9, <4>2
    <3>2. CASE Size(l) < Size(y.left) \/ Size(r) < Size(y.right)
      BY <2>1, <2>3, <2>4, <2>6, <2>9, <3>2
    <3> QED BY <2>11, <3>1, <3>2 DEF IsReducible, l, r
  <2> QED BY <2>10, <2>11
<1> HIDE DEF P
<1>3. NF \subseteq P BY <1>1, <1>2, NormalInduction
<1>4. IsTwo(x) => ~IsUnit(x) BY DEF IsTwo, IsUnit, IsConst
<1>5. IsTwo(x) /\ (IsReducible(x.left) \/ IsReducible(x.right)) => Size(yn(x)) < Size(x)
  BY <1>2, <1>3, NormalParts
<1> QED BY <1>3, <1>4, <1>5 DEF P, IsReducible

-----------------------------------------------------------------------------
(* Equality and the operands two expressions share.                        *)

\* What is left of two expressions when an operand k was taken from both.
Shared(t, e1, e2, p) ==
    \A val : IsCalculation(val) =>
       \E k \in 0..2 : /\ expr_calc_value(e1, val) = Op(t, k, expr_calc_value(p[1], val))
                       /\ expr_calc_value(e2, val) = Op(t, k, expr_calc_value(p[2], val))

SmallerPair(e1, e2) == {p \in NF \X NF : Size(p[1]) <= Size(e1) /\ Size(p[2]) <= Size(e2)}

\* What a call may answer.
Answers(c) == IF c.type = "EQ" THEN {b \in BOOLEAN : b => Same(c.e1, c.e2)}
              ELSE {p \in SmallerPair(c.e1, c.e2) : Shared(c.type, c.e1, c.e2, p)}

\* How much is left to do: a call that goes down the first or the second
\* expression, a question, a question about negations, a call at two operands.
CallMeasure(c) ==
    4 * (Size(c.e1) + Size(c.e2)) +
      IF c.type = "EQ" THEN IF c.e1.type = "NOT" THEN 2 ELSE 1
      ELSE IF c.type \in {c.e1.type, c.e2.type} THEN 0 ELSE 3

IsRight(g, n) == \A c \in Calls : CallMeasure(c) < n => g[c] \in Answers(c)
Agree(g, h, n) == \A c \in Calls : CallMeasure(c) < n => g[c] = h[c]

\* A call of one of expr.c's three procedures, and its measure.
LEMMA CallIs ==
    ASSUME NEW t \in {"EQ", "AND", "OR"}, NEW e1 \in NF, NEW e2 \in NF
    PROVE  /\ Call(t, e1, e2) \in Calls
           /\ Call(t, e1, e2).type = t /\ Call(t, e1, e2).e1 = e1 /\ Call(t, e1, e2).e2 = e2
           /\ CallMeasure(Call(t, e1, e2)) \in Nat
<1>1. Size(e1) \in Nat /\ Size(e2) \in Nat BY NormalParts
<1>2. Call(t, e1, e2).type = t /\ Call(t, e1, e2).e1 = e1 /\ Call(t, e1, e2).e2 = e2 BY DEF Call
<1>3. Call(t, e1, e2) \in Calls BY DEF Call, Calls, NF
<1>4. CallMeasure(Call(t, e1, e2)) \in Nat
  <2> DEFINE a == Size(e1)
             b == Size(e2)
             r == IF t = "EQ" THEN IF e1.type = "NOT" THEN 2 ELSE 1
                  ELSE IF t \in {e1.type, e2.type} THEN 0 ELSE 3
  <2>1. CallMeasure(Call(t, e1, e2)) = 4 * (a + b) + r BY <1>2 DEF CallMeasure
  <2>2. r \in Nat OBVIOUS
  <2>3. a \in Nat /\ b \in Nat BY <1>1
  <2> HIDE DEF a, b, r
  <2> QED BY <2>1, <2>2, <2>3
<1> QED BY <1>2, <1>3, <1>4

\* The answers of the calls that have less to do are right.
LEMMA RightEq ==
    ASSUME NEW g, NEW n \in Nat, IsRight(g, n), NEW e1 \in NF, NEW e2 \in NF,
           CallMeasure(Call("EQ", e1, e2)) < n
    PROVE  /\ g[Call("EQ", e1, e2)] \in BOOLEAN
           /\ g[Call("EQ", e1, e2)] => Same(e1, e2)
<1>1. Call("EQ", e1, e2) \in Calls BY CallIs
<1>2. g[Call("EQ", e1, e2)] \in Answers(Call("EQ", e1, e2)) BY <1>1 DEF IsRight
<1> QED BY <1>2, CallIs DEF Answers

\* What a call of expr_eliminate_eq's recursion gives, if it is right.
LEMMA RightPair ==
    ASSUME NEW g, NEW n \in Nat, IsRight(g, n), NEW t \in {"AND", "OR"}, NEW e1 \in NF, NEW e2 \in NF,
           CallMeasure(Call(t, e1, e2)) < n
    PROVE  /\ g[Call(t, e1, e2)] \in SmallerPair(e1, e2)
           /\ Shared(t, e1, e2, g[Call(t, e1, e2)])
<1>1. Call(t, e1, e2) \in Calls BY CallIs
<1>2. g[Call(t, e1, e2)] \in Answers(Call(t, e1, e2)) BY <1>1 DEF IsRight
<1> QED BY <1>2, CallIs DEF Answers

\* Two expressions that share an operand of a part.
LEMMA SharedTwo ==
    ASSUME NEW t \in {"AND", "OR"}, NEW x \in NF, x.type = t, NEW e \in NF,
           NEW p \in NF \X NF, NEW q \in NF \X NF,
           Shared(t, x.left, e, p), Shared(t, x.right, p[2], q),
           Size(p[1]) + Size(q[1]) <= MaxOperands
    PROVE  Shared(t, x, e, <<Two(t, p[1], q[1]), q[2]>>)
<1> DEFINE y == Two(t, p[1], q[1])
<1>1. IsTwo(x) /\ x \in Expr /\ x.left \in Expr /\ x.right \in Expr /\ e \in Expr
      /\ p[1] \in Expr /\ p[2] \in Expr /\ q[1] \in Expr /\ q[2] \in Expr
  BY NormalParts DEF IsTwo
<1>2. y \in Expr /\ IsTwo(y) /\ y.type = t /\ y.left = p[1] /\ y.right = q[1]
  BY NormalTwo, NormalParts DEF Two, IsTwo
<1> HIDE DEF y
<1>3. ASSUME NEW val, IsCalculation(val)
      PROVE  \E k \in 0..2 : /\ expr_calc_value(x, val) = Op(t, k, expr_calc_value(y, val))
                             /\ expr_calc_value(e, val) = Op(t, k, expr_calc_value(q[2], val))
  <2> DEFINE V(z) == expr_calc_value(z, val)
  <2>1. PICK a \in 0..2 : V(x.left) = Op(t, a, V(p[1])) /\ V(e) = Op(t, a, V(p[2]))
    BY <1>3 DEF Shared
  <2>2. PICK b \in 0..2 : V(x.right) = Op(t, b, V(q[1])) /\ V(p[2]) = Op(t, b, V(q[2]))
    BY <1>3 DEF Shared
  <2>3. V(x) = Op(t, V(x.left), V(x.right)) /\ V(y) = Op(t, V(p[1]), V(q[1]))
    BY <1>1, <1>2, <1>3, ValueTwo
  <2>4. V(p[1]) \in 0..2 /\ V(q[1]) \in 0..2 /\ V(q[2]) \in 0..2 BY <1>1, <1>3, ValueTwo
  <2> HIDE DEF V
  <2> DEFINE k == Op(t, a, b)
  <2>5. k \in 0..2 BY OpLaws
  <2>6. V(e) = Op(t, k, V(q[2])) BY <2>1, <2>2, <2>4, OpLaws
  <2>7. \A c \in 0..2, d \in 0..2 : Op(t, Op(t, a, c), Op(t, b, d)) = Op(t, Op(t, a, b), Op(t, c, d))
    BY DEF Op, TriMin, TriMax
  <2>8. V(x) = Op(t, k, V(y)) BY <2>1, <2>2, <2>3, <2>4, <2>7
  <2> QED BY <2>5, <2>6, <2>8 DEF V
<1>4. Shared(t, x, e, <<y, q[2]>>) BY <1>3 DEF Shared
<1> QED BY <1>4 DEF y

\* Which of the two expressions comes first does not matter.
LEMMA SharedSwap ==
    ASSUME NEW t, NEW e1, NEW e2, NEW p, Shared(t, e1, e2, p)
    PROVE  Shared(t, e2, e1, <<p[2], p[1]>>)
<1> DEFINE q == <<p[2], p[1]>>
<1>1. q[1] = p[2] /\ q[2] = p[1] OBVIOUS
<1> HIDE DEF q
<1>2. Shared(t, e2, e1, q) BY <1>1 DEF Shared
<1> QED BY <1>2 DEF q

\* What the two parts of x leave of it and of e.
LEMMA SmallerTwo ==
    ASSUME NEW t \in {"AND", "OR"}, NEW x \in NF, x.type = t, NEW e \in NF,
           NEW p \in SmallerPair(x.left, e), NEW q \in SmallerPair(x.right, p[2])
    PROVE  /\ Two(t, p[1], q[1]) \in NF /\ Size(Two(t, p[1], q[1])) <= Size(x)
           /\ q[2] \in NF /\ Size(q[2]) <= Size(e)
           /\ p \in NF \X NF /\ q \in NF \X NF
           /\ Size(p[1]) + Size(q[1]) <= MaxOperands
<1>1. /\ x.left \in NF /\ x.right \in NF /\ Size(x) = Size(x.left) + Size(x.right)
      /\ Size(x) \in 1..MaxOperands
  BY NormalParts DEF IsTwo
<1>2. /\ p[1] \in NF /\ p[2] \in NF /\ Size(p[1]) <= Size(x.left) /\ Size(p[2]) <= Size(e)
      /\ q[1] \in NF /\ q[2] \in NF /\ Size(q[1]) <= Size(x.right) /\ Size(q[2]) <= Size(p[2])
      /\ p \in NF \X NF /\ q \in NF \X NF
  BY DEF SmallerPair
<1>3. /\ Size(x.left) \in Nat /\ Size(x.right) \in Nat /\ Size(e) \in Nat /\ MaxOperands \in Nat
      /\ Size(p[1]) \in Nat /\ Size(p[2]) \in Nat /\ Size(q[1]) \in Nat /\ Size(q[2]) \in Nat
  BY <1>1, <1>2, NormalParts, KExprAssumption
<1>4. Size(p[1]) + Size(q[1]) <= Size(x) BY <1>1, <1>2, <1>3
<1>5. Size(p[1]) + Size(q[1]) <= MaxOperands BY <1>1, <1>3, <1>4
<1>6. Two(t, p[1], q[1]) \in NF /\ Size(Two(t, p[1], q[1])) = Size(p[1]) + Size(q[1])
  BY <1>2, <1>5, NormalTwo
<1>7. Size(q[2]) <= Size(e) BY <1>2, <1>3
<1> QED BY <1>2, <1>4, <1>5, <1>6, <1>7

\* A call for a part has less to do.
LEMMA PartMeasure ==
    ASSUME NEW t \in {"AND", "OR"}, NEW e1 \in NF, NEW e2 \in NF, NEW f1 \in NF, NEW f2 \in NF,
           t \in {e1.type, e2.type},
           Size(f1) + Size(f2) < Size(e1) + Size(e2)
    PROVE  CallMeasure(Call(t, f1, f2)) < CallMeasure(Call(t, e1, e2))
<1> DEFINE a == Size(e1) + Size(e2)
           b == Size(f1) + Size(f2)
           r == IF t \in {f1.type, f2.type} THEN 0 ELSE 3
<1>1. CallMeasure(Call(t, e1, e2)) = 4 * a + 0 BY CallIs DEF CallMeasure
<1>2. CallMeasure(Call(t, f1, f2)) = 4 * b + r BY CallIs DEF CallMeasure
<1>3. a \in Nat /\ b \in Nat /\ b < a BY NormalParts
<1>4. r \in {0, 3} OBVIOUS
<1> HIDE DEF a, b, r
<1> QED BY <1>1, <1>2, <1>3, <1>4

\* One step of __expr_eliminate_eq() is right when the calls it makes are:
\* the operands that both share are taken out of both.
LEMMA ElimRight ==
    ASSUME NEW t \in {"AND", "OR"}, NEW e1 \in NF, NEW e2 \in NF, NEW g,
           IsRight(g, CallMeasure(Call(t, e1, e2)))
    PROVE  /\ EliminateEq1(g, t, e1, e2) \in SmallerPair(e1, e2)
           /\ Shared(t, e1, e2, EliminateEq1(g, t, e1, e2))
<1> DEFINE n == CallMeasure(Call(t, e1, e2))
           R == EliminateEq1(g, t, e1, e2)
           Goal == R \in SmallerPair(e1, e2) /\ Shared(t, e1, e2, R)
<1> SUFFICES Goal OBVIOUS
<1>0. n \in Nat BY CallIs
<1>s. /\ Size(e1) \in Nat /\ Size(e2) \in Nat
      /\ \A e \in NF : Size(e) \in Nat
  BY NormalParts
<1>1. CASE e1.type = t
  <2> DEFINE p == g[Call(t, e1.left, e2)]
             q == g[Call(t, e1.right, p[2])]
  <2>1. /\ e1.left \in NF /\ e1.right \in NF
        /\ Size(e1.left) < Size(e1) /\ Size(e1.right) < Size(e1)
        /\ Size(e1.left) \in Nat /\ Size(e1.right) \in Nat
    BY <1>1, <1>s, NormalParts DEF IsTwo
  <2>2. CallMeasure(Call(t, e1.left, e2)) < n
    <3>1. Size(e1.left) + Size(e2) < Size(e1) + Size(e2) BY <1>s, <2>1
    <3> QED BY <1>1, <2>1, <3>1, PartMeasure
  <2> HIDE DEF n
  <2>3. p \in SmallerPair(e1.left, e2) /\ Shared(t, e1.left, e2, p)
    BY <1>0, <2>1, <2>2, RightPair DEF n
  <2> HIDE DEF p
  <2>4. p[2] \in NF /\ Size(p[2]) <= Size(e2) BY <2>3 DEF SmallerPair
  <2>5. CallMeasure(Call(t, e1.right, p[2])) < n
    <3>1. Size(e1.right) + Size(p[2]) < Size(e1) + Size(e2) BY <1>s, <2>1, <2>4
    <3> QED BY <1>1, <2>1, <2>4, <3>1, PartMeasure DEF n
  <2>6. q \in SmallerPair(e1.right, p[2]) /\ Shared(t, e1.right, p[2], q)
    BY <1>0, <2>1, <2>4, <2>5, RightPair DEF n
  <2>7. R = <<Two(t, p[1], q[1]), q[2]>> BY <1>1 DEF EliminateEq1, p
  <2> HIDE DEF q, R
  <2>8. /\ Two(t, p[1], q[1]) \in NF /\ Size(Two(t, p[1], q[1])) <= Size(e1)
        /\ q[2] \in NF /\ Size(q[2]) <= Size(e2)
        /\ p \in NF \X NF /\ q \in NF \X NF
        /\ Size(p[1]) + Size(q[1]) <= MaxOperands
    BY <1>1, <2>3, <2>6, SmallerTwo
  <2>9. R \in SmallerPair(e1, e2) BY <2>7, <2>8 DEF SmallerPair
  <2>10. Shared(t, e1, e2, <<Two(t, p[1], q[1]), q[2]>>)
    BY <1>1, <2>3, <2>6, <2>8, SharedTwo
  <2> QED BY <2>7, <2>9, <2>10
<1>2. CASE e1.type # t /\ e2.type = t
  <2> DEFINE p == g[Call(t, e1, e2.left)]
             q == g[Call(t, p[1], e2.right)]
             pp == <<p[2], p[1]>>
             qq == <<q[2], q[1]>>
  <2>1. /\ e2.left \in NF /\ e2.right \in NF
        /\ Size(e2.left) < Size(e2) /\ Size(e2.right) < Size(e2)
        /\ Size(e2.left) \in Nat /\ Size(e2.right) \in Nat
    BY <1>2, <1>s, NormalParts DEF IsTwo
  <2>2. CallMeasure(Call(t, e1, e2.left)) < n
    <3>1. Size(e1) + Size(e2.left) < Size(e1) + Size(e2) BY <1>s, <2>1
    <3> QED BY <1>2, <2>1, <3>1, PartMeasure
  <2> HIDE DEF n
  <2>3. p \in SmallerPair(e1, e2.left) /\ Shared(t, e1, e2.left, p)
    BY <1>0, <2>1, <2>2, RightPair DEF n
  <2> HIDE DEF p
  <2>4. p[1] \in NF /\ Size(p[1]) <= Size(e1) BY <2>3 DEF SmallerPair
  <2>5. CallMeasure(Call(t, p[1], e2.right)) < n
    <3>1. Size(p[1]) + Size(e2.right) < Size(e1) + Size(e2) BY <1>s, <2>1, <2>4
    <3> QED BY <1>2, <2>1, <2>4, <3>1, PartMeasure DEF n
  <2>6. q \in SmallerPair(p[1], e2.right) /\ Shared(t, p[1], e2.right, q)
    BY <1>0, <2>1, <2>4, <2>5, RightPair DEF n
  <2>7. R = <<q[1], Two(t, p[2], q[2])>> BY <1>2 DEF EliminateEq1, p
  <2> HIDE DEF q, R
  <2>8. pp[1] = p[2] /\ pp[2] = p[1] /\ qq[1] = q[2] /\ qq[2] = q[1] OBVIOUS
  <2>9. pp \in SmallerPair(e2.left, e1) /\ qq \in SmallerPair(e2.right, pp[2])
    BY <2>3, <2>6 DEF SmallerPair
  <2>10. Shared(t, e2.left, e1, pp) /\ Shared(t, e2.right, pp[2], qq)
    BY <2>3, <2>6, <2>8, SharedSwap
  <2> HIDE DEF pp, qq
  <2>11. /\ Two(t, pp[1], qq[1]) \in NF /\ Size(Two(t, pp[1], qq[1])) <= Size(e2)
         /\ qq[2] \in NF /\ Size(qq[2]) <= Size(e1)
         /\ pp \in NF \X NF /\ qq \in NF \X NF
         /\ Size(pp[1]) + Size(qq[1]) <= MaxOperands
    BY <1>2, <2>9, SmallerTwo
  <2>12. R \in SmallerPair(e1, e2) BY <2>7, <2>8, <2>11 DEF SmallerPair
  <2> DEFINE S == <<Two(t, pp[1], qq[1]), qq[2]>>
  <2>13. Shared(t, e2, e1, S)
    BY <1>2, <2>9, <2>10, <2>11, SharedTwo
  <2>14. R = <<S[2], S[1]>> BY <2>7, <2>8
  <2> HIDE DEF S
  <2>15. Shared(t, e1, e2, R) BY <2>13, <2>14, SharedSwap
  <2> QED BY <2>12, <2>15
<1>3. CASE e1.type # t /\ e2.type # t
  <2>1. CallMeasure(Call("EQ", e1, e2)) < n
    <3> DEFINE a == Size(e1) + Size(e2)
               r == IF e1.type = "NOT" THEN 2 ELSE 1
    <3>1. CallMeasure(Call("EQ", e1, e2)) = 4 * a + r BY CallIs DEF CallMeasure
    <3>2. n = 4 * a + 3 BY <1>3, CallIs DEF CallMeasure
    <3>3. a \in Nat /\ r \in {1, 2} BY <1>s
    <3> HIDE DEF a, r, n
    <3> QED BY <3>1, <3>2, <3>3
  <2> HIDE DEF n
  <2>2. g[Call("EQ", e1, e2)] => Same(e1, e2)
    BY <1>0, <2>1, RightEq DEF n
  <2>3. CASE R = <<e1, e2>>
    <3>1. R \in SmallerPair(e1, e2) BY <1>s, <2>3 DEF SmallerPair
    <3>2. ASSUME NEW val, IsCalculation(val)
          PROVE  \E k \in 0..2 : /\ expr_calc_value(e1, val) = Op(t, k, expr_calc_value(e1, val))
                                 /\ expr_calc_value(e2, val) = Op(t, k, expr_calc_value(e2, val))
      <4>1. expr_calc_value(e1, val) \in 0..2 /\ expr_calc_value(e2, val) \in 0..2
        BY <3>2, ValueTwo, NormalParts
      <4>2. \A a \in 0..2 : (t = "AND" => Op(t, 2, a) = a) /\ (t = "OR" => Op(t, 0, a) = a)
        BY DEF Op, TriMin, TriMax
      <4>3. CASE t = "AND" BY <4>1, <4>2, <4>3
      <4>4. CASE t = "OR" BY <4>1, <4>2, <4>4
      <4> QED BY <4>3, <4>4
    <3> QED BY <2>3, <3>1, <3>2 DEF Shared
  <2>4. CASE R = <<Unit(t), Unit(t)>> /\ Same(e1, e2)
    <3>1. Unit(t) \in NF /\ Size(Unit(t)) = 1 BY ConstantIs, LeafIs DEF Unit
    <3>2. Size(e1) >= 1 /\ Size(e2) >= 1 BY NormalParts
    <3>3. R \in SmallerPair(e1, e2) BY <2>4, <3>1, <3>2 DEF SmallerPair
    <3>4. ASSUME NEW val, IsCalculation(val)
          PROVE  \E k \in 0..2 : /\ expr_calc_value(e1, val) = Op(t, k, expr_calc_value(Unit(t), val))
                                 /\ expr_calc_value(e2, val) = Op(t, k, expr_calc_value(Unit(t), val))
      <4>1. expr_calc_value(e1, val) \in 0..2 /\ expr_calc_value(e2, val) = expr_calc_value(e1, val)
        BY <2>4, <3>4, ValueTwo, NormalParts DEF Same
      <4>2. expr_calc_value(Unit(t), val) = IF t = "OR" THEN 0 ELSE 2 BY <3>4, ConstantIs DEF Unit
      <4>3. \A a \in 0..2 : (t = "AND" => Op(t, a, 2) = a) /\ (t = "OR" => Op(t, a, 0) = a)
        BY DEF Op, TriMin, TriMax
      <4> QED BY <4>1, <4>2, <4>3
    <3> QED BY <2>4, <3>3, <3>4 DEF Shared
  <2>5. R = <<e1, e2>> \/ (R = <<Unit(t), Unit(t)>> /\ g[Call("EQ", e1, e2)])
    BY <1>3 DEF EliminateEq1
  <2> QED BY <2>2, <2>3, <2>4, <2>5
<1> QED BY <1>1, <1>2, <1>3

\* What holds of what is left holds of the expressions.
Follows(e1, e2, p) ==
    \A val : IsCalculation(val) =>
      /\ expr_calc_value(p[1], val) = expr_calc_value(p[2], val)
           => expr_calc_value(e1, val) = expr_calc_value(e2, val)
      /\ expr_calc_value(p[1], val) <= expr_calc_value(p[2], val)
           => expr_calc_value(e1, val) <= expr_calc_value(e2, val)

\* Once the shared operands are out, what is left tells how the two
\* expressions compare.
LEMMA SharedFollows ==
    ASSUME NEW t \in {"AND", "OR"}, NEW e1, NEW e2, NEW p \in NF \X NF, Shared(t, e1, e2, p)
    PROVE  Follows(e1, e2, p)
<1> SUFFICES ASSUME NEW val, IsCalculation(val)
             PROVE  /\ expr_calc_value(p[1], val) = expr_calc_value(p[2], val)
                         => expr_calc_value(e1, val) = expr_calc_value(e2, val)
                    /\ expr_calc_value(p[1], val) <= expr_calc_value(p[2], val)
                         => expr_calc_value(e1, val) <= expr_calc_value(e2, val)
  BY DEF Follows
<1>1. PICK k \in 0..2 : /\ expr_calc_value(e1, val) = Op(t, k, expr_calc_value(p[1], val))
                        /\ expr_calc_value(e2, val) = Op(t, k, expr_calc_value(p[2], val))
  BY DEF Shared
<1>2. p[1] \in Expr /\ p[2] \in Expr BY NormalParts
<1>3. expr_calc_value(p[1], val) \in 0..2 /\ expr_calc_value(p[2], val) \in 0..2 BY <1>2, ValueTwo
<1>4. \A a \in 0..2, b \in 0..2 : a <= b => Op(t, k, a) <= Op(t, k, b) BY DEF Op, TriMin, TriMax
<1> QED BY <1>1, <1>3, <1>4

\* Elimination by the operator of one expression and then of the other.
LEMMA EliminateRight ==
    ASSUME NEW e1 \in NF, NEW e2 \in NF, NEW g, NEW n \in Nat, IsRight(g, n),
           4 * (Size(e1) + Size(e2)) < n
    PROVE  /\ EliminateEq(g, e1, e2) \in SmallerPair(e1, e2)
           /\ Follows(e1, e2, EliminateEq(g, e1, e2))
<1> DEFINE p == <<e1, e2>>
           q == IF IsTwo(p[1]) THEN g[Call(p[1].type, p[1], p[2])] ELSE p
           r == IF q[1].type # q[2].type /\ IsTwo(q[2]) THEN g[Call(q[2].type, q[1], q[2])] ELSE q
           yn == <<expr_eliminate_yn(r[1]), expr_eliminate_yn(r[2])>>
<1>s. Size(e1) \in Nat /\ Size(e2) \in Nat /\ \A e \in NF : Size(e) \in Nat BY NormalParts
<1>1. EliminateEq(g, e1, e2) = yn
  <2>1. NoExpr \notin {e1, e2} BY NormalParts
  <2> QED BY <2>1 DEF EliminateEq
<1>2. \A f1 \in NF, f2 \in NF, t \in {"AND", "OR"} :
        t \in {f1.type, f2.type} => CallMeasure(Call(t, f1, f2)) = 4 * (Size(f1) + Size(f2))
  <2> TAKE f1 \in NF, f2 \in NF, t \in {"AND", "OR"}
  <2> HAVE t \in {f1.type, f2.type}
  <2> DEFINE a == Size(f1) + Size(f2)
  <2>1. a \in Nat BY <1>s
  <2>2. CallMeasure(Call(t, f1, f2)) = 4 * a + 0 BY CallIs DEF CallMeasure
  <2> HIDE DEF a
  <2>3. CallMeasure(Call(t, f1, f2)) = 4 * a BY <2>1, <2>2
  <2> QED BY <2>3 DEF a
<1>3. q \in SmallerPair(e1, e2) /\ Follows(e1, e2, q)
  <2>1. CASE IsTwo(e1)
    <3>1. e1.type \in {"AND", "OR"} /\ q = g[Call(e1.type, e1, e2)] BY <2>1 DEF IsTwo
    <3>2. CallMeasure(Call(e1.type, e1, e2)) < n BY <1>2, <3>1
    <3>3. q \in SmallerPair(e1, e2) /\ Shared(e1.type, e1, e2, q)
      BY <3>1, <3>2, RightPair
    <3> HIDE DEF q
    <3>4. q \in NF \X NF BY <3>3 DEF SmallerPair
    <3> QED BY <3>1, <3>3, <3>4, SharedFollows
  <2>2. CASE ~IsTwo(e1)
    <3>1. q = <<e1, e2>> BY <2>2
    <3> QED BY <1>s, <3>1 DEF SmallerPair, Follows
  <2> QED BY <2>1, <2>2
<1> HIDE DEF q
<1>4. q[1] \in NF /\ q[2] \in NF /\ Size(q[1]) <= Size(e1) /\ Size(q[2]) <= Size(e2)
      /\ Size(q[1]) \in Nat /\ Size(q[2]) \in Nat /\ q = <<q[1], q[2]>>
  BY <1>3, <1>s DEF SmallerPair
<1>5. r \in SmallerPair(q[1], q[2]) /\ Follows(q[1], q[2], r)
  <2>1. CASE q[1].type # q[2].type /\ IsTwo(q[2])
    <3> DEFINE t == q[2].type
    <3>1. t \in {"AND", "OR"} /\ r = g[Call(t, q[1], q[2])] BY <2>1 DEF IsTwo
    <3>2. CallMeasure(Call(t, q[1], q[2])) = 4 * (Size(q[1]) + Size(q[2])) BY <1>2, <1>4, <3>1
    <3>3. CallMeasure(Call(t, q[1], q[2])) < n
      <4>1. Size(q[1]) + Size(q[2]) <= Size(e1) + Size(e2) BY <1>4, <1>s
      <4> QED BY <1>4, <1>s, <3>2, <4>1
    <3>4. r \in SmallerPair(q[1], q[2]) /\ Shared(t, q[1], q[2], r)
      BY <1>4, <3>1, <3>3, RightPair
    <3> HIDE DEF r
    <3>5. r \in NF \X NF BY <3>4 DEF SmallerPair
    <3> QED BY <3>1, <3>4, <3>5, SharedFollows
  <2>2. CASE ~(q[1].type # q[2].type /\ IsTwo(q[2]))
    <3>1. r = q BY <2>2
    <3> HIDE DEF r
    <3> QED BY <1>4, <3>1 DEF SmallerPair, Follows
  <2> QED BY <2>1, <2>2
<1> HIDE DEF r
<1>6. r[1] \in NF /\ r[2] \in NF /\ Size(r[1]) <= Size(q[1]) /\ Size(r[2]) <= Size(q[2])
      /\ Size(r[1]) \in Nat /\ Size(r[2]) \in Nat
  BY <1>5, <1>s DEF SmallerPair
<1>7. /\ yn[1] \in NF /\ Size(yn[1]) <= Size(r[1]) /\ Same(yn[1], r[1])
      /\ yn[2] \in NF /\ Size(yn[2]) <= Size(r[2]) /\ Same(yn[2], r[2])
      /\ yn \in NF \X NF
  BY <1>6, YnNormal
<1> HIDE DEF yn
<1>8. Size(yn[1]) \in Nat /\ Size(yn[2]) \in Nat BY <1>7, <1>s
<1>9. Size(yn[1]) <= Size(e1) /\ Size(yn[2]) <= Size(e2) BY <1>4, <1>6, <1>7, <1>8, <1>s
<1>10. yn \in SmallerPair(e1, e2) BY <1>7, <1>9 DEF SmallerPair
<1>11. Follows(e1, e2, yn) BY <1>3, <1>5, <1>7 DEF Follows, Same
<1> QED BY <1>1, <1>10, <1>11

\* One step of expr_eq() is right when the calls it makes are.
LEMMA EqRight ==
    ASSUME NEW e1 \in NF, NEW e2 \in NF, NEW g, IsRight(g, CallMeasure(Call("EQ", e1, e2)))
    PROVE  Eq(g, e1, e2) \in BOOLEAN /\ (Eq(g, e1, e2) => Same(e1, e2))
<1> DEFINE n == CallMeasure(Call("EQ", e1, e2))
           W == Size(e1) + Size(e2)
<1>0. n \in Nat /\ W \in Nat BY CallIs, NormalParts
<1>a. n = 4 * W + (IF e1.type = "NOT" THEN 2 ELSE 1) BY CallIs DEF CallMeasure
<1>b. Eq(g, e1, e2) \in BOOLEAN BY DEF Eq, SameSymbol
<1> SUFFICES ASSUME Eq(g, e1, e2) PROVE Same(e1, e2) BY <1>b
<1>1. e1.type = e2.type BY DEF Eq
<1>2. CASE e1 \in Leaf /\ e1.type # "NOT"
  <2>1. e1 \in Atom /\ e2 \in Atom
    <3>1. ~IsTwo(e1) /\ e1.type \notin {"AND", "OR"} BY <1>2, LeafIs DEF IsTwo
    <3>2. e2 \in Leaf BY <1>1, <3>1, NormalParts DEF IsTwo
    <3> QED BY <1>1, <1>2, <3>2, LeafIs
  <2>2. e1.type \in Compares \cup {"SYMBOL"} BY <2>1 DEF Atom, Symbols, Comparings, Compares
  <2>3. CASE e1.type \in Compares
    <3>1. e1.sym = e2.sym /\ e1.sym2 = e2.sym2 BY <1>1, <2>3 DEF Eq, Compares
    <3>2. e1 = Comp(e1.type, e1.sym, e1.sym2) BY <2>1, <2>3, AtomSyms
    <3>3. e2.type \in Compares BY <1>1, <2>3
    <3>4. e2 = Comp(e2.type, e2.sym, e2.sym2) BY <2>1, <3>3, AtomSyms
    <3>5. e1 = e2 BY <1>1, <3>1, <3>2, <3>4
    <3> QED BY <3>5 DEF Same
  <2>4. CASE e1.type = "SYMBOL"
    <3>1. e1.sym = e2.sym BY <1>1, <2>4 DEF Eq, Compares
    <3>2. e1 = SymbolExpr(e1.sym) BY <2>1, <2>4, AtomSyms
    <3>3. e2.type = "SYMBOL" BY <1>1, <2>4
    <3>4. e2 = SymbolExpr(e2.sym) BY <2>1, <3>3, AtomSyms
    <3>5. e1 = e2 BY <3>1, <3>2, <3>4
    <3> QED BY <3>5 DEF Same
  <2> QED BY <2>2, <2>3, <2>4
<1>3. CASE e1.type = "NOT"
  <2>1. /\ e1 \in Leaf /\ e2 \in Leaf /\ e1 \notin Atom /\ e2 \notin Atom
    <3>1. ~IsTwo(e1) /\ ~IsTwo(e2) BY <1>1, <1>3 DEF IsTwo
    <3>2. \A e \in Atom : e.type # "NOT" BY DEF Atom, Symbols, Comparings, Compares
    <3> QED BY <1>1, <1>3, <3>1, <3>2, NormalParts
  <2>2. e1.left \in Symbols /\ e2.left \in Symbols BY <2>1, LeafIs
  <2>3. /\ e1.left \in NF /\ e2.left \in NF /\ Size(e1.left) = 1 /\ Size(e2.left) = 1
        /\ Size(e1) = 1 /\ Size(e2) = 1 /\ e1.left.type = "SYMBOL"
    BY <2>1, <2>2, LeafIs DEF Leaf, Atom, Symbols
  <2>4. CallMeasure(Call("EQ", e1.left, e2.left)) < n
    <3>1. CallMeasure(Call("EQ", e1.left, e2.left)) = 9
      <4> DEFINE c == Call("EQ", e1.left, e2.left)
      <4>1. c.type = "EQ" /\ c.e1 = e1.left /\ c.e2 = e2.left BY <2>3, CallIs
      <4> HIDE DEF c
      <4>2. CallMeasure(c) = 4 * (Size(e1.left) + Size(e2.left)) + 1 BY <2>3, <4>1 DEF CallMeasure
      <4> QED BY <2>3, <4>2 DEF c
    <3>2. n = 4 * W + 2 BY <1>3, <1>a
    <3>3. W = 2 BY <2>3
    <3> HIDE DEF n, W
    <3> QED BY <3>1, <3>2, <3>3
  <2>5. g[Call("EQ", e1.left, e2.left)] BY <1>3 DEF Eq, Compares
  <2> HIDE DEF n
  <2>6. Same(e1.left, e2.left) BY <1>0, <2>3, <2>4, <2>5, RightEq DEF n
  <2>7. \A val : IsCalculation(val) =>
          /\ expr_calc_value(e1, val) = TriNot(expr_calc_value(e1.left, val))
          /\ expr_calc_value(e2, val) = TriNot(expr_calc_value(e2.left, val))
    BY <1>1, <1>3, NormalParts, Value, CalculationAssigns
  <2> QED BY <2>6, <2>7 DEF Same
<1>4. CASE IsTwo(e1)
  <2> DEFINE p == EliminateEq(g, e1, e2)
  <2>1. SameSymbol(p) BY <1>4 DEF Eq, Compares, IsTwo
  <2>2. 4 * W < n
    <3>1. n = 4 * W + 1 BY <1>4, <1>a DEF IsTwo
    <3> HIDE DEF n, W
    <3> QED BY <1>0, <3>1
  <2> HIDE DEF n
  <2>3. p \in SmallerPair(e1, e2) /\ Follows(e1, e2, p) BY <1>0, <2>2, EliminateRight DEF n
  <2> HIDE DEF p
  <2>4. p[1] = p[2]
    <3>1. p[1] \in Expr /\ p[2] \in Expr BY <2>3, NormalParts DEF SmallerPair
    <3>2. /\ p[1].type = "SYMBOL" /\ p[2].type = "SYMBOL" /\ p[1].sym = p[2].sym
      BY <2>1 DEF SameSymbol
    <3>3. p[1] \in Atom /\ p[2] \in Atom BY <3>1, <3>2, PartsOf DEF NoExpr, IsTwo
    <3> QED BY <3>2, <3>3, AtomSyms
  <2> QED BY <2>3, <2>4 DEF Follows, Same
<1>5. e1 \in Leaf \/ IsTwo(e1) BY NormalParts
<1> QED BY <1>2, <1>3, <1>4, <1>5

\* What a call does depends only on the answers of the calls that have less to do.
LEMMA AgreeIs ==
    ASSUME NEW g, NEW h, NEW n \in Nat, Agree(g, h, n), NEW t \in {"EQ", "AND", "OR"},
           NEW e1 \in NF, NEW e2 \in NF, CallMeasure(Call(t, e1, e2)) < n
    PROVE  g[Call(t, e1, e2)] = h[Call(t, e1, e2)]
  BY CallIs DEF Agree

\* __expr_eliminate_eq() depends on smaller calls only.
LEMMA ElimAgrees ==
    ASSUME NEW t \in {"AND", "OR"}, NEW e1 \in NF, NEW e2 \in NF, NEW g, NEW h,
           IsRight(g, CallMeasure(Call(t, e1, e2))), Agree(g, h, CallMeasure(Call(t, e1, e2)))
    PROVE  EliminateEq1(g, t, e1, e2) = EliminateEq1(h, t, e1, e2)
<1> DEFINE n == CallMeasure(Call(t, e1, e2))
<1>0. n \in Nat BY CallIs
<1>s. /\ Size(e1) \in Nat /\ Size(e2) \in Nat
      /\ \A e \in NF : Size(e) \in Nat
  BY NormalParts
<1>1. CASE e1.type = t
  <2> DEFINE p == g[Call(t, e1.left, e2)]
             q == g[Call(t, e1.right, p[2])]
  <2>1. /\ e1.left \in NF /\ e1.right \in NF
        /\ Size(e1.left) < Size(e1) /\ Size(e1.right) < Size(e1)
        /\ Size(e1.left) \in Nat /\ Size(e1.right) \in Nat
    BY <1>1, <1>s, NormalParts DEF IsTwo
  <2>2. CallMeasure(Call(t, e1.left, e2)) < n
    <3>1. Size(e1.left) + Size(e2) < Size(e1) + Size(e2) BY <1>s, <2>1
    <3> QED BY <1>1, <2>1, <3>1, PartMeasure
  <2> HIDE DEF n
  <2>3. p \in SmallerPair(e1.left, e2) /\ p = h[Call(t, e1.left, e2)]
    BY <1>0, <2>1, <2>2, RightPair, AgreeIs DEF n
  <2> HIDE DEF p
  <2>4. p[2] \in NF /\ Size(p[2]) <= Size(e2) BY <2>3 DEF SmallerPair
  <2>5. CallMeasure(Call(t, e1.right, p[2])) < n
    <3>1. Size(e1.right) + Size(p[2]) < Size(e1) + Size(e2) BY <1>s, <2>1, <2>4
    <3> QED BY <1>1, <2>1, <2>4, <3>1, PartMeasure DEF n
  <2>6. q = h[Call(t, e1.right, p[2])] BY <1>0, <2>1, <2>4, <2>5, AgreeIs DEF n
  <2>7. EliminateEq1(g, t, e1, e2) = <<Two(t, p[1], q[1]), q[2]>> BY <1>1 DEF EliminateEq1, p
  <2>8. EliminateEq1(h, t, e1, e2) = <<Two(t, p[1], q[1]), q[2]>> BY <1>1, <2>3, <2>6 DEF EliminateEq1
  <2> QED BY <2>7, <2>8
<1>2. CASE e1.type # t /\ e2.type = t
  <2> DEFINE p == g[Call(t, e1, e2.left)]
             q == g[Call(t, p[1], e2.right)]
  <2>1. /\ e2.left \in NF /\ e2.right \in NF
        /\ Size(e2.left) < Size(e2) /\ Size(e2.right) < Size(e2)
        /\ Size(e2.left) \in Nat /\ Size(e2.right) \in Nat
    BY <1>2, <1>s, NormalParts DEF IsTwo
  <2>2. CallMeasure(Call(t, e1, e2.left)) < n
    <3>1. Size(e1) + Size(e2.left) < Size(e1) + Size(e2) BY <1>s, <2>1
    <3> QED BY <1>2, <2>1, <3>1, PartMeasure
  <2> HIDE DEF n
  <2>3. p \in SmallerPair(e1, e2.left) /\ p = h[Call(t, e1, e2.left)]
    BY <1>0, <2>1, <2>2, RightPair, AgreeIs DEF n
  <2> HIDE DEF p
  <2>4. p[1] \in NF /\ Size(p[1]) <= Size(e1) BY <2>3 DEF SmallerPair
  <2>5. CallMeasure(Call(t, p[1], e2.right)) < n
    <3>1. Size(p[1]) + Size(e2.right) < Size(e1) + Size(e2) BY <1>s, <2>1, <2>4
    <3> QED BY <1>2, <2>1, <2>4, <3>1, PartMeasure DEF n
  <2>6. q = h[Call(t, p[1], e2.right)] BY <1>0, <2>1, <2>4, <2>5, AgreeIs DEF n
  <2>7. EliminateEq1(g, t, e1, e2) = <<q[1], Two(t, p[2], q[2])>> BY <1>2 DEF EliminateEq1, p
  <2>8. EliminateEq1(h, t, e1, e2) = <<q[1], Two(t, p[2], q[2])>> BY <1>2, <2>3, <2>6 DEF EliminateEq1
  <2> QED BY <2>7, <2>8
<1>3. CASE e1.type # t /\ e2.type # t
  <2>1. CallMeasure(Call("EQ", e1, e2)) < n
    <3> DEFINE a == Size(e1) + Size(e2)
               r == IF e1.type = "NOT" THEN 2 ELSE 1
    <3>1. CallMeasure(Call("EQ", e1, e2)) = 4 * a + r BY CallIs DEF CallMeasure
    <3>2. n = 4 * a + 3 BY <1>3, CallIs DEF CallMeasure
    <3>3. a \in Nat /\ r \in {1, 2} BY <1>s
    <3> HIDE DEF a, r, n
    <3> QED BY <3>1, <3>2, <3>3
  <2> HIDE DEF n
  <2>2. g[Call("EQ", e1, e2)] = h[Call("EQ", e1, e2)] BY <1>0, <2>1, AgreeIs DEF n
  <2> QED BY <1>3, <2>2 DEF EliminateEq1
<1> QED BY <1>1, <1>2, <1>3

\* expr_eliminate_eq() depends on smaller calls only.
LEMMA EliminateAgrees ==
    ASSUME NEW e1 \in NF, NEW e2 \in NF, NEW g, NEW h, NEW n \in Nat, IsRight(g, n), Agree(g, h, n),
           4 * (Size(e1) + Size(e2)) < n
    PROVE  EliminateEq(g, e1, e2) = EliminateEq(h, e1, e2)
<1> DEFINE q == IF IsTwo(e1) THEN g[Call(e1.type, e1, e2)] ELSE <<e1, e2>>
           q2 == IF IsTwo(e1) THEN h[Call(e1.type, e1, e2)] ELSE <<e1, e2>>
           r == IF q[1].type # q[2].type /\ IsTwo(q[2]) THEN g[Call(q[2].type, q[1], q[2])] ELSE q
           r2 == IF q2[1].type # q2[2].type /\ IsTwo(q2[2]) THEN h[Call(q2[2].type, q2[1], q2[2])] ELSE q2
<1>s. Size(e1) \in Nat /\ Size(e2) \in Nat /\ \A e \in NF : Size(e) \in Nat BY NormalParts
<1>1. /\ EliminateEq(g, e1, e2) = <<expr_eliminate_yn(r[1]), expr_eliminate_yn(r[2])>>
      /\ EliminateEq(h, e1, e2) = <<expr_eliminate_yn(r2[1]), expr_eliminate_yn(r2[2])>>
  <2>1. NoExpr \notin {e1, e2} BY NormalParts
  <2>2. <<e1, e2>>[1] = e1 /\ <<e1, e2>>[2] = e2 OBVIOUS
  <2> QED BY <2>1, <2>2 DEF EliminateEq
<1>2. \A f1 \in NF, f2 \in NF, t \in {"AND", "OR"} :
        t \in {f1.type, f2.type} => CallMeasure(Call(t, f1, f2)) = 4 * (Size(f1) + Size(f2))
  <2> TAKE f1 \in NF, f2 \in NF, t \in {"AND", "OR"}
  <2> HAVE t \in {f1.type, f2.type}
  <2> DEFINE a == Size(f1) + Size(f2)
  <2>1. a \in Nat BY <1>s
  <2>2. CallMeasure(Call(t, f1, f2)) = 4 * a + 0 BY CallIs DEF CallMeasure
  <2> HIDE DEF a
  <2>3. CallMeasure(Call(t, f1, f2)) = 4 * a BY <2>1, <2>2
  <2> QED BY <2>3 DEF a
<1>3. q \in SmallerPair(e1, e2) /\ q = q2
  <2>1. CASE IsTwo(e1)
    <3>1. e1.type \in {"AND", "OR"} BY <2>1 DEF IsTwo
    <3>2. CallMeasure(Call(e1.type, e1, e2)) < n BY <1>2, <3>1
    <3>3. g[Call(e1.type, e1, e2)] \in SmallerPair(e1, e2) BY <3>1, <3>2, RightPair
    <3>4. g[Call(e1.type, e1, e2)] = h[Call(e1.type, e1, e2)] BY <3>1, <3>2, AgreeIs
    <3> QED BY <2>1, <3>3, <3>4
  <2>2. CASE ~IsTwo(e1) BY <1>s, <2>2 DEF SmallerPair
  <2> QED BY <2>1, <2>2
<1> HIDE DEF q, q2
<1>4. q[1] \in NF /\ q[2] \in NF /\ Size(q[1]) <= Size(e1) /\ Size(q[2]) <= Size(e2)
      /\ Size(q[1]) \in Nat /\ Size(q[2]) \in Nat
  BY <1>3, <1>s DEF SmallerPair
<1>5. r = r2
  <2>1. CASE q[1].type # q[2].type /\ IsTwo(q[2])
    <3> DEFINE t == q[2].type
    <3>1. t \in {"AND", "OR"} BY <2>1 DEF IsTwo
    <3>2. CallMeasure(Call(t, q[1], q[2])) = 4 * (Size(q[1]) + Size(q[2])) BY <1>2, <1>4, <3>1
    <3>3. CallMeasure(Call(t, q[1], q[2])) < n
      <4>1. Size(q[1]) + Size(q[2]) <= Size(e1) + Size(e2) BY <1>4, <1>s
      <4> QED BY <1>4, <1>s, <3>2, <4>1
    <3>4. g[Call(t, q[1], q[2])] = h[Call(t, q[1], q[2])] BY <1>4, <3>1, <3>3, AgreeIs
    <3> QED BY <1>3, <2>1, <3>4
  <2>2. CASE ~(q[1].type # q[2].type /\ IsTwo(q[2])) BY <1>3, <2>2
  <2> QED BY <2>1, <2>2
<1> QED BY <1>1, <1>5

\* expr_eq() depends on smaller calls only.
LEMMA EqAgrees ==
    ASSUME NEW e1 \in NF, NEW e2 \in NF, NEW g, NEW h,
           IsRight(g, CallMeasure(Call("EQ", e1, e2))), Agree(g, h, CallMeasure(Call("EQ", e1, e2)))
    PROVE  Eq(g, e1, e2) = Eq(h, e1, e2)
<1> DEFINE n == CallMeasure(Call("EQ", e1, e2))
           W == Size(e1) + Size(e2)
<1>0. n \in Nat /\ W \in Nat BY CallIs, NormalParts
<1>a. n = 4 * W + (IF e1.type = "NOT" THEN 2 ELSE 1) BY CallIs DEF CallMeasure
<1>1. CASE e1.type # e2.type BY <1>1 DEF Eq
<1>2. CASE e1.type = e2.type /\ e1.type # "NOT" /\ ~IsTwo(e1)
  <2>1. e1.type \in Compares \cup {"SYMBOL"} BY <1>2, NormalParts, PartsOf DEF NoExpr
  <2> QED BY <1>2, <2>1 DEF Eq, Compares
<1>3. CASE e1.type = e2.type /\ e1.type = "NOT"
  <2>1. /\ e1 \in Leaf /\ e2 \in Leaf /\ e1 \notin Atom /\ e2 \notin Atom
    <3>1. ~IsTwo(e1) /\ ~IsTwo(e2) BY <1>3 DEF IsTwo
    <3>2. \A e \in Atom : e.type # "NOT" BY DEF Atom, Symbols, Comparings, Compares
    <3> QED BY <1>3, <3>1, <3>2, NormalParts
  <2>2. e1.left \in Symbols /\ e2.left \in Symbols BY <2>1, LeafIs
  <2>3. /\ e1.left \in NF /\ e2.left \in NF /\ Size(e1.left) = 1 /\ Size(e2.left) = 1
        /\ Size(e1) = 1 /\ Size(e2) = 1 /\ e1.left.type = "SYMBOL"
    BY <2>1, <2>2, LeafIs DEF Leaf, Atom, Symbols
  <2>4. CallMeasure(Call("EQ", e1.left, e2.left)) < n
    <3>1. CallMeasure(Call("EQ", e1.left, e2.left)) = 9
      <4> DEFINE c == Call("EQ", e1.left, e2.left)
      <4>1. c.type = "EQ" /\ c.e1 = e1.left /\ c.e2 = e2.left BY <2>3, CallIs
      <4> HIDE DEF c
      <4>2. CallMeasure(c) = 4 * (Size(e1.left) + Size(e2.left)) + 1 BY <2>3, <4>1 DEF CallMeasure
      <4> QED BY <2>3, <4>2 DEF c
    <3>2. n = 4 * W + 2 BY <1>3, <1>a
    <3>3. W = 2 BY <2>3
    <3> HIDE DEF n, W
    <3> QED BY <3>1, <3>2, <3>3
  <2> HIDE DEF n
  <2>5. g[Call("EQ", e1.left, e2.left)] = h[Call("EQ", e1.left, e2.left)]
    BY <1>0, <2>3, <2>4, AgreeIs DEF n
  <2> QED BY <1>3, <2>5 DEF Eq, Compares
<1>4. CASE e1.type = e2.type /\ IsTwo(e1)
  <2>2. 4 * W < n
    <3>1. n = 4 * W + 1 BY <1>4, <1>a DEF IsTwo
    <3> HIDE DEF n, W
    <3> QED BY <1>0, <3>1
  <2> HIDE DEF n
  <2>3. EliminateEq(g, e1, e2) = EliminateEq(h, e1, e2) BY <1>0, <2>2, EliminateAgrees DEF n
  <2> QED BY <1>4, <2>3 DEF Eq, Compares, IsTwo
<1> QED BY <1>1, <1>2, <1>3, <1>4

-----------------------------------------------------------------------------
(* The calls.                                                              *)

\* What a call does, with the answers g to the calls it makes.
Body(g, c) == IF c.type = "EQ" THEN Eq(g, c.e1, c.e2) ELSE EliminateEq1(g, c.type, c.e1, c.e2)

\* The parts of a call.
LEMMA CallParts ==
    ASSUME NEW c \in Calls
    PROVE  /\ c.type \in {"EQ", "AND", "OR"} /\ c.e1 \in NF /\ c.e2 \in NF
           /\ c = Call(c.type, c.e1, c.e2)
  BY DEF Calls, Call, NF

\* A call is answered rightly when the smaller ones are.
LEMMA BodyRight ==
    ASSUME NEW c \in Calls, NEW g, IsRight(g, CallMeasure(c))
    PROVE  Body(g, c) \in Answers(c)
<1> DEFINE t == c.type
           e1 == c.e1
           e2 == c.e2
<1>1. t \in {"EQ", "AND", "OR"} /\ e1 \in NF /\ e2 \in NF /\ c = Call(t, e1, e2) BY CallParts
<1>2. CASE t = "EQ"
  <2>1. IsRight(g, CallMeasure(Call("EQ", e1, e2))) BY <1>1, <1>2
  <2>2. Eq(g, e1, e2) \in BOOLEAN /\ (Eq(g, e1, e2) => Same(e1, e2)) BY <1>1, <2>1, EqRight
  <2> QED BY <1>2, <2>2 DEF Body, Answers
<1>3. CASE t \in {"AND", "OR"}
  <2>1. IsRight(g, CallMeasure(Call(t, e1, e2))) BY <1>1
  <2>2. /\ EliminateEq1(g, t, e1, e2) \in SmallerPair(e1, e2)
        /\ Shared(t, e1, e2, EliminateEq1(g, t, e1, e2))
    BY <1>1, <1>3, <2>1, ElimRight
  <2> QED BY <1>3, <2>2 DEF Body, Answers
<1> QED BY <1>1, <1>2, <1>3

\* The answer to a call depends on the smaller ones only.
LEMMA BodyAgrees ==
    ASSUME NEW c \in Calls, NEW g, NEW h, IsRight(g, CallMeasure(c)), Agree(g, h, CallMeasure(c))
    PROVE  Body(g, c) = Body(h, c)
<1> DEFINE t == c.type
           e1 == c.e1
           e2 == c.e2
<1>1. t \in {"EQ", "AND", "OR"} /\ e1 \in NF /\ e2 \in NF /\ c = Call(t, e1, e2) BY CallParts
<1>2. CASE t = "EQ"
  <2>1. IsRight(g, CallMeasure(Call("EQ", e1, e2))) /\ Agree(g, h, CallMeasure(Call("EQ", e1, e2)))
    BY <1>1, <1>2
  <2>2. Eq(g, e1, e2) = Eq(h, e1, e2) BY <1>1, <2>1, EqAgrees
  <2> QED BY <1>2, <2>2 DEF Body
<1>3. CASE t \in {"AND", "OR"}
  <2>1. IsRight(g, CallMeasure(Call(t, e1, e2))) /\ Agree(g, h, CallMeasure(Call(t, e1, e2))) BY <1>1
  <2>2. EliminateEq1(g, t, e1, e2) = EliminateEq1(h, t, e1, e2)
    BY <1>1, <1>3, <2>1, ElimAgrees
  <2> QED BY <1>3, <2>2 DEF Body
<1> QED BY <1>1, <1>2, <1>3

\* Every call has a right answer.
LEMMA AnswerExists ==
    ASSUME NEW c \in Calls
    PROVE  CallMeasure(c) \in Nat /\ Answers(c) # {}
<1>1. c.type \in {"EQ", "AND", "OR"} /\ c.e1 \in NF /\ c.e2 \in NF /\ c = Call(c.type, c.e1, c.e2) BY CallParts
<1>2. CallMeasure(c) \in Nat BY <1>1, CallIs
<1>3. CASE c.type = "EQ"
  <2>1. FALSE \in Answers(c) BY <1>3 DEF Answers
  <2> QED BY <1>2, <2>1
<1>4. CASE c.type # "EQ"
  <2> DEFINE e1 == c.e1
             e2 == c.e2
             t == c.type
             p == <<e1, e2>>
  <2>1. p[1] = e1 /\ p[2] = e2 /\ t \in {"AND", "OR"} BY <1>1, <1>4
  <2>2. p \in SmallerPair(e1, e2)
    <3>1. Size(e1) \in Nat /\ Size(e2) \in Nat BY <1>1, NormalParts
    <3> QED BY <1>1, <3>1 DEF SmallerPair
  <2>3. e1 \in Expr /\ e2 \in Expr BY <1>1, NormalParts
  <2> HIDE DEF p, e1, e2, t
  <2>4. ASSUME NEW val, IsCalculation(val)
        PROVE  \E k \in 0..2 : /\ expr_calc_value(e1, val) = Op(t, k, expr_calc_value(p[1], val))
                               /\ expr_calc_value(e2, val) = Op(t, k, expr_calc_value(p[2], val))
    <3>1. expr_calc_value(e1, val) \in 0..2 /\ expr_calc_value(e2, val) \in 0..2
      BY <2>3, <2>4, ValueTwo
    <3>2. \A a \in 0..2 : (t = "AND" => Op(t, 2, a) = a) /\ (t = "OR" => Op(t, 0, a) = a)
      BY DEF Op, TriMin, TriMax
    <3>3. CASE t = "AND" BY <2>1, <3>1, <3>2, <3>3
    <3>4. CASE t = "OR" BY <2>1, <3>1, <3>2, <3>4
    <3> QED BY <2>1, <3>3, <3>4
  <2>5. Shared(t, e1, e2, p) BY <2>4 DEF Shared
  <2>6. p \in Answers(c) BY <1>4, <2>2, <2>5 DEF Answers, e1, e2, t
  <2> QED BY <1>2, <2>6
<1> QED BY <1>3, <1>4

\* The procedures end, and every call has a right answer.
LEMMA ResultIs ==
    \A c \in Calls : Result[c] = Body(Result, c) /\ Result[c] \in Answers(c)
<1> DEFINE mu == [c \in Calls |-> CallMeasure(c)]
           Val == [c \in Calls |-> Answers(c)]
           G == Choices(Calls, Val)
           B == [g \in G |-> [c \in Calls |-> Body(g, c)]]
<1>1. \A c \in Calls : mu[c] = CallMeasure(c) /\ mu[c] \in Nat /\ Val[c] = Answers(c) /\ Val[c] # {}
  BY AnswerExists
<1>2. \A g \in G, c \in Calls : B[g][c] = Body(g, c) OBVIOUS
<1> HIDE DEF mu, Val, B
<1>3. ASSUME NEW g \in G, NEW c \in Calls, \A d \in Calls : mu[d] < mu[c] => g[d] \in Val[d]
      PROVE  B[g][c] \in Val[c]
  <2>1. IsRight(g, CallMeasure(c)) BY <1>1, <1>3 DEF IsRight
  <2> QED BY <1>1, <1>2, <2>1, BodyRight
<1>4. ASSUME NEW g \in G, NEW h \in G, NEW c \in Calls,
             \A d \in Calls : mu[d] < mu[c] => g[d] = h[d] /\ g[d] \in Val[d]
      PROVE  B[g][c] = B[h][c]
  <2>1. IsRight(g, CallMeasure(c)) /\ Agree(g, h, CallMeasure(c)) BY <1>1, <1>4 DEF IsRight, Agree
  <2> QED BY <1>2, <2>1, BodyAgrees
<1>5. IsBody(Calls, mu, Val, B) BY <1>1, <1>3, <1>4 DEF IsBody
<1>6. PICK f \in G : \A c \in Calls : f[c] = B[f][c] /\ f[c] \in Val[c]
  <2>1. \E f \in Choices(Calls, Val) : \A c \in Calls : f[c] = B[f][c] /\ f[c] \in Val[c]
    BY <1>5, Recursion
  <2> QED BY <2>1
<1>7. f = [c \in Calls |-> f[c]] BY DEF Choices
<1>8. \A c \in Calls : f[c] = Body(f, c)
  <2> HIDE DEF G
  <2> QED BY <1>2, <1>6
<1>9. f = [c \in Calls |-> Body(f, c)] BY <1>7, <1>8
<1>10. \E g : g = [c \in Calls |-> Body(g, c)] BY <1>9
<1>11. Result = CHOOSE g : g = [c \in Calls |-> Body(g, c)] BY DEF Result, Body
<1>12. Result = [c \in Calls |-> Body(Result, c)] BY <1>10, <1>11
<1>13. \A c \in Calls : Result[c] = Body(Result, c)
  <2> DEFINE R == Result
  <2>1. R = [c \in Calls |-> Body(R, c)] BY <1>12
  <2> HIDE DEF R
  <2>2. \A c \in Calls : R[c] = Body(R, c) BY <2>1
  <2> QED BY <2>2 DEF R
<1> DEFINE P == {c \in Calls : Result[c] \in Answers(c)}
<1>14. ASSUME NEW c \in Calls, \A d \in Calls : mu[d] < mu[c] => d \in P
       PROVE  c \in P
  <2>1. IsRight(Result, CallMeasure(c)) BY <1>1, <1>14 DEF IsRight
  <2>2. Body(Result, c) \in Answers(c) BY <2>1, BodyRight
  <2> QED BY <1>13, <2>2
<1> HIDE DEF P
<1>15. Calls \subseteq P BY <1>1, <1>14, MeasureInduction
<1> QED BY <1>13, <1>15 DEF P

\* Expressions that are found equal have the same value.
THEOREM EqIsSame ==
    ASSUME NEW e1 \in NF, NEW e2 \in NF
    PROVE  expr_eq(e1, e2) \in BOOLEAN /\ (expr_eq(e1, e2) => Same(e1, e2))
<1>1. Call("EQ", e1, e2) \in Calls BY CallIs
<1>2. Result[Call("EQ", e1, e2)] \in Answers(Call("EQ", e1, e2)) BY <1>1, ResultIs
<1> QED BY <1>2, CallIs DEF Answers, expr_eq

\* What is left of two expressions tells which is worth more.
THEOREM EliminateEqFollows ==
    ASSUME NEW e1 \in NF, NEW e2 \in NF
    PROVE  /\ expr_eliminate_eq(e1, e2) \in SmallerPair(e1, e2)
           /\ Follows(e1, e2, expr_eliminate_eq(e1, e2))
<1> DEFINE n == 4 * (Size(e1) + Size(e2)) + 1
<1>1. Size(e1) \in Nat /\ Size(e2) \in Nat BY NormalParts
<1>2. n \in Nat /\ 4 * (Size(e1) + Size(e2)) < n BY <1>1
<1>3. IsRight(Result, n) BY ResultIs DEF IsRight
<1> HIDE DEF n
<1> QED BY <1>2, <1>3, EliminateRight DEF expr_eliminate_eq

-----------------------------------------------------------------------------
(* Operands in the trees, and joined.                                      *)

\* An operand of a normal form is one the rules look at, worth the same.
LEMMA LeafOperand ==
    ASSUME NEW x \in Leaf
    PROVE  /\ x \in Operands /\ x.type \in Compares \cup {"SYMBOL", "NOT"}
           /\ Joinable(x) => Subject(x) \in KnownSyms
           /\ Joinable(x) /\ Subject(x) \in TriSyms => NoNumber(x)
           /\ \A val : IsCalculation(val) => expr_calc_value(x, val) = OperandValue(x, val)
<1>1. \A y \in Atom : /\ y \in Simple /\ y.type \in Compares \cup {"SYMBOL"} /\ y.sym \in KnownSyms
                      /\ y.type # "NOT"
  BY DEF Atom, Symbols, Comparings, Simple, Compares, TriSyms, KnownSyms
<1>2. CASE x \in Atom
  <2>1. ASSUME x.sym \in TriSyms PROVE NoNumber(x)
    <3> SUFFICES ASSUME x.type \in {"EQUAL", "UNEQUAL"}, IsConstSym(x.sym2)
                 PROVE  x.sym2 \notin DOMAIN Number[0]
      BY DEF NoNumber
    <3>1. x.sym2 \in KnownSyms \ NumberSyms
      BY <1>2, <2>1 DEF Atom, Symbols, Comparings
    <3> QED BY <3>1 DEF NumberSyms, IsConstSym
  <2>2. Joinable(x) => Subject(x) = x.sym BY <1>1, <1>2 DEF Subject
  <2>3. ASSUME NEW val, IsCalculation(val) PROVE expr_calc_value(x, val) = OperandValue(x, val)
    <3>1. x \in Expr BY <1>2, LeafIs, NormalParts DEF Leaf
    <3>2. expr_calc_value(x, val) = LeafValue(x, val) BY <1>2, <2>3, <3>1, CalculationAssigns, Value
    <3> QED BY <1>1, <1>2, <3>2 DEF OperandValue
  <2> QED BY <1>1, <1>2, <2>1, <2>2, <2>3 DEF Operands
<1>3. CASE x.type = "NOT" /\ x.left \in Symbols /\ x = Not(x.left)
  <2>1. x.left \in Atom /\ x.left.type = "SYMBOL" /\ x.left.sym \in KnownSyms BY <1>3 DEF Atom, Symbols
  <2>2. x \in Operands BY <1>1, <1>3, <2>1 DEF Operands, Not
  <2>3. NoNumber(x) BY <1>3 DEF NoNumber
  <2>4. Subject(x) = x.left.sym BY <1>3 DEF Subject
  <2>5. ASSUME NEW val, IsCalculation(val) PROVE expr_calc_value(x, val) = OperandValue(x, val)
    <3>1. x \in Expr /\ x.left \in Expr BY <2>1, LeafIs, NormalParts DEF Leaf
    <3>2. expr_calc_value(x, val) = TriNot(expr_calc_value(x.left, val))
      BY <1>3, <2>5, <3>1, CalculationAssigns, Value
    <3>3. expr_calc_value(x.left, val) = LeafValue(x.left, val)
      BY <2>1, <2>5, <3>1, CalculationAssigns, Value
    <3> QED BY <1>3, <3>2, <3>3 DEF OperandValue
  <2> QED BY <1>3, <2>1, <2>2, <2>3, <2>4, <2>5
<1> QED BY <1>2, <1>3, LeafIs

\* Two operands are joined into an operand.
LEMMA JoinedIsLeaf ==
    ASSUME NEW t \in {"AND", "OR"}, NEW e1 \in Leaf, NEW e2 \in Leaf, Joined(t, e1, e2) # NoExpr
    PROVE  Joined(t, e1, e2) \in Leaf
<1> DEFINE s == Subject(e1)
           j == Joined(t, e1, e2)
           three == {"y", "m", "n"}
           mixed == {p \in {<<e1, e2>>, <<e2, e1>>} : EqualAndNot(p)}
           OfMixed(p) == IF p[1].sym2 # p[2].sym2 THEN p[1] ELSE SymbolExpr("n")
<1>1. SameSubject(e1, e2) BY DEF Joined
<1>2. s \in TriSyms
  <2>1. Joinable(e1) /\ SymType[s] \in {"BOOLEAN", "TRISTATE"} BY <1>1 DEF SameSubject
  <2> QED BY <2>1, LeafOperand DEF TriSyms
<1>3. \A c \in three : SymbolExpr(c) \in Leaf BY ConstantIs
<1>4. SymbolExpr(s) \in Leaf BY <1>2 DEF Leaf, Atom, Symbols, SymbolExpr, TriSyms
<1>5. \A u \in {"EQUAL", "UNEQUAL"}, c \in three : Comp(u, s, c) \in Leaf
  <2> TAKE u \in {"EQUAL", "UNEQUAL"}, c \in three
  <2>1. c \in KnownSyms \ NumberSyms BY KOperandAssumption DEF KnownSyms, NumberSyms
  <2> QED BY <1>2, <2>1 DEF Leaf, Atom, Comparings, Comp
<1>6. CASE t = "OR"
  <2>1. j = expr_join_or(e1, e2, s) BY <1>1, <1>6 DEF Joined
  <2>2. expr_join_or(e1, e2, s) \in {NoExpr, SymbolExpr("y"), Comp("UNEQUAL", s, "n"),
                                     Comp("UNEQUAL", s, "m"), Comp("UNEQUAL", s, "y")}
    <3> HIDE DEF s
    <3> QED BY DEF expr_join_or
  <2> HIDE DEF j, s
  <2> QED BY <1>3, <1>5, <2>1, <2>2 DEF j
<1>7. CASE t = "AND"
  <2>1. j = expr_join_and(e1, e2, s) BY <1>1, <1>7 DEF Joined
  <2>2. \/ j \in {NoExpr, SymbolExpr(s), Comp("EQUAL", s, "y"), Comp("EQUAL", s, "m"), Comp("EQUAL", s, "n")}
        \/ mixed # {} /\ j = OfMixed(CHOOSE p \in mixed : TRUE)
    <3> HIDE DEF s
    <3> QED BY <2>1 DEF expr_join_and
  <2> HIDE DEF j, s
  <2>3. CASE mixed # {} /\ j = OfMixed(CHOOSE p \in mixed : TRUE)
    <3>1. PICK p \in mixed : j = OfMixed(p) BY <2>3
    <3>2. p[1] \in {e1, e2} BY <3>1
    <3> QED BY <1>3, <3>1, <3>2 DEF j
  <2> QED BY <1>4, <1>5, <2>2, <2>3 DEF j
<1> QED BY <1>6, <1>7

\* Whatever is joined is worth what the two are worth.
LEMMA JoinIs ==
    ASSUME NEW t \in {"AND", "OR"}, NEW e1 \in NF, NEW e2 \in NF, expr_join(t, e1, e2) # NoExpr
    PROVE  /\ expr_join(t, e1, e2) \in NF /\ Size(expr_join(t, e1, e2)) <= Size(e1)
           /\ expr_join(t, e1, e2) = e1 \/ expr_join(t, e1, e2) \in Leaf
           /\ \A val : IsCalculation(val) =>
                expr_calc_value(expr_join(t, e1, e2), val) =
                  Op(t, expr_calc_value(e1, val), expr_calc_value(e2, val))
<1> DEFINE j == expr_join(t, e1, e2)
<1>0. Size(e1) \in Nat \ {0} /\ e1 \in Expr /\ e2 \in Expr
  <2>1. e1 \in Expr /\ e2 \in Expr /\ Size(e1) \in 1..MaxOperands BY NormalParts
  <2> QED BY <2>1, KExprAssumption
<1>1. CASE expr_eq(e1, e2)
  <2>1. j = e1 BY <1>1 DEF expr_join
  <2>2. Same(e1, e2) BY <1>1, EqIsSame
  <2> HIDE DEF j
  <2>3. ASSUME NEW val, IsCalculation(val)
        PROVE  expr_calc_value(j, val) = Op(t, expr_calc_value(e1, val), expr_calc_value(e2, val))
    <3>1. expr_calc_value(e1, val) = expr_calc_value(e2, val) BY <2>2, <2>3 DEF Same
    <3>2. expr_calc_value(e1, val) \in 0..2 BY <1>0, <2>3, ValueTwo
    <3> QED BY <2>1, <3>1, <3>2, OpLaws
  <2>4. j \in NF /\ Size(j) <= Size(e1) BY <1>0, <2>1
  <2> QED BY <2>1, <2>3, <2>4 DEF j
<1>2. CASE ~expr_eq(e1, e2)
  <2>1. j = Joined(t, e1, e2) BY <1>2 DEF expr_join
  <2>2. SameSubject(e1, e2) BY <2>1 DEF Joined
  <2>3. e1 \in Leaf /\ e2 \in Leaf
    <3>1. ~IsTwo(e1) /\ ~IsTwo(e2) BY <2>2 DEF SameSubject, Joinable, IsTwo
    <3> QED BY <3>1, NormalParts
  <2>4. Joined(t, e1, e2) \in Leaf BY <2>1, <2>3, JoinedIsLeaf
  <2>5. NoNumber(e1) /\ NoNumber(e2)
    <3>1. /\ Joinable(e1) /\ Joinable(e2) /\ Subject(e1) = Subject(e2)
          /\ SymType[Subject(e1)] \in {"BOOLEAN", "TRISTATE"}
      BY <2>2 DEF SameSubject
    <3>2. Subject(e1) \in TriSyms BY <2>3, <3>1, LeafOperand DEF TriSyms
    <3> QED BY <2>3, <3>1, <3>2, LeafOperand
  <2>6. ASSUME NEW val, IsCalculation(val)
        PROVE  expr_calc_value(j, val) = Op(t, expr_calc_value(e1, val), expr_calc_value(e2, val))
    <3>1. /\ expr_calc_value(e1, val) = OperandValue(e1, val)
          /\ expr_calc_value(e2, val) = OperandValue(e2, val)
          /\ expr_calc_value(j, val) = OperandValue(j, val)
      BY <2>1, <2>3, <2>4, <2>6, LeafOperand
    <3>2. OperandValue(j, val) = IF t = "AND" THEN TriMin(OperandValue(e1, val), OperandValue(e2, val))
                                 ELSE TriMax(OperandValue(e1, val), OperandValue(e2, val))
      BY <2>1, <2>3, <2>5, <2>6, JoinKeepsTheValue, LeafOperand
    <3> QED BY <3>1, <3>2 DEF Op
  <2>7. j \in NF /\ Size(j) = 1 /\ j \in Leaf BY <2>1, <2>4, LeafIs
  <2> QED BY <1>0, <2>6, <2>7 DEF j
<1> QED BY <1>1, <1>2

-----------------------------------------------------------------------------
(* The operands at one level.                                              *)

\* The operands at one level are those of the left side, then those of the
\* right.
LEMMA LevelIs ==
    ASSUME NEW t \in {"AND", "OR"}, NEW x \in Expr
    PROVE  /\ Level(t, x) \in Seq(Expr)
           /\ x.type = t => Level(t, x) = Level(t, x.left) \o Level(t, x.right)
           /\ x.type # t => Level(t, x) = <<x>>
<1> DEFINE R == Seq(Expr)
           body(g, y) == IF y.type = t THEN g[y.left] \o g[y.right] ELSE <<y>>
           leaf == [y \in Expr |-> <<y>>]
           neg == [p \in Expr \X R |-> <<p[1]>>]
           two == [p \in Expr \X R \X R |-> IF p[1].type = t THEN p[2] \o p[3] ELSE <<p[1]>>]
           T == [y \in Expr |-> R]
           level == CHOOSE g : g = [y \in Expr |-> body(g, y)]
<1>0. \A y \in Expr : y.type = t => IsTwo(y) /\ y.left \in Expr /\ y.right \in Expr
  BY PartsOf DEF IsTwo
<1>1. PICK f : /\ f = [y \in Expr |-> f[y]]
               /\ \A y \in Expr :
                    /\ f[y] \in T[y]
                    /\ f[y] = IF IsTwo(y) THEN two[<<y, f[y.left], f[y.right]>>]
                              ELSE IF y.type = "NOT" THEN neg[<<y, f[y.left]>>] ELSE leaf[y]
  <2>1. R # {} /\ \A y \in Expr : T[y] = R
    <3>1. <<>> \in R OBVIOUS
    <3> QED BY <3>1
  <2>2. \A y \in Expr : /\ y.type = "NOT" => y.left \in Expr
                        /\ IsTwo(y) => y.left \in Expr /\ y.right \in Expr
    BY PartsOf
  <2>3. \A y \in Expr : leaf[y] \in R OBVIOUS
  <2>4. \A y \in Expr, r \in R : neg[<<y, r>>] \in R OBVIOUS
  <2>5. \A y \in Expr, r \in R, s \in R : two[<<y, r, s>>] \in R
    <3> TAKE y \in Expr, r \in R, s \in R
    <3>1. two[<<y, r, s>>] = IF y.type = t THEN r \o s ELSE <<y>> OBVIOUS
    <3>2. r \o s \in R BY ConcatProperties
    <3>3. <<y>> \in R OBVIOUS
    <3> HIDE DEF R, two
    <3> QED BY <3>1, <3>2, <3>3
  <2> HIDE DEF R, T, leaf, neg, two
  <2>6. IsFold(T, leaf, neg, two) BY <2>1, <2>2, <2>3, <2>4, <2>5 DEF IsFold
  <2> QED BY <2>6, ExprRecursion
<1>2. \E g : g = [y \in Expr |-> body(g, y)]
  <2>2. ASSUME NEW y \in Expr PROVE f[y] = body(f, y)
    <3> HIDE DEF R
    <3>1. IsTwo(y) => f[y.left] \in R /\ f[y.right] \in R BY <1>1, PartsOf
    <3>2. y.type = "NOT" => f[y.left] \in R BY <1>1, PartsOf
    <3>3. CASE IsTwo(y) BY <1>1, <3>1, <3>3
    <3>4. CASE ~IsTwo(y) BY <1>0, <1>1, <3>2, <3>4
    <3> QED BY <3>3, <3>4
  <2> HIDE DEF body
  <2>3. f = [y \in Expr |-> body(f, y)] BY <1>1, <2>2
  <2> QED BY <2>3
<1> HIDE DEF body
<1>3. \A y \in Expr : level[y] = body(level, y) BY <1>2
<1>4. \A y : Level(t, y) = level[y] BY DEF Level, level, body
<1> HIDE DEF level
<1> DEFINE P == {y \in Expr : level[y] \in R}
<1>5. Expr \subseteq P
  <2>1. \A y \in Expr : y.type # t => y \in P
    <3> TAKE y \in Expr
    <3> HAVE y.type # t
    <3>1. level[y] = <<y>> BY <1>3 DEF body
    <3>2. <<y>> \in Seq(Expr) OBVIOUS
    <3> QED BY <3>1, <3>2
  <2>2. \A y \in Expr : y = NoExpr \/ y \in Atom => y \in P
    BY <2>1, PartsOf DEF NoExpr, Compares
  <2>3. \A y \in Expr : y.type = "NOT" /\ y.left \in P => y \in P BY <2>1
  <2>4. \A y \in Expr : IsTwo(y) /\ y.left \in P /\ y.right \in P => y \in P
    <3> TAKE y \in Expr
    <3> HAVE IsTwo(y) /\ y.left \in P /\ y.right \in P
    <3>1. CASE y.type = t
      <4>1. level[y] = level[y.left] \o level[y.right] BY <1>3, <3>1 DEF body
      <4>2. level[y.left] \in R /\ level[y.right] \in R OBVIOUS
      <4> QED BY <4>1, <4>2, ConcatProperties
    <3>2. CASE y.type # t BY <2>1, <3>2
    <3> QED BY <3>1, <3>2
  <2> HIDE DEF P
  <2> QED BY <2>2, <2>3, <2>4, ExprInduction
<1> QED BY <1>3, <1>4, <1>5 DEF body

\* The operands of both parts, those of the left one first.
LEMMA LevelParts ==
    ASSUME NEW t \in {"AND", "OR"}, NEW x \in Expr
    PROVE  /\ Len(Level(t, x)) \in Nat \ {0}
           /\ x.type # t => Len(Level(t, x)) = 1 /\ Level(t, x)[1] = x
           /\ x.type = t =>
                /\ x.left \in Expr /\ x.right \in Expr /\ IsTwo(x)
                /\ Len(Level(t, x)) = Len(Level(t, x.left)) + Len(Level(t, x.right))
                /\ \A n \in 1..Len(Level(t, x)) :
                     Level(t, x)[n] = IF n <= Len(Level(t, x.left)) THEN Level(t, x.left)[n]
                                      ELSE Level(t, x.right)[n - Len(Level(t, x.left))]
<1> DEFINE P == {y \in Expr : Len(Level(t, y)) \in Nat \ {0}}
<1>1. ASSUME NEW y \in Expr, y.type # t
      PROVE  Len(Level(t, y)) = 1 /\ Level(t, y)[1] = y
  <2>1. Level(t, y) = <<y>> BY <1>1, LevelIs
  <2> HIDE DEF P
  <2> QED BY <2>1
<1>2. ASSUME NEW y \in Expr, y.type = t
      PROVE  /\ y.left \in Expr /\ y.right \in Expr /\ IsTwo(y)
             /\ Len(Level(t, y)) = Len(Level(t, y.left)) + Len(Level(t, y.right))
             /\ \A n \in 1..Len(Level(t, y)) :
                  Level(t, y)[n] = IF n <= Len(Level(t, y.left)) THEN Level(t, y.left)[n]
                                   ELSE Level(t, y.right)[n - Len(Level(t, y.left))]
  <2>1. IsTwo(y) /\ y.left \in Expr /\ y.right \in Expr BY <1>2, PartsOf DEF IsTwo
  <2>2. Level(t, y) = Level(t, y.left) \o Level(t, y.right) BY <1>2, LevelIs
  <2>3. Level(t, y.left) \in Seq(Expr) /\ Level(t, y.right) \in Seq(Expr) BY <2>1, LevelIs
  <2> QED BY <2>1, <2>2, <2>3
<1>3. Expr \subseteq P
  <2>1. \A y \in Expr : y.type # t => y \in P BY <1>1
  <2>2. \A y \in Expr : y = NoExpr \/ y \in Atom => y \in P
    BY <2>1, PartsOf DEF NoExpr, Compares
  <2>3. \A y \in Expr : y.type = "NOT" /\ y.left \in P => y \in P BY <2>1
  <2>4. \A y \in Expr : IsTwo(y) /\ y.left \in P /\ y.right \in P => y \in P
    <3> TAKE y \in Expr
    <3> HAVE IsTwo(y) /\ y.left \in P /\ y.right \in P
    <3>1. CASE y.type = t BY <1>2, <3>1
    <3>2. CASE y.type # t BY <2>1, <3>2
    <3> QED BY <3>1, <3>2
  <2> HIDE DEF P
  <2> QED BY <2>2, <2>3, <2>4, ExprInduction
<1> QED BY <1>1, <1>2, <1>3

\* The operands of a normal form: less than the whole, and no one operand
\* has the operator of the level.
LEMMA OperandIs ==
    ASSUME NEW t \in {"AND", "OR"}, NEW x \in NF, NEW n \in 1..Len(Level(t, x))
    PROVE  /\ Level(t, x)[n] \in NF /\ Level(t, x)[n].type # t
           /\ Size(Level(t, x)[n]) <= Size(x)
           /\ x.type = t => Size(Level(t, x)[n]) < Size(x)
           /\ IsReducible(Level(t, x)[n]) => IsReducible(x)
           /\ Len(Level(t, x)) <= Size(x)
<1> DEFINE At(y, m) == Level(t, y)[m]
           Good(y, m) == /\ At(y, m) \in NF /\ At(y, m).type # t
                         /\ Size(At(y, m)) <= Size(y)
                         /\ y.type = t => Size(At(y, m)) < Size(y)
                         /\ IsReducible(At(y, m)) => IsReducible(y)
           P == {y \in NF : /\ Len(Level(t, y)) <= Size(y)
                            /\ \A m \in 1..Len(Level(t, y)) : Good(y, m)}
<1>0. \A y \in NF : y \in Expr /\ Size(y) \in Nat \ {0}
  <2> TAKE y \in NF
  <2>1. y \in Expr /\ Size(y) \in 1..MaxOperands BY NormalParts
  <2> QED BY <2>1, KExprAssumption
<1>1. ASSUME NEW y \in NF, y.type # t PROVE y \in P
  <2>1. Len(Level(t, y)) = 1 /\ Level(t, y)[1] = y BY <1>0, <1>1, LevelParts
  <2>2. \A m \in 1..Len(Level(t, y)) : At(y, m) = y BY <2>1
  <2>3. \A m \in 1..Len(Level(t, y)) : Good(y, m) BY <1>0, <1>1, <2>2
  <2>4. Len(Level(t, y)) <= Size(y) BY <1>0, <2>1
  <2> HIDE DEF Good
  <2> QED BY <2>3, <2>4
<1>2. ASSUME NEW y \in NF, IsTwo(y), y.left \in P, y.right \in P PROVE y \in P
  <2>1. CASE y.type # t BY <1>1, <2>1
  <2>2. CASE y.type = t
    <3> DEFINE k == Len(Level(t, y.left))
               l == Len(Level(t, y.right))
    <3>1. /\ y.left \in NF /\ y.right \in NF /\ Size(y) = Size(y.left) + Size(y.right)
          /\ Size(y.left) < Size(y) /\ Size(y.right) < Size(y)
      BY <1>2, NormalParts
    <3>2. /\ Len(Level(t, y)) = k + l
          /\ \A m \in 1..Len(Level(t, y)) : At(y, m) = IF m <= k THEN At(y.left, m) ELSE At(y.right, m - k)
      BY <1>0, <2>2, LevelParts
    <3>3. k \in Nat /\ l \in Nat BY <1>0, <3>1, LevelParts
    <3>4. k <= Size(y.left) /\ l <= Size(y.right) BY <1>2
    <3>5. \A m \in 1..k : Good(y.left, m) BY <1>2
    <3>6. \A m \in 1..l : Good(y.right, m) BY <1>2
    <3>7. Len(Level(t, y)) <= Size(y) BY <1>0, <3>1, <3>2, <3>3, <3>4
    <3>8. IsReducible(y.left) \/ IsReducible(y.right) => IsReducible(y) BY <1>2, YnNormal
    <3>9. ASSUME NEW m \in 1..Len(Level(t, y)) PROVE Good(y, m)
      <4> HIDE DEF k, l
      <4>1. CASE m <= k
        <5>1. m \in 1..k /\ At(y, m) = At(y.left, m) BY <3>2, <3>3, <4>1
        <5>2. Good(y.left, m) BY <3>5, <5>1
        <5> HIDE DEF At
        <5>3. Size(At(y, m)) < Size(y) BY <1>0, <3>1, <5>1, <5>2
        <5> QED BY <1>0, <3>8, <5>1, <5>2, <5>3
      <4>2. CASE ~(m <= k)
        <5>1. m - k \in 1..l /\ At(y, m) = At(y.right, m - k) BY <3>2, <3>3, <4>2
        <5>2. Good(y.right, m - k) BY <3>6, <5>1
        <5> HIDE DEF At
        <5>3. Size(At(y, m)) < Size(y) BY <1>0, <3>1, <5>1, <5>2
        <5> QED BY <1>0, <3>8, <5>1, <5>2, <5>3
      <4> QED BY <4>1, <4>2
    <3> HIDE DEF Good, k, l
    <3>10. y \in NF OBVIOUS
    <3> QED BY <3>7, <3>9, <3>10
  <2> QED BY <2>1, <2>2
<1>3. Leaf \subseteq P
  <2>1. ASSUME NEW y \in Leaf PROVE y \in NF /\ y.type # t BY LeafIs DEF IsTwo
  <2> HIDE DEF P
  <2> QED BY <1>1, <2>1
<1> HIDE DEF P
<1>4. NF \subseteq P BY <1>2, <1>3, NormalInduction
<1> QED BY <1>4 DEF P

\* Putting an operand in its place goes down the side that has it.
LEMMA PutIs ==
    ASSUME NEW t \in {"AND", "OR"}, NEW x \in Expr, NEW f \in AnyTree, NEW i \in Nat
    PROVE  WithOperand(t, x, i, f) =
             LET k == Len(Level(t, x.left))
             IN  IF x.type # t THEN f
                 ELSE IF i <= k THEN Two(t, WithOperand(t, x.left, i, f), x.right)
                      ELSE Two(t, x.left, WithOperand(t, x.right, i - k, f))
<1> DEFINE k(y) == Len(Level(t, y.left))
           R == [Nat -> AnyTree]
           row(y, l, r) == [n \in Nat |-> IF y.type # t THEN f
                                          ELSE IF n <= k(y) THEN Two(t, l[n], y.right)
                                          ELSE Two(t, y.left, r[n - k(y)])]
           const == [n \in Nat |-> f]
           leaf == [y \in Expr |-> const]
           neg == [p \in Expr \X R |-> const]
           two == [p \in Expr \X R \X R |-> row(p[1], p[2], p[3])]
           T == [y \in Expr |-> R]
           put == CHOOSE g : g = [y \in Expr |-> row(y, g[y.left], g[y.right])]
<1>0. \A y \in Expr : /\ y.type = t => IsTwo(y)
                      /\ IsTwo(y) => /\ y.left \in Expr /\ y.right \in Expr
                                     /\ y.left \in AnyTree /\ y.right \in AnyTree /\ k(y) \in Nat
                      /\ y.type = "NOT" => y.left \in Expr
  <2> TAKE y \in Expr
  <2>1. y.type = t => IsTwo(y) BY DEF IsTwo
  <2>2. IsTwo(y) => y.left \in Expr /\ y.right \in Expr /\ y.left # NoExpr /\ y.right # NoExpr BY PartsOf
  <2>3. IsTwo(y) => k(y) \in Nat BY <2>2, LevelParts
  <2>4. y.type = "NOT" => y.left \in Expr BY PartsOf
  <2> QED BY <2>1, <2>2, <2>3, <2>4, AnyTwo
<1>1. PICK h : /\ h = [y \in Expr |-> h[y]]
               /\ \A y \in Expr :
                    /\ h[y] \in T[y]
                    /\ h[y] = IF IsTwo(y) THEN two[<<y, h[y.left], h[y.right]>>]
                              ELSE IF y.type = "NOT" THEN neg[<<y, h[y.left]>>] ELSE leaf[y]
  <2>1. const \in R OBVIOUS
  <2>2. \A y \in Expr : T[y] = R OBVIOUS
  <2>3. \A y \in Expr : leaf[y] \in R BY <2>1
  <2>4. \A y \in Expr, r \in R : neg[<<y, r>>] \in R BY <2>1
  <2>5. \A y \in Expr, l \in R, r \in R : IsTwo(y) => two[<<y, l, r>>] \in R
    <3> TAKE y \in Expr, l \in R, r \in R
    <3> HAVE IsTwo(y)
    <3>1. two[<<y, l, r>>] = row(y, l, r) OBVIOUS
    <3>2. ASSUME NEW n \in Nat
          PROVE  (IF y.type # t THEN f ELSE IF n <= k(y) THEN Two(t, l[n], y.right)
                  ELSE Two(t, y.left, r[n - k(y)])) \in AnyTree
      <4>1. k(y) \in Nat /\ y.left \in AnyTree /\ y.right \in AnyTree BY <1>0
      <4> HIDE DEF k
      <4>2. l[n] \in AnyTree OBVIOUS
      <4>3. n <= k(y) \/ n - k(y) \in Nat BY <4>1
      <4>4. n <= k(y) \/ r[n - k(y)] \in AnyTree BY <4>3
      <4>5. Two(t, l[n], y.right) \in AnyTree BY <4>1, <4>2, AnyTwo
      <4>6. n <= k(y) \/ Two(t, y.left, r[n - k(y)]) \in AnyTree BY <4>1, <4>4, AnyTwo
      <4> QED BY <4>5, <4>6
    <3>3. row(y, l, r) \in R BY <3>2
    <3> QED BY <3>1, <3>3
  <2>6. R # {} BY <2>1
  <2> HIDE DEF R, T, leaf, neg, two
  <2>7. IsFold(T, leaf, neg, two) BY <1>0, <2>2, <2>3, <2>4, <2>5, <2>6 DEF IsFold
  <2> QED BY <2>7, ExprRecursion
<1>2. \E g : g = [y \in Expr |-> row(y, g[y.left], g[y.right])]
  <2>1. ASSUME NEW y \in Expr PROVE h[y] = row(y, h[y.left], h[y.right])
    <3>1. CASE IsTwo(y)
      <4>1. h[y.left] \in R /\ h[y.right] \in R BY <1>0, <1>1, <3>1
      <4>2. h[y] = two[<<y, h[y.left], h[y.right]>>] BY <1>1, <3>1
      <4> HIDE DEF R, row
      <4> QED BY <4>1, <4>2
    <3>2. CASE ~IsTwo(y)
      <4>1. y.type # t BY <1>0, <3>2
      <4>2. row(y, h[y.left], h[y.right]) = const BY <4>1
      <4>3. CASE y.type = "NOT"
        <5>1. h[y] = neg[<<y, h[y.left]>>] /\ h[y.left] \in R BY <1>0, <1>1, <3>2, <4>3
        <5> HIDE DEF R, row, const
        <5> QED BY <4>2, <5>1
      <4>4. CASE y.type # "NOT"
        <5>1. h[y] = leaf[y] BY <1>1, <3>2, <4>4
        <5> HIDE DEF R, row, const
        <5> QED BY <4>2, <5>1
      <4> QED BY <4>3, <4>4
    <3> QED BY <3>1, <3>2
  <2> HIDE DEF row
  <2>2. h = [y \in Expr |-> row(y, h[y.left], h[y.right])] BY <1>1, <2>1
  <2> QED BY <2>2
<1>3. \A y \in Expr : put[y] = row(y, put[y.left], put[y.right])
  <2> HIDE DEF row
  <2> QED BY <1>2
<1>4. \A y, n : WithOperand(t, y, n, f) = put[y][n] BY DEF WithOperand, put, row
<1> HIDE DEF put
<1>5. put[x][i] = IF x.type # t THEN f ELSE IF i <= k(x) THEN Two(t, put[x.left][i], x.right)
                  ELSE Two(t, x.left, put[x.right][i - k(x)])
  <2>1. put[x] = row(x, put[x.left], put[x.right]) BY <1>3
  <2> QED BY <2>1
<1> QED BY <1>4, <1>5

-----------------------------------------------------------------------------
(* One operand of a level replaced by another.                             *)

Operand(t, x, n) == Level(t, x)[n]

\* The tree w is x with f in place of the operand n.
IsReplaced(t, x, n, f, w) ==
    /\ w \in NF /\ (w.type = t <=> x.type = t)
    /\ Size(w) = Size(x) - Size(Operand(t, x, n)) + Size(f)
    /\ Len(Level(t, w)) = Len(Level(t, x))
    /\ \A m \in 1..Len(Level(t, x)) : Operand(t, w, m) = IF m = n THEN f ELSE Operand(t, x, m)
    /\ Operand(t, x, n) = f => w = x

\* With one operand put in the place of another, the others are as they were.
LEMMA WithIs ==
    ASSUME NEW t \in {"AND", "OR"}, NEW x \in NF, NEW n \in 1..Len(Level(t, x)),
           NEW f \in NF, f.type # t, Size(x) - Size(Operand(t, x, n)) + Size(f) <= MaxOperands
    PROVE  IsReplaced(t, x, n, f, WithOperand(t, x, n, f))
<1> DEFINE Fits(y, m) == Size(y) - Size(Operand(t, y, m)) + Size(f) <= MaxOperands
           Good(y, m) == IsReplaced(t, y, m, f, WithOperand(t, y, m, f))
           P == {y \in NF : \A m \in 1..Len(Level(t, y)) : Fits(y, m) => Good(y, m)}
<1>0. /\ \A y \in NF : /\ y \in Expr /\ Size(y) \in Nat \ {0} /\ Len(Level(t, y)) \in Nat \ {0}
                       /\ \A m \in 1..Len(Level(t, y)) : /\ Operand(t, y, m) \in NF
                                                         /\ Size(Operand(t, y, m)) \in Nat \ {0}
                                                         /\ Size(Operand(t, y, m)) <= Size(y)
      /\ f \in AnyTree /\ MaxOperands \in Nat
  <2>1. \A y \in NF : y \in Expr /\ Size(y) \in Nat \ {0}
    <3> TAKE y \in NF
    <3>1. y \in Expr /\ Size(y) \in 1..MaxOperands BY NormalParts
    <3> QED BY <3>1, KExprAssumption
  <2>2. \A y \in NF : Len(Level(t, y)) \in Nat \ {0} BY <2>1, LevelParts
  <2>3. \A y \in NF : \A m \in 1..Len(Level(t, y)) :
          Operand(t, y, m) \in NF /\ Size(Operand(t, y, m)) <= Size(y)
    <3> TAKE y \in NF
    <3> TAKE m \in 1..Len(Level(t, y))
    <3> QED BY OperandIs DEF Operand
  <2>4. f \in AnyTree BY AnyTwo, NormalParts
  <2> QED BY <2>1, <2>2, <2>3, <2>4, KExprAssumption
<1>1. ASSUME NEW y \in NF, y.type # t PROVE y \in P
  <2>1. Len(Level(t, y)) = 1 /\ Operand(t, y, 1) = y BY <1>0, <1>1, LevelParts DEF Operand
  <2>2. Len(Level(t, f)) = 1 /\ Operand(t, f, 1) = f BY <1>0, LevelParts DEF Operand
  <2>3. ASSUME NEW m \in 1..Len(Level(t, y)) PROVE Good(y, m)
    <3>1. m = 1 BY <2>1
    <3>2. WithOperand(t, y, m, f) = f BY <1>0, <1>1, <3>1, PutIs
    <3>3. Size(f) = Size(y) - Size(y) + Size(f) BY <1>0
    <3> QED BY <1>1, <2>1, <2>2, <3>1, <3>2, <3>3 DEF IsReplaced
  <2> HIDE DEF Good, Fits
  <2> QED BY <2>3
<1>2. ASSUME NEW y \in NF, IsTwo(y), y.left \in P, y.right \in P PROVE y \in P
  <2>1. CASE y.type # t BY <1>1, <2>1
  <2>2. CASE y.type = t
    <3> DEFINE k == Len(Level(t, y.left))
               l == Len(Level(t, y.right))
               a == Size(y.left)
               b == Size(y.right)
    <3>0. y \in Expr /\ f \in AnyTree /\ MaxOperands \in Nat /\ Size(y) \in Nat BY <1>0
    <3>1. /\ y.left \in NF /\ y.right \in NF /\ Size(y) = a + b /\ y = Two(t, y.left, y.right)
      BY <1>2, <2>2, NormalParts
    <3>2. /\ Len(Level(t, y)) = k + l
          /\ \A m \in 1..(k + l) : Operand(t, y, m) = IF m <= k THEN Operand(t, y.left, m)
                                                      ELSE Operand(t, y.right, m - k)
      <4>1. /\ Len(Level(t, y)) = k + l
            /\ \A m \in 1..Len(Level(t, y)) :
                 Level(t, y)[m] = IF m <= k THEN Level(t, y.left)[m] ELSE Level(t, y.right)[m - k]
        BY <2>2, <3>0, LevelParts
      <4> HIDE DEF k, l
      <4> QED BY <4>1 DEF Operand
    <3>3. k \in Nat /\ l \in Nat /\ a \in Nat \ {0} /\ b \in Nat \ {0} BY <1>0, <3>1
    <3>4. \A m \in 1..k : Fits(y.left, m) => Good(y.left, m) BY <1>2
    <3>5. \A m \in 1..l : Fits(y.right, m) => Good(y.right, m) BY <1>2
    <3>6. ASSUME NEW m \in 1..Len(Level(t, y)), Fits(y, m) PROVE Good(y, m)
      <4> DEFINE w == WithOperand(t, y, m, f)
      <4>0. Size(f) \in Nat /\ m \in Nat /\ m \in 1..(k + l) BY <1>0, <3>2
      <4>s. Size(y) = a + b BY <3>1
      <4>1. CASE m <= k
        <5> DEFINE o == Operand(t, y.left, m)
                   v == WithOperand(t, y.left, m, f)
        <5>1. m \in 1..k /\ Operand(t, y, m) = o BY <3>2, <3>3, <4>0, <4>1
        <5>2. w = Two(t, v, y.right) BY <1>0, <2>2, <4>0, <4>1, PutIs
        <5>3. Size(o) \in Nat /\ Size(o) <= a BY <1>0, <3>1, <5>1
        <5>4. Size(y) - Size(o) + Size(f) <= MaxOperands BY <3>6, <5>1
        <5>5. Fits(y.left, m)
          <6> HIDE DEF a, b, o, k, l, v, w, Fits, Good
          <6>1. a - Size(o) + Size(f) <= MaxOperands BY <3>0, <3>3, <4>0, <4>s, <5>3, <5>4
          <6> QED BY <6>1 DEF a, o, Fits
        <5>6. IsReplaced(t, y.left, m, f, v) BY <3>4, <5>1, <5>5
        <5>7. /\ v \in NF /\ Size(v) = a - Size(o) + Size(f) /\ Len(Level(t, v)) = k
              /\ \A i \in 1..k : Operand(t, v, i) = IF i = m THEN f ELSE Operand(t, y.left, i)
              /\ o = f => v = y.left
          BY <5>6 DEF IsReplaced
        <5> HIDE DEF v, o, w, k, l, a, b
        <5>8. Size(v) + b = Size(y) - Size(o) + Size(f) /\ Size(v) + b <= MaxOperands
          BY <3>0, <3>3, <4>0, <4>s, <5>3, <5>4, <5>7
        <5>9. w \in NF /\ Size(w) = Size(v) + b /\ w.type = t /\ w.left = v /\ w.right = y.right
          <6>1. y.right \in NF /\ Size(v) + Size(y.right) <= MaxOperands BY <3>1, <5>8 DEF b
          <6>2. w \in NF /\ Size(w) = Size(v) + Size(y.right) BY <5>2, <5>7, <6>1, NormalTwo
          <6> QED BY <5>2, <6>2 DEF Two, b
        <5>10. /\ Len(Level(t, w)) = k + l
               /\ \A i \in 1..(k + l) : Operand(t, w, i) = IF i <= k THEN Operand(t, v, i)
                                                           ELSE Operand(t, y.right, i - k)
          <6>1. w \in Expr BY <1>0, <5>9
          <6>2. w.type = t /\ w.left = v /\ w.right = y.right /\ Len(Level(t, v)) = k BY <5>7, <5>9
          <6>3. /\ Len(Level(t, w)) = Len(Level(t, w.left)) + Len(Level(t, w.right))
                /\ \A i \in 1..Len(Level(t, w)) :
                     Level(t, w)[i] = IF i <= Len(Level(t, w.left)) THEN Level(t, w.left)[i]
                                      ELSE Level(t, w.right)[i - Len(Level(t, w.left))]
            BY <6>1, <6>2, LevelParts
          <6>4. l = Len(Level(t, y.right)) BY DEF l
          <6>5. Len(Level(t, w.left)) = k /\ Len(Level(t, w.right)) = l BY <6>2, <6>4
          <6>6. /\ Len(Level(t, w)) = k + l
                /\ \A i \in 1..(k + l) :
                     Level(t, w)[i] = IF i <= k THEN Level(t, w.left)[i] ELSE Level(t, w.right)[i - k]
            BY <6>3, <6>5
          <6> QED BY <6>2, <6>6 DEF Operand
        <5>11. ASSUME NEW i \in 1..(k + l)
               PROVE  Operand(t, w, i) = IF i = m THEN f ELSE Operand(t, y, i)
          <6>1. CASE i <= k
            <7>1. i \in 1..k BY <3>3, <6>1
            <7> QED BY <3>2, <5>7, <5>10, <6>1, <7>1
          <6>2. CASE ~(i <= k) BY <3>2, <3>3, <4>1, <5>10, <6>2
          <6> QED BY <6>1, <6>2
        <5>12. Operand(t, y, m) = f => w = y BY <3>1, <5>1, <5>2, <5>7
        <5>13. Len(Level(t, w)) = Len(Level(t, y)) BY <3>2, <5>10
        <5>14. IsReplaced(t, y, m, f, w)
          BY <2>2, <3>2, <5>1, <5>8, <5>9, <5>11, <5>12, <5>13 DEF IsReplaced
        <5> QED BY <5>14 DEF w
      <4>2. CASE ~(m <= k)
        <5> DEFINE o == Operand(t, y.right, m - k)
                   v == WithOperand(t, y.right, m - k, f)
        <5>1. m - k \in 1..l /\ Operand(t, y, m) = o BY <3>2, <3>3, <4>0, <4>2
        <5>2. w = Two(t, y.left, v)
          <6>1. y \in Expr /\ f \in AnyTree /\ m \in Nat BY <3>0, <4>0
          <6>2. WithOperand(t, y, m, f) =
                  IF y.type # t THEN f
                  ELSE IF m <= k THEN Two(t, WithOperand(t, y.left, m, f), y.right)
                       ELSE Two(t, y.left, WithOperand(t, y.right, m - k, f))
            BY <6>1, PutIs
          <6> HIDE DEF k
          <6> QED BY <2>2, <4>2, <6>2
        <5>3. Size(o) \in Nat /\ Size(o) <= b BY <1>0, <3>1, <5>1
        <5>4. Size(y) - Size(o) + Size(f) <= MaxOperands BY <3>6, <5>1
        <5>5. Fits(y.right, m - k)
          <6> HIDE DEF a, b, o, k, l, v, w, Fits, Good
          <6>1. b - Size(o) + Size(f) <= MaxOperands BY <3>0, <3>3, <4>0, <4>s, <5>3, <5>4
          <6> QED BY <6>1 DEF b, o, Fits
        <5>6. IsReplaced(t, y.right, m - k, f, v) BY <3>5, <5>1, <5>5
        <5>7. /\ v \in NF /\ Size(v) = b - Size(o) + Size(f) /\ Len(Level(t, v)) = l
              /\ \A i \in 1..l : Operand(t, v, i) = IF i = m - k THEN f ELSE Operand(t, y.right, i)
              /\ o = f => v = y.right
          BY <5>6 DEF IsReplaced
        <5> HIDE DEF v, o, w, k, l, a, b
        <5>8. a + Size(v) = Size(y) - Size(o) + Size(f) /\ a + Size(v) <= MaxOperands
          BY <3>0, <3>3, <4>0, <4>s, <5>3, <5>4, <5>7
        <5>9. w \in NF /\ Size(w) = a + Size(v) /\ w.type = t /\ w.left = y.left /\ w.right = v
          <6>1. y.left \in NF /\ Size(y.left) + Size(v) <= MaxOperands BY <3>1, <5>8 DEF a
          <6>2. w \in NF /\ Size(w) = Size(y.left) + Size(v) BY <5>2, <5>7, <6>1, NormalTwo
          <6> QED BY <5>2, <6>2 DEF Two, a
        <5>10. /\ Len(Level(t, w)) = k + l
               /\ \A i \in 1..(k + l) : Operand(t, w, i) = IF i <= k THEN Operand(t, y.left, i)
                                                           ELSE Operand(t, v, i - k)
          <6>1. w \in Expr BY <1>0, <5>9
          <6>2. w.type = t /\ w.left = y.left /\ w.right = v /\ Len(Level(t, v)) = l BY <5>7, <5>9
          <6>3. /\ Len(Level(t, w)) = Len(Level(t, w.left)) + Len(Level(t, w.right))
                /\ \A i \in 1..Len(Level(t, w)) :
                     Level(t, w)[i] = IF i <= Len(Level(t, w.left)) THEN Level(t, w.left)[i]
                                      ELSE Level(t, w.right)[i - Len(Level(t, w.left))]
            BY <6>1, <6>2, LevelParts
          <6>4. k = Len(Level(t, y.left)) BY DEF k
          <6>5. Len(Level(t, w.left)) = k /\ Len(Level(t, w.right)) = l BY <6>2, <6>4
          <6>6. /\ Len(Level(t, w)) = k + l
                /\ \A i \in 1..(k + l) :
                     Level(t, w)[i] = IF i <= k THEN Level(t, w.left)[i] ELSE Level(t, w.right)[i - k]
            BY <6>3, <6>5
          <6> QED BY <6>2, <6>6 DEF Operand
        <5>11. ASSUME NEW i \in 1..(k + l)
               PROVE  Operand(t, w, i) = IF i = m THEN f ELSE Operand(t, y, i)
          <6>1. CASE i <= k BY <3>2, <3>3, <4>0, <4>2, <5>10, <6>1
          <6>2. CASE ~(i <= k)
            <7>1. i - k \in 1..l BY <3>3, <6>2
            <7>2. (i - k = m - k) <=> (i = m) BY <3>3, <4>0
            <7> QED BY <3>2, <5>7, <5>10, <6>2, <7>1, <7>2
          <6> QED BY <6>1, <6>2
        <5>12. Operand(t, y, m) = f => w = y BY <3>1, <5>1, <5>2, <5>7
        <5>13. Len(Level(t, w)) = Len(Level(t, y)) BY <3>2, <5>10
        <5>14. IsReplaced(t, y, m, f, w)
          BY <2>2, <3>2, <5>1, <5>8, <5>9, <5>11, <5>12, <5>13 DEF IsReplaced
        <5> QED BY <5>14 DEF w
      <4> QED BY <4>1, <4>2
    <3> HIDE DEF Good, Fits
    <3> QED BY <3>6
  <2> QED BY <2>1, <2>2
<1>3. Leaf \subseteq P
  <2>1. ASSUME NEW y \in Leaf PROVE y \in NF /\ y.type # t BY LeafIs DEF IsTwo
  <2> HIDE DEF P
  <2> QED BY <1>1, <2>1
<1> HIDE DEF P
<1>4. NF \subseteq P BY <1>2, <1>3, NormalInduction
<1> QED BY <1>4 DEF P

\* What a value of the level is compared with.
Beats(t, a, k) == IF t = "AND" THEN a >= k ELSE a <= k

\* Of && the least operand decides, of || the greatest.
LEMMA BeatsIs ==
    ASSUME NEW t \in {"AND", "OR"}, NEW a \in 0..2, NEW b \in 0..2
    PROVE  /\ \A k \in 0..2 : Beats(t, Op(t, a, b), k) <=> Beats(t, a, k) /\ Beats(t, b, k)
           /\ (\A k \in 0..2 : Beats(t, a, k) <=> Beats(t, b, k)) => a = b
  BY DEF Beats, Op, TriMin, TriMax

\* The value of a tree is that of its operands at a level, together.
LEMMA ValueByLevel ==
    ASSUME NEW val, IsCalculation(val), NEW t \in {"AND", "OR"}, NEW x \in NF, NEW k \in 0..2
    PROVE  Beats(t, expr_calc_value(x, val), k) <=>
             \A n \in 1..Len(Level(t, x)) : Beats(t, expr_calc_value(Operand(t, x, n), val), k)
<1> DEFINE V(y) == expr_calc_value(y, val)
           P == {y \in NF : Beats(t, V(y), k) <=>
                              \A n \in 1..Len(Level(t, y)) : Beats(t, V(Operand(t, y, n)), k)}
<1>0. \A y \in NF : y \in Expr /\ V(y) \in 0..2
  <2> TAKE y \in NF
  <2>1. y \in Expr BY NormalParts
  <2> QED BY <2>1, ValueTwo
<1>1. ASSUME NEW y \in NF, y.type # t PROVE y \in P
  <2>1. Len(Level(t, y)) = 1 /\ Operand(t, y, 1) = y BY <1>0, <1>1, LevelParts DEF Operand
  <2>2. \A n : n \in 1..Len(Level(t, y)) <=> n = 1 BY <2>1
  <2> HIDE DEF V
  <2> QED BY <2>1, <2>2
<1>2. ASSUME NEW y \in NF, IsTwo(y), y.left \in P, y.right \in P PROVE y \in P
  <2>1. CASE y.type # t BY <1>1, <2>1
  <2>2. CASE y.type = t
    <3> DEFINE a == Len(Level(t, y.left))
               b == Len(Level(t, y.right))
               at(n) == Beats(t, V(Operand(t, y, n)), k)
               l(n) == Beats(t, V(Operand(t, y.left, n)), k)
               r(n) == Beats(t, V(Operand(t, y.right, n)), k)
    <3>1. y \in Expr /\ y.left \in NF /\ y.right \in NF BY <1>0, <1>2, NormalParts
    <3>2. V(y) = Op(t, V(y.left), V(y.right)) BY <1>2, <2>2, <3>1, ValueTwo
    <3>3. Beats(t, V(y), k) <=> Beats(t, V(y.left), k) /\ Beats(t, V(y.right), k)
      BY <1>0, <3>1, <3>2, BeatsIs
    <3>4. a \in Nat /\ b \in Nat BY <1>0, <3>1, LevelParts
    <3>5. /\ Len(Level(t, y)) = a + b
          /\ \A n \in 1..Len(Level(t, y)) :
               Level(t, y)[n] = IF n <= a THEN Level(t, y.left)[n] ELSE Level(t, y.right)[n - a]
      BY <2>2, <3>1, LevelParts
    <3> HIDE DEF a, b, V
    <3>6. \A n \in 1..(a + b) : Operand(t, y, n) = IF n <= a THEN Operand(t, y.left, n)
                                                  ELSE Operand(t, y.right, n - a)
      BY <3>5 DEF Operand
    <3>7. \A n \in 1..(a + b) : at(n) <=> IF n <= a THEN l(n) ELSE r(n - a) BY <3>6
    <3>8. Beats(t, V(y.left), k) <=> \A n \in 1..a : l(n) BY <1>2 DEF a
    <3>9. Beats(t, V(y.right), k) <=> \A n \in 1..b : r(n) BY <1>2 DEF b
    <3> HIDE DEF at, l, r
    <3>10. (\A n \in 1..(a + b) : at(n)) <=> (\A n \in 1..a : l(n)) /\ (\A n \in 1..b : r(n))
      <4>1. ASSUME \A n \in 1..(a + b) : at(n), NEW n \in 1..a PROVE l(n)
        <5>1. n \in 1..(a + b) /\ n <= a BY <3>4
        <5> QED BY <3>7, <4>1, <5>1
      <4>2. ASSUME \A n \in 1..(a + b) : at(n), NEW n \in 1..b PROVE r(n)
        <5>1. n + a \in 1..(a + b) /\ ~(n + a <= a) /\ (n + a) - a = n BY <3>4
        <5> QED BY <3>7, <4>2, <5>1
      <4>3. ASSUME \A n \in 1..a : l(n), \A n \in 1..b : r(n), NEW n \in 1..(a + b) PROVE at(n)
        <5>1. n <= a => n \in 1..a BY <3>4
        <5>2. ~(n <= a) => n - a \in 1..b BY <3>4
        <5> QED BY <3>7, <4>3, <5>1, <5>2
      <4> QED BY <4>1, <4>2, <4>3
    <3>11. Beats(t, V(y), k) <=> \A n \in 1..Len(Level(t, y)) : at(n)
      BY <3>3, <3>5, <3>8, <3>9, <3>10
    <3> QED BY <3>11 DEF at
  <2> QED BY <2>1, <2>2
<1>3. Leaf \subseteq P
  <2>1. ASSUME NEW y \in Leaf PROVE y \in NF /\ y.type # t BY LeafIs DEF IsTwo
  <2> HIDE DEF P
  <2> QED BY <1>1, <2>1
<1> HIDE DEF P
<1>4. NF \subseteq P BY <1>2, <1>3, NormalInduction
<1> QED BY <1>4 DEF P

\* Two operands replaced by two that are worth the same together.
LEMMA TwoReplaced ==
    ASSUME NEW t \in {"AND", "OR"}, NEW x \in NF,
           NEW i \in 1..Len(Level(t, x)), NEW j \in 1..Len(Level(t, x)), i # j,
           NEW f1 \in NF, NEW f2 \in NF, NEW v, NEW w,
           IsReplaced(t, x, i, f1, v), IsReplaced(t, v, j, f2, w),
           \A val : IsCalculation(val) =>
             Op(t, expr_calc_value(f1, val), expr_calc_value(f2, val)) =
             Op(t, expr_calc_value(Operand(t, x, i), val), expr_calc_value(Operand(t, x, j), val))
    PROVE  Same(x, w)
<1> SUFFICES ASSUME NEW val, IsCalculation(val)
             PROVE  expr_calc_value(x, val) = expr_calc_value(w, val)
  BY DEF Same
<1> DEFINE V(y) == expr_calc_value(y, val)
           n == Len(Level(t, x))
           o(m) == Operand(t, x, m)
           p(m) == Operand(t, w, m)
<1>0. \A y \in NF : V(y) \in 0..2
  <2> TAKE y \in NF
  <2>1. y \in Expr BY NormalParts
  <2> QED BY <2>1, ValueTwo
<1>1. v \in NF /\ w \in NF /\ Len(Level(t, v)) = n /\ Len(Level(t, w)) = n BY DEF IsReplaced
<1>2. \A m \in 1..n : p(m) = IF m = j THEN f2 ELSE IF m = i THEN f1 ELSE o(m)
  BY <1>1 DEF IsReplaced
<1>3. \A m \in 1..n : o(m) \in NF BY OperandIs DEF Operand
<1>4. Op(t, V(f1), V(f2)) = Op(t, V(o(i)), V(o(j))) OBVIOUS
<1>5. ASSUME NEW k \in 0..2 PROVE Beats(t, V(x), k) <=> Beats(t, V(w), k)
  <2>1. Beats(t, V(x), k) <=> \A m \in 1..n : Beats(t, V(o(m)), k) BY ValueByLevel
  <2>2. Beats(t, V(w), k) <=> \A m \in 1..n : Beats(t, V(p(m)), k) BY <1>1, ValueByLevel
  <2>3. i \in 1..n /\ j \in 1..n OBVIOUS
  <2> HIDE DEF V, n, o, p
  <2>4. Beats(t, V(f1), k) /\ Beats(t, V(f2), k) <=> Beats(t, V(o(i)), k) /\ Beats(t, V(o(j)), k)
    BY <1>0, <1>3, <1>4, <2>3, BeatsIs
  <2>5. (\A m \in 1..n : Beats(t, V(p(m)), k)) <=> \A m \in 1..n : Beats(t, V(o(m)), k)
    <3>1. p(i) = f1 /\ p(j) = f2 BY <1>2, <2>3
    <3>2. \A m \in 1..n : m # i /\ m # j => p(m) = o(m) BY <1>2
    <3>3. ASSUME \A m \in 1..n : Beats(t, V(p(m)), k), NEW m \in 1..n PROVE Beats(t, V(o(m)), k)
      <4>1. Beats(t, V(f1), k) /\ Beats(t, V(f2), k) BY <2>3, <3>1, <3>3
      <4>2. Beats(t, V(o(i)), k) /\ Beats(t, V(o(j)), k) BY <2>4, <4>1
      <4> QED BY <3>2, <3>3, <4>2
    <3>4. ASSUME \A m \in 1..n : Beats(t, V(o(m)), k), NEW m \in 1..n PROVE Beats(t, V(p(m)), k)
      <4>1. Beats(t, V(o(i)), k) /\ Beats(t, V(o(j)), k) BY <2>3, <3>4
      <4>2. Beats(t, V(f1), k) /\ Beats(t, V(f2), k) BY <2>4, <4>1
      <4> QED BY <3>1, <3>2, <3>4, <4>2
    <3> QED BY <3>3, <3>4
  <2> QED BY <2>1, <2>2, <2>5
<1>6. V(x) \in 0..2 /\ V(w) \in 0..2 BY <1>0, <1>1
<1> HIDE DEF V
<1>7. V(x) = V(w) BY <1>5, <1>6, BeatsIs
<1> QED BY <1>7 DEF V

\* A constant among the operands is absorbed.
LEMMA UnitReduces ==
    ASSUME NEW t \in {"AND", "OR"}, NEW x \in NF, NEW n \in 1..Len(Level(t, x)),
           IsReducible(Operand(t, x, n))
    PROVE  IsReducible(x)
  BY OperandIs DEF Operand

-----------------------------------------------------------------------------
(* A pass over the operands of a level.                                    *)

\* What a pass makes of a visit: the same level with no more operands, worth
\* the same; it is unchanged, or a constant was put in that can be absorbed.
Simplifies(s, f) ==
    /\ f \in Passes(MaxOperands)
    /\ f.tree.type = s.tree.type /\ Size(f.tree) <= Size(s.tree) /\ Same(s.tree, f.tree)
    /\ \/ f.tree = s.tree /\ (f.changed <=> s.changed)
       \/ f.changed /\ IsReducible(f.tree)

\* Where a pass over a level stands.
LEMMA VisitIs ==
    ASSUME NEW s \in Passes(MaxOperands)
    PROVE  /\ s.tree \in NF /\ IsTwo(s.tree) /\ s.tree.type \in {"AND", "OR"}
           /\ s.i \in 1..MaxOperands + 1 /\ s.j \in 1..MaxOperands + 1 /\ s.changed \in BOOLEAN
           /\ Size(s.tree) \in 1..MaxOperands /\ MaxOperands \in Nat
           /\ Len(Level(s.tree.type, s.tree)) \in 1..MaxOperands
           /\ s = [tree |-> s.tree, i |-> s.i, j |-> s.j, changed |-> s.changed]
<1>1. /\ s.tree \in NF /\ IsTwo(s.tree) /\ s.tree.type \in {"AND", "OR"}
      /\ s.i \in 1..MaxOperands + 1 /\ s.j \in 1..MaxOperands + 1 /\ s.changed \in BOOLEAN
      /\ s = [tree |-> s.tree, i |-> s.i, j |-> s.j, changed |-> s.changed]
  BY DEF Passes, Compounds, NF, IsTwo
<1>2. s.tree \in Expr /\ Size(s.tree) \in 1..MaxOperands /\ MaxOperands \in Nat
  BY <1>1, NormalParts, KExprAssumption
<1> DEFINE n == Len(Level(s.tree.type, s.tree))
           m == Size(s.tree)
<1>3. n \in Nat \ {0} BY <1>1, <1>2, LevelParts
<1>4. n <= m
  <2>1. 1 \in 1..n BY <1>3
  <2> QED BY <1>1, <2>1, OperandIs
<1>5. m \in 1..MaxOperands BY <1>2
<1> HIDE DEF n, m
<1>6. n \in 1..MaxOperands BY <1>2, <1>3, <1>4, <1>5
<1> QED BY <1>1, <1>2, <1>6 DEF n

\* A pass starts and goes on at places there are.
LEMMA VisitMade ==
    ASSUME NEW x \in NF, IsTwo(x), NEW i \in 1..MaxOperands + 1, NEW j \in 1..MaxOperands + 1,
           NEW c \in BOOLEAN
    PROVE  /\ [tree |-> x, i |-> i, j |-> j, changed |-> c] \in Passes(MaxOperands)
           /\ FirstVisit(x) \in Passes(MaxOperands)
<1>1. x \in Compounds(MaxOperands) BY DEF Compounds, NF
<1>2. 1 \in 1..MaxOperands + 1 BY KExprAssumption
<1> QED BY <1>1, <1>2 DEF Passes, FirstVisit

\* What a visit finds by the calls g: the level when the operand i, which is
\* inner now, has met the operand j, ...
Meet(s, inner) == Met(s, inner, Level(s.tree.type, s.tree)[s.j])
\* ... the next visit, ...
Upon(g, s) == NextVisit(g, s, Level(s.tree.type, s.tree))
\* ... and the last one.
PassBody(g, s) == LastVisit(g, s, Level(s.tree.type, s.tree))

\* A pass ends after the last operand of the level.
LEMMA PassBodyIs ==
    ASSUME NEW g, NEW s
    PROVE  PassBody(g, s) = IF s.i > Len(Level(s.tree.type, s.tree)) THEN s ELSE g[Upon(g, s)]
  BY DEF PassBody, LastVisit, Upon

\* What the visit of an operand must give.
InnerIs(t, e1, inner) ==
    /\ inner.tree \in NF /\ inner.tree.type # t /\ inner.changed \in BOOLEAN
    /\ Size(inner.tree) <= Size(e1) /\ Same(e1, inner.tree)
    /\ \/ inner.tree = e1 /\ ~inner.changed
       \/ inner.changed /\ IsReducible(inner.tree)

\* Two operands that meet.
LEMMA MetSimplifies ==
    ASSUME NEW s \in Passes(MaxOperands), s.i <= Len(Level(s.tree.type, s.tree)),
           s.j <= Len(Level(s.tree.type, s.tree)), s.i # s.j,
           NEW inner, InnerIs(s.tree.type, Level(s.tree.type, s.tree)[s.i], inner)
    PROVE  /\ Simplifies(s, Meet(s, inner))
           /\ Meet(s, inner).i = s.i /\ Meet(s, inner).j = s.j + 1
<1> DEFINE t == s.tree.type
           x == s.tree
           i == s.i
           j == s.j
           e1 == Operand(t, x, i)
           e2 == Operand(t, x, j)
           joined == expr_join(t, inner.tree, e2)
           f1 == IF joined # NoExpr THEN Unit(t) ELSE inner.tree
           f2 == IF joined # NoExpr THEN joined ELSE e2
           c == IF joined # NoExpr THEN TRUE ELSE s.changed \/ inner.changed
           v == WithOperand(t, x, i, f1)
           w == WithOperand(t, v, j, f2)
<1>1. /\ x \in NF /\ IsTwo(x) /\ t \in {"AND", "OR"} /\ x.type = t /\ Size(x) \in Nat /\ Size(x) <= MaxOperands
      /\ MaxOperands \in Nat /\ Len(Level(t, x)) <= MaxOperands /\ s.changed \in BOOLEAN
      /\ i \in 1..Len(Level(t, x)) /\ j \in 1..Len(Level(t, x)) /\ i # j
      /\ i \in 1..MaxOperands + 1 /\ j + 1 \in 1..MaxOperands + 1
  BY VisitIs
<1>2. Meet(s, inner) = [tree |-> w, i |-> i, j |-> j + 1, changed |-> c]
  <2>1. s = [tree |-> s.tree, i |-> s.i, j |-> s.j, changed |-> s.changed] BY VisitIs
  <2>2. Meet(s, inner) = [s EXCEPT !.tree = w, !.j = @ + 1,
                                  !.changed = @ \/ joined # NoExpr \/ inner.changed]
    <3>1. f1 = IF joined = NoExpr THEN inner.tree ELSE Unit(t) OBVIOUS
    <3>2. f2 = IF joined = NoExpr THEN e2 ELSE joined OBVIOUS
    <3>3. Meet(s, inner) = Joining(s, inner, e2, joined) BY DEF Meet, Met, Operand
    <3> HIDE DEF f1, f2, e2, joined
    <3> QED BY <3>1, <3>2, <3>3 DEF Joining
  <2> HIDE DEF w, joined
  <2> QED BY <2>1, <2>2
<1>3. /\ e1 \in NF /\ e1.type # t /\ e2 \in NF /\ e2.type # t
  BY <1>1, OperandIs DEF Operand
<1>s. \A y \in NF : Size(y) \in Nat \ {0}
  <2> TAKE y \in NF
  <2>1. Size(y) \in 1..MaxOperands BY NormalParts
  <2> QED BY <1>1, <2>1
<1>4. /\ inner.tree \in NF /\ inner.tree.type # t /\ inner.changed \in BOOLEAN
      /\ Size(inner.tree) <= Size(e1) /\ Same(e1, inner.tree)
      /\ \/ inner.tree = e1 /\ ~inner.changed
         \/ inner.changed /\ IsReducible(inner.tree)
  BY DEF InnerIs, Operand
<1>5. /\ Unit(t) \in NF /\ Unit(t).type # t /\ Size(Unit(t)) = 1 /\ IsReducible(Unit(t))
      /\ \A val : IsCalculation(val) =>
           expr_calc_value(Unit(t), val) = IF t = "OR" THEN 0 ELSE 2
  <2> DEFINE u == IF t = "OR" THEN "n" ELSE "y"
  <2>1. Unit(t) = SymbolExpr(u) /\ u \in {"y", "n"} BY DEF Unit
  <2>2. SymbolExpr(u) \in Leaf /\ IsConst(SymbolExpr(u), u) BY <2>1, ConstantIs
  <2>3. Unit(t) \in NF /\ Size(Unit(t)) = 1 /\ ~IsTwo(Unit(t)) BY <2>1, <2>2, LeafIs
  <2>4. IsReducible(Unit(t)) BY <2>1, <2>2 DEF IsReducible, IsUnit
  <2>5. \A val : IsCalculation(val) => expr_calc_value(Unit(t), val) = IF t = "OR" THEN 0 ELSE 2
    BY <2>1, ConstantIs
  <2>6. Unit(t).type # t BY <1>1, <2>3 DEF IsTwo
  <2> QED BY <2>3, <2>4, <2>5, <2>6
<1>6. joined # NoExpr => /\ joined \in NF /\ joined.type # t /\ Size(joined) <= Size(e1)
                         /\ \A val : IsCalculation(val) =>
                              expr_calc_value(joined, val) =
                                Op(t, expr_calc_value(e1, val), expr_calc_value(e2, val))
  <2> HAVE joined # NoExpr
  <2> HIDE DEF e1, e2
  <2>1. /\ joined \in NF /\ Size(joined) <= Size(inner.tree)
        /\ joined = inner.tree \/ joined \in Leaf
        /\ \A val : IsCalculation(val) =>
             expr_calc_value(joined, val) = Op(t, expr_calc_value(inner.tree, val), expr_calc_value(e2, val))
    BY <1>1, <1>3, <1>4, JoinIs
  <2> HIDE DEF joined
  <2>2. joined.type # t
    <3>1. joined \in Leaf => ~IsTwo(joined) BY LeafIs
    <3> QED BY <1>1, <1>4, <2>1, <3>1 DEF IsTwo
  <2>3. Size(joined) <= Size(e1) BY <1>3, <1>4, <1>s, <2>1
  <2> QED BY <1>4, <2>1, <2>2, <2>3 DEF Same
<1> HIDE DEF e1, e2, joined, i, j
<1>7. /\ f1 \in NF /\ f1.type # t /\ Size(f1) <= Size(e1)
      /\ f2 \in NF /\ f2.type # t /\ Size(f1) + Size(f2) <= Size(e1) + Size(e2)
  <2>1. Size(e1) \in Nat \ {0} /\ Size(e2) \in Nat \ {0} /\ Size(inner.tree) \in Nat \ {0} BY <1>3, <1>4, <1>s
  <2>2. CASE joined # NoExpr
    <3>1. Size(joined) \in Nat \ {0} BY <1>6, <1>s, <2>2
    <3> QED BY <1>5, <1>6, <2>1, <2>2, <3>1
  <2>3. CASE joined = NoExpr BY <1>3, <1>4, <2>1, <2>3
  <2> QED BY <2>2, <2>3
<1>8. \A val : IsCalculation(val) =>
        Op(t, expr_calc_value(f1, val), expr_calc_value(f2, val)) =
        Op(t, expr_calc_value(e1, val), expr_calc_value(e2, val))
  <2> TAKE val
  <2> HAVE IsCalculation(val)
  <2>1. CASE joined # NoExpr
    <3> DEFINE a == expr_calc_value(joined, val)
               b == expr_calc_value(Unit(t), val)
    <3>1. joined \in Expr BY <1>6, <2>1, NormalParts
    <3>2. a \in 0..2 BY <3>1, ValueTwo
    <3>3. b = IF t = "OR" THEN 0 ELSE 2 BY <1>5
    <3> HIDE DEF a, b
    <3>4. Op(t, b, a) = a BY <1>1, <3>2, <3>3 DEF Op, TriMin, TriMax
    <3> QED BY <1>6, <2>1, <3>4 DEF a, b
  <2>2. CASE joined = NoExpr
    <3>1. expr_calc_value(e1, val) = expr_calc_value(inner.tree, val) BY <1>4 DEF Same
    <3> QED BY <2>2, <3>1
  <2> QED BY <2>1, <2>2
<1> HIDE DEF f1, f2
<1>z. Size(e1) \in Nat /\ Size(e2) \in Nat /\ Size(f1) \in Nat /\ Size(f2) \in Nat BY <1>3, <1>7, <1>s
<1>9. IsReplaced(t, x, i, f1, v)
  <2>1. Size(x) - Size(e1) + Size(f1) <= MaxOperands BY <1>1, <1>7, <1>z
  <2>2. Size(x) - Size(Operand(t, x, i)) + Size(f1) <= MaxOperands BY <2>1 DEF e1
  <2> HIDE DEF t, x, v
  <2> QED BY <1>1, <1>7, <2>2, WithIs DEF v
<1> HIDE DEF t, x, v, w
<1>10. /\ v \in NF /\ v.type = t /\ Size(v) = Size(x) - Size(e1) + Size(f1)
       /\ Len(Level(t, v)) = Len(Level(t, x))
       /\ \A m \in 1..Len(Level(t, x)) : Operand(t, v, m) = IF m = i THEN f1 ELSE Operand(t, x, m)
       /\ e1 = f1 => v = x
  BY <1>1, <1>9 DEF IsReplaced, e1
<1>11. Operand(t, v, j) = e2 BY <1>1, <1>10 DEF e2
<1>12. IsReplaced(t, v, j, f2, w)
  <2>1. Size(v) - Size(e2) + Size(f2) <= MaxOperands BY <1>1, <1>7, <1>10, <1>z
  <2>2. Size(v) - Size(Operand(t, v, j)) + Size(f2) <= MaxOperands BY <1>11, <2>1
  <2>3. j \in 1..Len(Level(t, v)) BY <1>1, <1>10
  <2> QED BY <1>1, <1>7, <1>10, <2>2, <2>3, WithIs DEF w
<1>13. /\ w \in NF /\ w.type = t /\ Size(w) = Size(v) - Size(e2) + Size(f2)
       /\ Len(Level(t, w)) = Len(Level(t, x))
       /\ Operand(t, w, i) = f1 /\ (e2 = f2 => w = v)
  BY <1>1, <1>10, <1>11, <1>12 DEF IsReplaced
<1>14. Size(w) <= Size(x) BY <1>1, <1>7, <1>10, <1>13, <1>z
<1>15. Same(x, w)
  <2>1. Op(t, 0, 0) = Op(t, 0, 0) OBVIOUS
  <2>2. \A val : IsCalculation(val) =>
          Op(t, expr_calc_value(f1, val), expr_calc_value(f2, val)) =
          Op(t, expr_calc_value(Operand(t, x, i), val), expr_calc_value(Operand(t, x, j), val))
    BY <1>8 DEF e1, e2
  <2> QED BY <1>1, <1>7, <1>9, <1>12, <2>2, TwoReplaced
<1>16. (w = x /\ (c <=> s.changed)) \/ (c /\ IsReducible(w))
  <2>1. IsReducible(f1) => IsReducible(w)
    <3>1. i \in 1..Len(Level(t, w)) BY <1>1, <1>13
    <3> QED BY <1>1, <1>13, <3>1, UnitReduces
  <2>2. CASE joined # NoExpr
    <3>1. f1 = Unit(t) /\ c = TRUE BY <2>2 DEF f1
    <3> QED BY <1>5, <2>1, <3>1
  <2>3. CASE joined = NoExpr /\ inner.changed /\ IsReducible(inner.tree)
    BY <2>1, <2>3 DEF f1
  <2>4. CASE joined = NoExpr /\ inner.tree = e1 /\ ~inner.changed
    <3>1. f1 = e1 /\ f2 = e2 BY <2>4 DEF f1, f2
    <3>2. w = x BY <1>10, <1>13, <3>1
    <3>3. c <=> s.changed BY <2>4
    <3> QED BY <3>2, <3>3
  <2> QED BY <1>4, <2>2, <2>3, <2>4
<1>17. c \in BOOLEAN BY <1>1, <1>4
<1> DEFINE f == [tree |-> w, i |-> i, j |-> j + 1, changed |-> c]
<1>18. f \in Passes(MaxOperands)
  <2>1. IsTwo(w) BY <1>1, <1>13 DEF IsTwo
  <2> QED BY <1>1, <1>13, <1>17, <2>1, VisitMade
<1>19. Simplifies(s, f) BY <1>1, <1>13, <1>14, <1>15, <1>16, <1>18 DEF Simplifies, t, x
<1> QED BY <1>2, <1>19 DEF i, j

-----------------------------------------------------------------------------
(* The pass ends, and keeps the value.                                     *)

\* How much a pass has left to do: less in a smaller tree, then at a later
\* operand i, then at a later operand j.
PassMeasure(s) ==
    LET K == MaxOperands + 2
    IN  (Size(s.tree) * K + (K - s.i)) * K + (K - s.j)

\* The order of pairs, as an order of numbers.
LEMMA Lexicographic ==
    ASSUME NEW K \in Nat, NEW a \in Nat, NEW b \in Nat, NEW c \in Nat, NEW d \in Nat, b < K, d < K
    PROVE  /\ a * K + b \in Nat
           /\ a < c => a * K + b < c * K + d
           /\ a <= c /\ b < d => a * K + b < c * K + d
           /\ a <= c /\ b <= d => a * K + b <= c * K + d
<1>1. a * K \in Nat /\ c * K \in Nat OBVIOUS
<1>2. ASSUME a < c PROVE a * K + K <= c * K
  <2>1. c - a - 1 \in Nat BY <1>2
  <2>2. (c - a - 1) * K \in Nat BY <2>1
  <2>3. (c - a - 1) * K = c * K - a * K - K OBVIOUS
  <2> QED BY <1>1, <2>2, <2>3
<1>3. ASSUME a <= c PROVE a * K <= c * K
  <2>1. CASE a = c BY <2>1
  <2>2. CASE a < c BY <1>1, <1>2, <2>2
  <2> QED BY <1>3, <2>1, <2>2
<1> DEFINE p == a * K
           q == c * K
<1>4. p \in Nat /\ q \in Nat BY <1>1
<1>5. a < c => p + K <= q BY <1>2
<1>6. a <= c => p <= q BY <1>3
<1> HIDE DEF p, q
<1>7. /\ p + b \in Nat
      /\ a < c => p + b < q + d
      /\ a <= c /\ b < d => p + b < q + d
      /\ a <= c /\ b <= d => p + b <= q + d
  BY <1>4, <1>5, <1>6
<1> QED BY <1>7 DEF p, q

\* A visit has less to do when it is of a smaller tree, or later in one.
LEMMA LessToDo ==
    ASSUME NEW s \in Passes(MaxOperands), NEW f \in Passes(MaxOperands)
    PROVE  /\ PassMeasure(s) \in Nat
           /\ \/ Size(f.tree) < Size(s.tree)
              \/ Size(f.tree) <= Size(s.tree) /\ f.i > s.i
              \/ Size(f.tree) <= Size(s.tree) /\ f.i = s.i /\ f.j > s.j
              => PassMeasure(f) < PassMeasure(s)
<1> DEFINE K == MaxOperands + 2
           m(r) == Size(r.tree)
           a(r) == K - r.i
           b(r) == K - r.j
           c(r) == m(r) * K + a(r)
<1>1. \A r \in Passes(MaxOperands) :
        K \in Nat /\ m(r) \in Nat /\ a(r) \in Nat /\ b(r) \in Nat /\ a(r) < K /\ b(r) < K
  <2> TAKE r \in Passes(MaxOperands)
  <2>1. /\ r.i \in 1..MaxOperands + 1 /\ r.j \in 1..MaxOperands + 1 /\ MaxOperands \in Nat
        /\ Size(r.tree) \in 1..MaxOperands
    BY VisitIs
  <2>2. m(r) \in Nat BY <2>1
  <2> HIDE DEF m
  <2> QED BY <2>1, <2>2
<1>2. \A r : PassMeasure(r) = c(r) * K + b(r) BY DEF PassMeasure
<1>3. a(f) < a(s) <=> f.i > s.i BY VisitIs
<1>4. b(f) < b(s) <=> f.j > s.j BY VisitIs
<1>5. f.i = s.i => a(f) = a(s) OBVIOUS
<1> HIDE DEF K, m, a, b
<1>6. /\ c(f) \in Nat /\ c(s) \in Nat
      /\ m(f) < m(s) => c(f) < c(s)
      /\ m(f) <= m(s) /\ a(f) < a(s) => c(f) < c(s)
      /\ m(f) <= m(s) /\ a(f) <= a(s) => c(f) <= c(s)
  BY <1>1, Lexicographic
<1> HIDE DEF c
<1>7. /\ c(s) * K + b(s) \in Nat
      /\ c(f) < c(s) => c(f) * K + b(f) < c(s) * K + b(s)
      /\ c(f) <= c(s) /\ b(f) < b(s) => c(f) * K + b(f) < c(s) * K + b(s)
  BY <1>1, <1>6, Lexicographic
<1>8. a(s) <= a(s) BY <1>1
<1>9. \/ m(f) < m(s)
      \/ m(f) <= m(s) /\ f.i > s.i
      \/ m(f) <= m(s) /\ f.i = s.i /\ f.j > s.j
      => PassMeasure(f) < PassMeasure(s)
  BY <1>2, <1>3, <1>4, <1>5, <1>6, <1>7, <1>8
<1> QED BY <1>2, <1>7, <1>9 DEF m

\* One thing after another.
LEMMA SimplifiesTransitive ==
    ASSUME NEW r \in Passes(MaxOperands), NEW s, NEW f, Simplifies(r, s), Simplifies(s, f)
    PROVE  Simplifies(r, f)
<1>1. s \in Passes(MaxOperands) /\ f \in Passes(MaxOperands) BY DEF Simplifies
<1>2. Size(r.tree) \in Nat /\ Size(s.tree) \in Nat /\ Size(f.tree) \in Nat BY <1>1, VisitIs
<1>3. Size(f.tree) <= Size(r.tree) BY <1>2 DEF Simplifies
<1>4. Same(r.tree, f.tree) BY DEF Simplifies, Same
<1> QED BY <1>1, <1>3, <1>4 DEF Simplifies

\* The calls that have less to do give what they should.
PassRight(g, n) == \A s \in Passes(MaxOperands) : PassMeasure(s) < n => Simplifies(s, g[s])
PassAgree(g, h, n) == \A s \in Passes(MaxOperands) : PassMeasure(s) < n => g[s] = h[s]

\* The operand of a level is visited before it meets the others.
LEMMA InnerRight ==
    ASSUME NEW s \in Passes(MaxOperands), s.i <= Len(Level(s.tree.type, s.tree)),
           NEW g, PassRight(g, PassMeasure(s))
    PROVE  /\ InnerIs(s.tree.type, Level(s.tree.type, s.tree)[s.i],
                      InnerVisit(g, Level(s.tree.type, s.tree)[s.i]))
           /\ \A h : PassAgree(g, h, PassMeasure(s)) =>
                InnerVisit(g, Level(s.tree.type, s.tree)[s.i]) =
                InnerVisit(h, Level(s.tree.type, s.tree)[s.i])
<1> DEFINE t == s.tree.type
           e == Level(t, s.tree)[s.i]
<1>1. t \in {"AND", "OR"} /\ s.tree \in NF /\ s.i \in 1..Len(Level(t, s.tree)) /\ s.tree.type = t
  BY VisitIs
<1> HIDE DEF t
<1>2. e \in NF /\ e.type # t /\ Size(e) < Size(s.tree) BY <1>1, OperandIs
<1> HIDE DEF e
<1>3. CASE IsTwo(e)
  <2>1. FirstVisit(e) \in Passes(MaxOperands)
    <3>1. 1 \in 1..MaxOperands + 1 BY KExprAssumption
    <3> QED BY <1>2, <1>3, <3>1, VisitMade
  <2>2. FirstVisit(e).tree = e /\ FirstVisit(e).changed = FALSE BY DEF FirstVisit
  <2>3. PassMeasure(FirstVisit(e)) < PassMeasure(s) BY <1>2, <2>1, <2>2, LessToDo
  <2>4. Simplifies(FirstVisit(e), g[FirstVisit(e)]) BY <2>1, <2>3 DEF PassRight
  <2>5. \A h : PassAgree(g, h, PassMeasure(s)) => g[FirstVisit(e)] = h[FirstVisit(e)]
    BY <2>1, <2>3 DEF PassAgree
  <2>6. g[FirstVisit(e)] \in Passes(MaxOperands) BY <2>4 DEF Simplifies
  <2>7. g[FirstVisit(e)].tree \in NF /\ g[FirstVisit(e)].changed \in BOOLEAN BY <2>6, VisitIs
  <2>8. InnerIs(t, e, g[FirstVisit(e)]) BY <1>2, <2>2, <2>4, <2>7 DEF Simplifies, InnerIs
  <2> QED BY <1>3, <2>5, <2>8 DEF InnerVisit, t, e
<1>4. CASE ~IsTwo(e)
  <2>1. Size(e) \in Nat BY <1>2, NormalParts
  <2>2. FirstVisit(e).tree = e /\ FirstVisit(e).changed = FALSE BY DEF FirstVisit
  <2>4. Same(e, e) BY DEF Same
  <2>3. InnerIs(t, e, FirstVisit(e))
    <3> DEFINE inner == FirstVisit(e)
    <3>1. inner.tree = e /\ inner.changed = FALSE BY <2>2
    <3> HIDE DEF inner
    <3>2. inner.changed \in BOOLEAN /\ ~inner.changed BY <3>1
    <3>3. Size(inner.tree) <= Size(e) BY <2>1, <3>1
    <3>4. InnerIs(t, e, inner) BY <1>2, <2>4, <3>1, <3>2, <3>3 DEF InnerIs
    <3> QED BY <3>4 DEF inner
  <2> QED BY <1>4, <2>3 DEF InnerVisit, t, e
<1> QED BY <1>3, <1>4

\* The next visit goes on with what was simplified, and has less to do.
LEMMA NextRight ==
    ASSUME NEW s \in Passes(MaxOperands), s.i <= Len(Level(s.tree.type, s.tree)),
           NEW g, PassRight(g, PassMeasure(s))
    PROVE  /\ Simplifies(s, Upon(g, s)) /\ PassMeasure(Upon(g, s)) < PassMeasure(s)
           /\ \A h : PassAgree(g, h, PassMeasure(s)) => Upon(g, s) = Upon(h, s)
<1> DEFINE n == Len(Level(s.tree.type, s.tree))
           e == Level(s.tree.type, s.tree)[s.i]
           f == Upon(g, s)
<1>1. /\ s.tree \in NF /\ IsTwo(s.tree) /\ s.i \in 1..MaxOperands + 1 /\ s.j \in 1..MaxOperands + 1
      /\ s.changed \in BOOLEAN /\ MaxOperands \in Nat /\ n \in 1..MaxOperands
      /\ s = [tree |-> s.tree, i |-> s.i, j |-> s.j, changed |-> s.changed]
      /\ Size(s.tree) \in Nat
  BY VisitIs
<1>i. s.i <= n OBVIOUS
<1>2. \A r \in Passes(MaxOperands) : r.tree = s.tree /\ r.changed = s.changed => Simplifies(s, r)
  BY <1>1 DEF Simplifies, Same
<1>n. 1 \in 1..MaxOperands + 1 /\ s.i + 1 \in 1..MaxOperands + 1
  <2> HIDE DEF n
  <2> QED BY <1>1, <1>i
<1>3. CASE s.j > n
  <2>1. f = [tree |-> s.tree, i |-> s.i + 1, j |-> 1, changed |-> s.changed]
    <3>1. f = [s EXCEPT !.i = @ + 1, !.j = 1] BY <1>3 DEF Upon, NextVisit
    <3> HIDE DEF f
    <3> QED BY <1>1, <3>1
  <2> HIDE DEF f, n
  <2>2. f \in Passes(MaxOperands) /\ f.tree = s.tree /\ f.changed = s.changed /\ f.i > s.i
    BY <1>1, <1>n, <2>1, VisitMade
  <2>3. Simplifies(s, f) /\ PassMeasure(f) < PassMeasure(s) BY <1>1, <1>2, <2>2, LessToDo
  <2>4. \A h : Upon(h, s) = f BY <1>3 DEF Upon, NextVisit, f, n
  <2> QED BY <2>3, <2>4 DEF f
<1>4. CASE ~(s.j > n) /\ s.i = s.j
  <2>1. f = [tree |-> s.tree, i |-> s.i, j |-> s.j + 1, changed |-> s.changed]
    <3>1. f = [s EXCEPT !.j = @ + 1] BY <1>4 DEF Upon, NextVisit
    <3> HIDE DEF f
    <3> QED BY <1>1, <3>1
  <2> HIDE DEF f, n
  <2>j. s.j + 1 \in 1..MaxOperands + 1 BY <1>n, <1>4
  <2>2. f \in Passes(MaxOperands) /\ f.tree = s.tree /\ f.changed = s.changed /\ f.i = s.i /\ f.j > s.j
    BY <1>1, <2>1, <2>j, VisitMade
  <2>3. Simplifies(s, f) /\ PassMeasure(f) < PassMeasure(s) BY <1>1, <1>2, <2>2, LessToDo
  <2>4. \A h : Upon(h, s) = f BY <1>4 DEF Upon, NextVisit, f, n
  <2> QED BY <2>3, <2>4 DEF f
<1>5. CASE ~(s.j > n) /\ s.i # s.j
  <2> DEFINE inner == InnerVisit(g, e)
  <2>1. f = Meet(s, inner) BY <1>5 DEF Upon, NextVisit, Meet
  <2>2. InnerIs(s.tree.type, e, inner) BY InnerRight
  <2> HIDE DEF f, inner
  <2>3. s.j <= n
    <3> HIDE DEF n
    <3> QED BY <1>1, <1>5
  <2>4. Simplifies(s, Meet(s, inner)) /\ Meet(s, inner).i = s.i /\ Meet(s, inner).j = s.j + 1
    BY <1>5, <2>2, <2>3, MetSimplifies
  <2>5. f \in Passes(MaxOperands) /\ Size(f.tree) <= Size(s.tree) BY <2>1, <2>4 DEF Simplifies
  <2>6. f.i = s.i /\ f.j > s.j BY <1>1, <2>1, <2>4
  <2>7. PassMeasure(f) < PassMeasure(s) BY <2>5, <2>6, LessToDo
  <2>8. ASSUME NEW h, PassAgree(g, h, PassMeasure(s)) PROVE Upon(h, s) = f
    <3>1. InnerVisit(h, e) = inner BY <2>8, InnerRight DEF inner
    <3>2. Upon(h, s) = Meet(s, InnerVisit(h, e)) BY <1>5 DEF Upon, NextVisit, Meet
    <3> QED BY <2>1, <3>1, <3>2
  <2> QED BY <2>1, <2>4, <2>7, <2>8 DEF f
<1> QED BY <1>3, <1>4, <1>5

\* A step of the pass keeps the value, when the rest of the pass does, and
\* only depends on that rest.
LEMMA PassBodyRight ==
    ASSUME NEW s \in Passes(MaxOperands), NEW g, PassRight(g, PassMeasure(s))
    PROVE  /\ Simplifies(s, PassBody(g, s))
           /\ \A h : PassAgree(g, h, PassMeasure(s)) => PassBody(g, s) = PassBody(h, s)
<1>1. CASE s.i > Len(Level(s.tree.type, s.tree))
  <2>1. Size(s.tree) \in Nat BY VisitIs
  <2>2. Simplifies(s, s) BY <2>1 DEF Simplifies, Same
  <2> QED BY <1>1, <2>2, PassBodyIs
<1>2. CASE ~(s.i > Len(Level(s.tree.type, s.tree)))
  <2> DEFINE f == Upon(g, s)
  <2>0. s.i <= Len(Level(s.tree.type, s.tree))
    <3> DEFINE n == Len(Level(s.tree.type, s.tree))
    <3>1. s.i \in Nat /\ n \in Nat BY VisitIs
    <3> HIDE DEF n
    <3>2. s.i <= n BY <1>2, <3>1 DEF n
    <3> QED BY <3>2 DEF n
  <2>1. /\ Simplifies(s, f) /\ PassMeasure(f) < PassMeasure(s)
        /\ \A h : PassAgree(g, h, PassMeasure(s)) => f = Upon(h, s)
    BY <2>0, NextRight
  <2> HIDE DEF f
  <2>2. f \in Passes(MaxOperands) BY <2>1 DEF Simplifies
  <2>3. Simplifies(f, g[f]) BY <2>1, <2>2 DEF PassRight
  <2>4. Simplifies(s, g[f]) BY <2>1, <2>3, SimplifiesTransitive
  <2>5. PassBody(g, s) = g[f] BY <1>2, PassBodyIs DEF f
  <2>6. ASSUME NEW h, PassAgree(g, h, PassMeasure(s)) PROVE PassBody(g, s) = PassBody(h, s)
    <3>1. f = Upon(h, s) BY <2>1, <2>6
    <3>2. g[f] = h[f] BY <2>1, <2>2, <2>6 DEF PassAgree
    <3>3. PassBody(h, s) = h[f] BY <1>2, <3>1, PassBodyIs
    <3> QED BY <2>5, <3>2, <3>3
  <2> QED BY <2>4, <2>5, <2>6
<1> QED BY <1>1, <1>2

\* A pass ends; it keeps the value, and when it says that it changed
\* something it has put in a constant.
LEMMA PassIs ==
    ASSUME NEW e \in NF, IsTwo(e)
    PROVE  Simplifies(FirstVisit(e), expr_eliminate_dups1(e))
<1> DEFINE D == Passes(MaxOperands)
           mu == [s \in D |-> PassMeasure(s)]
           Val == [s \in D |-> {f \in D : Simplifies(s, f)}]
           G == Choices(D, Val)
           B == [g \in G |-> [s \in D |-> PassBody(g, s)]]
<1>1. \A s \in D : mu[s] = PassMeasure(s) /\ mu[s] \in Nat /\ Val[s] # {}
  <2> TAKE s \in D
  <2>1. Size(s.tree) \in Nat BY VisitIs
  <2>2. Simplifies(s, s) BY <2>1 DEF Simplifies, Same
  <2>3. PassMeasure(s) \in Nat BY LessToDo
  <2> QED BY <2>2, <2>3
<1>2. \A s \in D : \A f : f \in Val[s] <=> Simplifies(s, f) BY DEF Simplifies
<1>3. \A g \in G, s \in D : B[g][s] = PassBody(g, s) OBVIOUS
<1> HIDE DEF mu, Val, B
<1>4. ASSUME NEW g \in G, NEW s \in D, \A r \in D : mu[r] < mu[s] => g[r] \in Val[r]
      PROVE  B[g][s] \in Val[s]
  <2>1. PassRight(g, PassMeasure(s)) BY <1>1, <1>2, <1>4 DEF PassRight
  <2> QED BY <1>2, <1>3, <2>1, PassBodyRight
<1>5. ASSUME NEW g \in G, NEW h \in G, NEW s \in D,
             \A r \in D : mu[r] < mu[s] => g[r] = h[r] /\ g[r] \in Val[r]
      PROVE  B[g][s] = B[h][s]
  <2>1. PassRight(g, PassMeasure(s)) /\ PassAgree(g, h, PassMeasure(s))
    BY <1>1, <1>2, <1>5 DEF PassRight, PassAgree
  <2> QED BY <1>3, <2>1, PassBodyRight
<1>6. IsBody(D, mu, Val, B)
  <2> HIDE DEF D
  <2> QED BY <1>1, <1>4, <1>5 DEF IsBody
<1>7. PICK f \in G : \A s \in D : f[s] = B[f][s] /\ f[s] \in Val[s]
  <2> HIDE DEF D
  <2>1. \E f \in Choices(D, Val) : \A s \in D : f[s] = B[f][s] /\ f[s] \in Val[s]
    BY <1>6, Recursion
  <2> QED BY <2>1
<1>8. f = [s \in D |-> f[s]] BY DEF Choices
<1>9. \A s \in D : f[s] = PassBody(f, s)
  <2> HIDE DEF G, D
  <2> QED BY <1>3, <1>7
<1>10. \E g : g = [s \in D |-> PassBody(g, s)] BY <1>8, <1>9
<1> DEFINE pass == CHOOSE g : g = [s \in D |-> PassBody(g, s)]
<1>11. expr_eliminate_dups1(e) = pass[FirstVisit(e)]
  BY DEF expr_eliminate_dups1, Pass, PassBody
<1>12. pass = [s \in D |-> PassBody(pass, s)] BY <1>10
<1> HIDE DEF pass
<1>13. \A s \in D : pass[s] = PassBody(pass, s) BY <1>12
<1> DEFINE P == {s \in D : Simplifies(s, pass[s])}
<1>14. ASSUME NEW s \in D, \A r \in D : mu[r] < mu[s] => r \in P
       PROVE  s \in P
  <2>1. PassRight(pass, PassMeasure(s)) BY <1>1, <1>14 DEF PassRight
  <2>2. Simplifies(s, PassBody(pass, s)) BY <2>1, PassBodyRight
  <2> QED BY <1>13, <2>2
<1> HIDE DEF P, D
<1>15. D \subseteq P BY <1>1, <1>14, MeasureInduction
<1>16. FirstVisit(e) \in D
  <2>1. 1 \in 1..MaxOperands + 1 BY KExprAssumption
  <2> QED BY <2>1, VisitMade DEF D
<1> QED BY <1>11, <1>15, <1>16 DEF P

-----------------------------------------------------------------------------
(* Passes, until one changes nothing.                                      *)

DupsBody(g, x) == IF IsTwo(x) THEN AfterPass(g, expr_eliminate_dups1(x)) ELSE x

\* What is left of x: no more operands, worth the same.
LeftOf(x) == {y \in NF : Size(y) <= Size(x) /\ Same(x, y)}

\* A pass keeps the value and leaves no more operands, and fewer when it
\* changed something.
LEMMA PassedIs ==
    ASSUME NEW x \in NF, IsTwo(x)
    PROVE  LET pass == expr_eliminate_dups1(x)
           IN  /\ pass.tree \in LeftOf(x)
               /\ pass.changed => /\ expr_eliminate_yn(pass.tree) \in LeftOf(x)
                                  /\ Size(expr_eliminate_yn(pass.tree)) < Size(x)
<1> DEFINE s == FirstVisit(x)
           f == expr_eliminate_dups1(x)
           y == f.tree
           z == expr_eliminate_yn(y)
<1>1. s.tree = x /\ s.changed = FALSE BY DEF FirstVisit
<1>2. Simplifies(s, f) BY PassIs
<1> HIDE DEF s, f
<1>3. f \in Passes(MaxOperands) BY <1>2 DEF Simplifies
<1>4. y \in NF /\ IsTwo(y) BY <1>3, VisitIs
<1>5. Size(y) <= Size(x) /\ Same(x, y) /\ (f.changed => IsReducible(y))
  BY <1>1, <1>2 DEF Simplifies
<1> HIDE DEF y
<1>6. z \in NF /\ Size(z) <= Size(y) /\ Same(z, y) /\ (IsReducible(y) => Size(z) < Size(y))
  BY <1>4, YnNormal
<1> HIDE DEF z
<1>7. Size(x) \in Nat /\ Size(y) \in Nat /\ Size(z) \in Nat BY <1>4, <1>6, NormalParts
<1>8. Same(x, z) BY <1>5, <1>6 DEF Same
<1>9. y \in LeftOf(x) BY <1>4, <1>5 DEF LeftOf
<1>10. Size(z) <= Size(x) BY <1>5, <1>6, <1>7
<1>11. z \in LeftOf(x) BY <1>6, <1>8, <1>10 DEF LeftOf
<1>12. f.changed => Size(z) < Size(x) BY <1>5, <1>6, <1>7
<1> QED BY <1>9, <1>11, <1>12 DEF y, z, f

\* What is left is right when it is right for all that have fewer operands,
\* and depends on those only.
LEMMA DupsBodyIs ==
    ASSUME NEW x \in NF, NEW g, \A y \in NF : Size(y) < Size(x) => g[y] \in LeftOf(y)
    PROVE  /\ DupsBody(g, x) \in LeftOf(x)
           /\ \A h : (\A y \in NF : Size(y) < Size(x) => g[y] = h[y]) => DupsBody(g, x) = DupsBody(h, x)
<1> DEFINE f == expr_eliminate_dups1(x)
           z == expr_eliminate_yn(f.tree)
<1>1. Size(x) \in Nat BY NormalParts
<1>2. CASE ~IsTwo(x)
  <2>1. x \in LeftOf(x) BY <1>1 DEF LeftOf, Same
  <2> QED BY <1>2, <2>1 DEF DupsBody
<1>3. CASE IsTwo(x)
  <2>1. f.tree \in LeftOf(x) /\ (f.changed => z \in LeftOf(x) /\ Size(z) < Size(x)) BY <1>3, PassedIs
  <2> HIDE DEF f
  <2>2. CASE ~f.changed BY <1>3, <2>1, <2>2 DEF DupsBody, AfterPass, f
  <2>3. CASE f.changed
    <3>1. z \in LeftOf(x) /\ Size(z) < Size(x) BY <2>1, <2>3
    <3>2. \A k : DupsBody(k, x) = k[z] BY <1>3, <2>3 DEF DupsBody, AfterPass, f
    <3> HIDE DEF z
    <3>3. z \in NF /\ Size(z) \in Nat /\ Same(x, z) BY <3>1, NormalParts DEF LeftOf
    <3>4. g[z] \in LeftOf(z) BY <3>1, <3>3
    <3>5. g[z] \in NF /\ Size(g[z]) \in Nat BY <3>4, NormalParts DEF LeftOf
    <3>6. Size(g[z]) <= Size(x) BY <1>1, <3>1, <3>3, <3>4, <3>5 DEF LeftOf
    <3>7. Same(x, g[z]) BY <3>3, <3>4 DEF LeftOf, Same
    <3>8. g[z] \in LeftOf(x) BY <3>5, <3>6, <3>7 DEF LeftOf
    <3> QED BY <3>1, <3>2, <3>3, <3>8
  <2> QED BY <2>2, <2>3
<1> QED BY <1>2, <1>3

\* Removing duplicates ends, adds no operand and keeps the value.
THEOREM DupsKeepTheValue ==
    ASSUME NEW e \in NF
    PROVE  expr_eliminate_dups(e) \in LeftOf(e)
<1> DEFINE mu == [x \in NF |-> Size(x)]
           Val == [x \in NF |-> LeftOf(x)]
           G == Choices(NF, Val)
           B == [g \in G |-> [x \in NF |-> DupsBody(g, x)]]
<1>1. \A x \in NF : mu[x] = Size(x) /\ mu[x] \in Nat /\ Val[x] = LeftOf(x) /\ Val[x] # {}
  <2> TAKE x \in NF
  <2>1. Size(x) \in Nat BY NormalParts
  <2>2. x \in LeftOf(x) BY <2>1 DEF LeftOf, Same
  <2> QED BY <2>1, <2>2
<1>2. \A g \in G, x \in NF : B[g][x] = DupsBody(g, x) OBVIOUS
<1> HIDE DEF mu, Val, B
<1>3. ASSUME NEW g \in G, NEW x \in NF, \A y \in NF : mu[y] < mu[x] => g[y] \in Val[y]
      PROVE  B[g][x] \in Val[x]
  <2>1. \A y \in NF : Size(y) < Size(x) => g[y] \in LeftOf(y) BY <1>1, <1>3
  <2>2. DupsBody(g, x) \in LeftOf(x) BY <2>1, DupsBodyIs
  <2> QED BY <1>1, <1>2, <2>2
<1>4. ASSUME NEW g \in G, NEW h \in G, NEW x \in NF,
             \A y \in NF : mu[y] < mu[x] => g[y] = h[y] /\ g[y] \in Val[y]
      PROVE  B[g][x] = B[h][x]
  <2>1. \A y \in NF : Size(y) < Size(x) => g[y] = h[y] /\ g[y] \in LeftOf(y) BY <1>1, <1>4
  <2>2. DupsBody(g, x) = DupsBody(h, x) BY <2>1, DupsBodyIs
  <2> QED BY <1>2, <2>2
<1>5. IsBody(NF, mu, Val, B) BY <1>1, <1>3, <1>4 DEF IsBody
<1>6. PICK f \in G : \A x \in NF : f[x] = B[f][x] /\ f[x] \in Val[x]
  <2>1. \E f \in Choices(NF, Val) : \A x \in NF : f[x] = B[f][x] /\ f[x] \in Val[x]
    BY <1>5, Recursion
  <2> QED BY <2>1
<1>7. f = [x \in NF |-> f[x]] BY DEF Choices
<1>8. \A x \in NF : f[x] = DupsBody(f, x)
  <2> HIDE DEF G
  <2> QED BY <1>2, <1>6
<1>9. \E g : g = [x \in NF |-> DupsBody(g, x)] BY <1>7, <1>8
<1> DEFINE simplified == CHOOSE g : g = [x \in NF |-> DupsBody(g, x)]
<1>10. expr_eliminate_dups(e) = IF e = NoExpr THEN e ELSE simplified[e]
  BY DEF expr_eliminate_dups, Eliminated, DupsBody, NF
<1>11. simplified = [x \in NF |-> DupsBody(simplified, x)] BY <1>9
<1> HIDE DEF simplified
<1>12. \A x \in NF : simplified[x] = DupsBody(simplified, x) BY <1>11
<1> DEFINE P == {x \in NF : simplified[x] \in LeftOf(x)}
<1>13. ASSUME NEW x \in NF, \A y \in NF : mu[y] < mu[x] => y \in P
       PROVE  x \in P
  <2>1. \A y \in NF : Size(y) < Size(x) => simplified[y] \in LeftOf(y) BY <1>1, <1>13
  <2>2. DupsBody(simplified, x) \in LeftOf(x) BY <2>1, DupsBodyIs
  <2> QED BY <1>12, <2>2
<1> HIDE DEF P
<1>14. NF \subseteq P BY <1>1, <1>13, MeasureInduction
<1>15. e # NoExpr BY NormalParts
<1> QED BY <1>10, <1>14, <1>15 DEF P

-----------------------------------------------------------------------------
(* Negations pushed to the leaves.                                         *)

\* No deeper than x.
Below(y, x) == \A n \in Nat : x \in Nested[n] => y \in Nested[n]

\* What x may become: a normal form of as many operands, worth the same.
Normalized(x) ==
    {r \in Expr : /\ r = NoExpr <=> x = NoExpr
                  /\ Below(r, x) /\ IsNormal(r) /\ Size(r) = Size(x) /\ Same(r, x)}

\* An operand is an expression, however deep others nest.
LEMMA LeafAnywhere ==
    ASSUME NEW y \in Leaf
    PROVE  /\ y \in Expr /\ y # NoExpr /\ IsNormal(y) /\ Size(y) = 1
           /\ \A n \in Nat : y \in Nested[n]
<1>1. y \in NF /\ Size(y) = 1 /\ y \in Nested[0] BY LeafIs
<1>2. y \in Expr /\ y # NoExpr BY <1>1, NormalParts
<1>3. IsNormal(y) BY <1>1 DEF NF, NormalForms
<1>4. \A n \in Nat : y \in Nested[n] BY <1>1, NestedMonotone
<1> QED BY <1>1, <1>2, <1>3, <1>4

\* A comparison becomes an operand.
LEMMA CompareNormalized ==
    ASSUME NEW x \in Expr, x.type \in Compares
    PROVE  TransformCompare(x) \in Normalized(x)
<1> DEFINE f == TransformCompare(x)
<1>0. x \in Atom /\ x # NoExpr BY PartsOf DEF NoExpr, Compares, IsTwo
<1>1. x \in Comparing /\ x.sym \in KnownSyms BY <1>0 DEF Atom, Symbols, Comparings, Comparing, KnownSyms, TriSyms, Compares
<1>2. f \in Leaf
  <2>1. x \in Leaf BY <1>0 DEF Leaf
  <2>2. SymbolExpr("n") \in Leaf /\ SymbolExpr("y") \in Leaf BY ConstantIs
  <2>3. SymbolExpr(x.sym) \in Symbols BY <1>1 DEF Symbols, SymbolExpr
  <2>4. SymbolExpr(x.sym) \in Leaf /\ Not(SymbolExpr(x.sym)) \in Leaf BY <2>3 DEF Leaf, Atom
  <2>5. f \in {x, SymbolExpr("n"), SymbolExpr("y"), SymbolExpr(x.sym), Not(SymbolExpr(x.sym))}
    BY DEF TransformCompare
  <2> QED BY <2>1, <2>2, <2>4, <2>5
<1> HIDE DEF f
<1>3. ASSUME NEW val, IsCalculation(val) PROVE expr_calc_value(f, val) = expr_calc_value(x, val)
  <2>1. expr_calc_value(x, val) = LeafValue(x, val) BY <1>0, <1>3, CalculationAssigns, Value
  <2>2. expr_calc_value(f, val) = OperandValue(f, val) BY <1>2, <1>3, LeafOperand
  <2>3. OperandValue(f, val) = LeafValue(x, val) BY <1>1, <1>3, BooleanKeepsTheValue DEF f
  <2> QED BY <2>1, <2>2, <2>3
<1>4. Size(x) = 1 BY <1>0, SizeIs
<1>5. f \in Normalized(x) BY <1>0, <1>2, <1>3, <1>4, LeafAnywhere DEF Normalized, Same, Below
<1> QED BY <1>5 DEF f

\* Both parts normalized.
LEMMA TwoNormalized ==
    ASSUME NEW x \in Expr, IsTwo(x), NEW l \in Normalized(x.left), NEW r \in Normalized(x.right)
    PROVE  Two(x.type, l, r) \in Normalized(x)
<1> DEFINE y == Two(x.type, l, r)
<1>1. /\ x.type \in {"AND", "OR"} /\ x.left \in Expr /\ x.left # NoExpr /\ x.right \in Expr /\ x.right # NoExpr
      /\ x # NoExpr
  BY PartsOf DEF IsTwo, NoExpr
<1>2. /\ l \in Expr /\ l # NoExpr /\ Below(l, x.left) /\ IsNormal(l) /\ Size(l) = Size(x.left) /\ Same(l, x.left)
      /\ r \in Expr /\ r # NoExpr /\ Below(r, x.right) /\ IsNormal(r) /\ Size(r) = Size(x.right) /\ Same(r, x.right)
  BY <1>1 DEF Normalized
<1>3. Below(y, x)
  <2> SUFFICES ASSUME NEW n \in Nat, x \in Nested[n] PROVE y \in Nested[n] BY DEF Below
  <2>1. n # 0 /\ x.left \in Nested[n - 1] /\ x.right \in Nested[n - 1] BY Parts
  <2>2. n - 1 \in Nat /\ (n - 1) + 1 = n BY <2>1
  <2>3. l \in Nested[n - 1] /\ r \in Nested[n - 1] BY <1>2, <2>1, <2>2 DEF Below
  <2> QED BY <1>1, <2>2, <2>3, Built
<1>4. y \in Expr /\ y # NoExpr
  <2>1. x \in Nested[Top] BY <1>1, TopNat
  <2>2. y \in Nested[Top] BY <1>3, <2>1, TopNat DEF Below
  <2> QED BY <2>2, TopNat, Parts
<1>5. y.type = x.type /\ y.left = l /\ y.right = r /\ IsTwo(y) BY DEF Two, IsTwo
<1> HIDE DEF y
<1>6. IsNormal(y) BY <1>2, <1>4, <1>5, NormalIs
<1>7. Size(y) = Size(x) BY <1>2, <1>4, <1>5, SizeIs
<1>8. Same(y, x) BY <1>1, <1>2, <1>4, <1>5, ValueTwo DEF Same
<1>9. y \in Normalized(x) BY <1>1, <1>3, <1>4, <1>6, <1>7, <1>8 DEF Normalized
<1> QED BY <1>9 DEF y

\* Of two expressions one is worth the opposite of the other.
Opposite(y, x) ==
    \A val : IsCalculation(val) => expr_calc_value(y, val) = TriNot(expr_calc_value(x, val))

\* A negation is higher than whatever nests as deep and is none.
LEMMA NegationIsHigher ==
    ASSUME NEW x \in Expr, x.type = "NOT", NEW y \in Expr, y.type # "NOT", y # NoExpr, Below(y, x)
    PROVE  Height(y) < Height(x)
<1>1. x # NoExpr BY DEF NoExpr
<1>2. x \in Nested[Top] /\ Top \in Nat BY <1>1, TopNat
<1>3. PICK d \in Nat : IsDepth(x, d) /\ Height(x) = 2 * d + (IF x.type = "NOT" THEN 1 ELSE 0)
  BY <1>2, DepthExists
<1>4. y \in Nested[d] BY <1>3 DEF IsDepth, Below
<1>5. PICK e \in Nat : IsDepth(y, e) /\ Height(y) = 2 * e + (IF y.type = "NOT" THEN 1 ELSE 0)
  BY <1>4, DepthExists
<1>6. e <= d BY <1>4, <1>5 DEF IsDepth
<1>7. Height(x) = 2 * d + 1 /\ Height(y) = 2 * e BY <1>3, <1>5
<1> QED BY <1>6, <1>7

\* De Morgan.
LEMMA OppositeTwo ==
    ASSUME NEW x \in Expr, x.type = "NOT", NEW f \in Normalized(x.left), IsTwo(f),
           NEW t \in {"AND", "OR"}, t # f.type
    PROVE  LET y == Two(t, Not(f.left), Not(f.right))
           IN  /\ y \in Expr /\ y # NoExpr /\ y.type # "NOT" /\ Below(y, x) /\ Size(y) = Size(x)
               /\ Same(y, x)
<1> DEFINE y == Two(t, Not(f.left), Not(f.right))
           nl == Not(f.left)
           nr == Not(f.right)
<1>1. x # NoExpr /\ x.left \in Expr /\ x.left # NoExpr BY PartsOf DEF NoExpr
<1>2. f \in Expr /\ f # NoExpr /\ Below(f, x.left) /\ Size(f) = Size(x.left) /\ Same(f, x.left)
  BY <1>1 DEF Normalized
<1>3. f.left \in Expr /\ f.right \in Expr BY <1>2, PartsOf
<1>4. Below(y, x)
  <2> SUFFICES ASSUME NEW n \in Nat, x \in Nested[n] PROVE y \in Nested[n] BY DEF Below
  <2>1. x.left \in Symbols \/ (n # 0 /\ x.left \in Nested[n - 1]) BY Parts
  <2>2. x.left \notin Symbols
    <3> SUFFICES ASSUME x.left \in Symbols PROVE FALSE OBVIOUS
    <3>1. x.left \in Nested[0] BY Built DEF Atom
    <3>2. f \in Nested[0] BY <1>2, <3>1 DEF Below
    <3> QED BY <3>2, Parts
  <2>3. n - 1 \in Nat /\ (n - 1) + 1 = n BY <2>1, <2>2
  <2>4. f \in Nested[n - 1] BY <1>2, <2>1, <2>2, <2>3 DEF Below
  <2>5. n - 1 # 0 /\ f.left \in Nested[(n - 1) - 1] /\ f.right \in Nested[(n - 1) - 1]
    BY <2>3, <2>4, Parts
  <2>6. (n - 1) - 1 \in Nat /\ ((n - 1) - 1) + 1 = n - 1 BY <2>3, <2>5
  <2>7. nl \in Nested[n - 1] /\ nr \in Nested[n - 1] BY <2>5, <2>6, Built
  <2> HIDE DEF nl, nr
  <2>8. Two(t, nl, nr) \in Nested[n] BY <2>3, <2>7, Built
  <2> QED BY <2>8 DEF nl, nr
<1>5. y \in Expr /\ y # NoExpr
  <2>1. x \in Nested[Top] BY <1>1, TopNat
  <2>2. y \in Nested[Top] BY <1>4, <2>1, TopNat DEF Below
  <2> QED BY <2>2, TopNat, Parts
<1>6. /\ y.type = t /\ y.left = nl /\ y.right = nr
      /\ nl.type = "NOT" /\ nl.left = f.left /\ nr.type = "NOT" /\ nr.left = f.right
  BY DEF Two, Not
<1> HIDE DEF y, nl, nr
<1>7. IsTwo(y) /\ y.type # "NOT" /\ nl \in Expr /\ nr \in Expr
  <2>1. IsTwo(y) /\ y.type # "NOT" BY <1>6 DEF IsTwo
  <2> QED BY <1>5, <1>6, <2>1, PartsOf
<1>8. Size(y) = Size(x)
  <2>1. Size(y) = Size(nl) + Size(nr) BY <1>5, <1>6, <1>7, SizeIs
  <2>2. Size(nl) = Size(f.left) /\ Size(nr) = Size(f.right) BY <1>6, <1>7, SizeIs
  <2>3. Size(f) = Size(f.left) + Size(f.right) BY <1>2, SizeIs
  <2>4. Size(x) = Size(x.left) BY SizeIs
  <2> QED BY <1>2, <2>1, <2>2, <2>3, <2>4
<1>9. ASSUME NEW val, IsCalculation(val) PROVE expr_calc_value(y, val) = expr_calc_value(x, val)
  <2> DEFINE V(e) == expr_calc_value(e, val)
             a == V(f.left)
             b == V(f.right)
  <2>1. V(f) = Op(f.type, a, b) /\ a \in 0..2 /\ b \in 0..2 BY <1>2, <1>3, <1>9, ValueTwo
  <2>2. IsAssignment(val) BY <1>9, CalculationAssigns
  <2>3. V(nl) = TriNot(a) /\ V(nr) = TriNot(b) BY <1>6, <1>7, <2>2, Value
  <2>4. V(y) = Op(t, V(nl), V(nr)) BY <1>5, <1>6, <1>7, <1>9, ValueTwo
  <2>5. V(x) = TriNot(V(x.left)) BY <2>2, Value
  <2>6. V(f) = V(x.left) BY <1>2, <1>9 DEF Same
  <2> HIDE DEF V, a, b
  <2>7. Op(t, TriNot(a), TriNot(b)) = TriNot(Op(f.type, a, b))
    <3>1. f.type \in {"AND", "OR"} BY DEF IsTwo
    <3> QED BY <2>1, <3>1 DEF Op, TriNot, TriMin, TriMax
  <2>8. V(y) = V(x) BY <2>1, <2>3, <2>4, <2>5, <2>6, <2>7
  <2> QED BY <2>8 DEF V
<1>10. Same(y, x) BY <1>9 DEF Same
<1> QED BY <1>4, <1>5, <1>7, <1>8, <1>10 DEF y, nl, nr

\* An operand that is worth the opposite of what is negated.
LEMMA LeafNormalized ==
    ASSUME NEW x \in Expr, x.type = "NOT", NEW f \in Normalized(x.left), NEW y \in Leaf,
           Size(f) = 1, Opposite(y, f)
    PROVE  y \in Normalized(x)
<1>1. x # NoExpr /\ x.left \in Expr /\ x.left # NoExpr BY PartsOf DEF NoExpr
<1>2. Size(f) = Size(x.left) /\ Same(f, x.left) BY <1>1 DEF Normalized
<1>3. Size(x) = 1 BY <1>2, SizeIs
<1>4. ASSUME NEW val, IsCalculation(val) PROVE expr_calc_value(y, val) = expr_calc_value(x, val)
  <2>1. expr_calc_value(x, val) = TriNot(expr_calc_value(x.left, val)) BY <1>4, CalculationAssigns, Value
  <2>2. expr_calc_value(f, val) = expr_calc_value(x.left, val) BY <1>2, <1>4 DEF Same
  <2>3. expr_calc_value(y, val) = TriNot(expr_calc_value(f, val)) BY <1>4 DEF Opposite
  <2> QED BY <2>1, <2>2, <2>3
<1> QED BY <1>1, <1>3, <1>4, LeafAnywhere DEF Normalized, Same, Below

\* What a normal form of z is, it is of x when z may stand for x.
LEMMA NormalizedOther ==
    ASSUME NEW x \in Expr, x # NoExpr, NEW z \in Expr, z # NoExpr,
           Below(z, x), Size(z) = Size(x), Same(z, x), NEW y \in Normalized(z)
    PROVE  y \in Normalized(x)
<1>1. /\ y \in Expr /\ y # NoExpr /\ Below(y, z) /\ IsNormal(y) /\ Size(y) = Size(z) /\ Same(y, z)
  BY DEF Normalized
<1>2. Below(y, x) BY <1>1 DEF Below
<1>3. Same(y, x) BY <1>1 DEF Same
<1> QED BY <1>1, <1>2, <1>3 DEF Normalized

\* g is right for whatever is less high than x.
RightBelow(g, x) == \A y \in Expr : Height(y) < Height(x) => g[y] \in Normalized(y)
SameBelow(g, h, x) == \A y \in Expr : Height(y) < Height(x) => g[y] = h[y]

\* A negation of a negation, of a comparison, of two and of a symbol.
LEMMA TransformNotIs ==
    ASSUME NEW x \in Expr, x.type = "NOT", NEW f \in Normalized(x.left), NEW g, RightBelow(g, x)
    PROVE  /\ TransformNot(g, f) \in Normalized(x)
           /\ \A h : SameBelow(g, h, x) => TransformNot(g, f) = TransformNot(h, f)
<1>1. x # NoExpr /\ x.left \in Expr /\ x.left # NoExpr BY PartsOf DEF NoExpr
<1>2. /\ f \in Expr /\ f # NoExpr /\ Below(f, x.left) /\ IsNormal(f)
      /\ Size(f) = Size(x.left) /\ Same(f, x.left)
  BY <1>1 DEF Normalized
<1>3. Size(x) = Size(f) BY <1>2, SizeIs
<1>4. ASSUME NEW z \in Expr, z # NoExpr, z.type # "NOT", Below(z, x), Size(z) = Size(x), Same(z, x),
             \A k : TransformNot(k, f) = k[z]
      PROVE  /\ TransformNot(g, f) \in Normalized(x)
             /\ \A h : SameBelow(g, h, x) => TransformNot(g, f) = TransformNot(h, f)
  <2>1. Height(z) < Height(x) BY <1>4, NegationIsHigher
  <2>2. g[z] \in Normalized(z) BY <2>1 DEF RightBelow
  <2>3. g[z] \in Normalized(x) BY <1>1, <1>4, <2>2, NormalizedOther
  <2>4. \A h : SameBelow(g, h, x) => g[z] = h[z] BY <2>1 DEF SameBelow
  <2> QED BY <1>4, <2>3, <2>4
<1>5. ASSUME NEW y \in Leaf, Size(f) = 1, Opposite(y, f), \A k : TransformNot(k, f) = y
      PROVE  /\ TransformNot(g, f) \in Normalized(x)
             /\ \A h : SameBelow(g, h, x) => TransformNot(g, f) = TransformNot(h, f)
  <2>1. y \in Normalized(x) BY <1>5, LeafNormalized
  <2> QED BY <1>5, <2>1
<1>6. CASE f.type = "NOT"
  <2> DEFINE z == f.left
  <2>1. z.type = "SYMBOL" /\ z \in Expr BY <1>2, <1>6, NormalIs, PartsOf
  <2>2. z \in Atom BY <2>1, PartsOf DEF NoExpr, IsTwo
  <2>3. z \in Leaf BY <2>2 DEF Leaf
  <2>4. z # NoExpr /\ Below(z, x) /\ Size(z) = 1 BY <2>3, LeafAnywhere DEF Below
  <2>5. Size(z) = Size(x) BY <1>2, <1>3, <1>6, SizeIs
  <2>6. ASSUME NEW val, IsCalculation(val) PROVE expr_calc_value(z, val) = expr_calc_value(x, val)
    <3>1. IsAssignment(val) BY <2>6, CalculationAssigns
    <3>2. expr_calc_value(x, val) = TriNot(expr_calc_value(x.left, val)) BY <3>1, Value
    <3>3. expr_calc_value(f, val) = TriNot(expr_calc_value(f.left, val)) BY <1>2, <1>6, <3>1, Value
    <3>4. expr_calc_value(f, val) = expr_calc_value(x.left, val) BY <1>2, <2>6 DEF Same
    <3>5. expr_calc_value(z, val) \in 0..2 BY <2>1, <3>1, Value
    <3> QED BY <3>2, <3>3, <3>4, <3>5 DEF TriNot
  <2>7. Same(z, x) BY <2>6 DEF Same
  <2>8. \A k : TransformNot(k, f) = k[z] BY <1>6 DEF TransformNot, Compares
  <2> HIDE DEF z
  <2>9. z.type # "NOT" BY <2>1
  <2> QED BY <1>4, <2>1, <2>4, <2>5, <2>7, <2>8, <2>9
<1>7. CASE f.type \in {"AND", "OR"}
  <2> DEFINE t == IF f.type = "OR" THEN "AND" ELSE "OR"
             z == Two(t, Not(f.left), Not(f.right))
  <2>1. IsTwo(f) /\ t \in {"AND", "OR"} /\ t # f.type BY <1>7 DEF IsTwo
  <2>2. \A k : TransformNot(k, f) = k[z] BY <1>7 DEF TransformNot, Compares
  <2> HIDE DEF t
  <2>3. /\ z \in Expr /\ z # NoExpr /\ z.type # "NOT" /\ Below(z, x) /\ Size(z) = Size(x)
        /\ Same(z, x)
    BY <2>1, OppositeTwo
  <2> HIDE DEF z
  <2> QED BY <1>4, <2>2, <2>3
<1>8. CASE f \in Atom /\ f.type \in Compares
  <2> DEFINE y == Comp(Negated(f.type), f.sym, f.sym2)
  <2>1. f \in Comparing /\ SymType[f.sym] # "OTHER" /\ SymType[f.sym2] # "OTHER" /\ f \in Comparings
    BY <1>8 DEF Atom, Symbols, Comparings, Comparing, KnownSyms, TriSyms, Compares
  <2>2. y \in Comparings
    BY <2>1, <1>8 DEF Comparings, Comp, Negated, Compares
  <2>3. y \in Atom /\ y \in Leaf BY <2>2 DEF Atom, Leaf
  <2>4. Size(f) = 1 BY <1>2, <1>8, SizeIs
  <2>5. ASSUME NEW val, IsCalculation(val) PROVE expr_calc_value(y, val) = TriNot(expr_calc_value(f, val))
    <3>1. IsAssignment(val) BY <2>5, CalculationAssigns
    <3>2. y \in Expr BY <2>3, LeafAnywhere
    <3>3. LeafValue(y, val) = TriNot(LeafValue(f, val)) BY <2>1, <2>5, NegationKeepsTheValue
    <3> HIDE DEF y
    <3> QED BY <1>2, <1>8, <2>3, <3>1, <3>2, <3>3, Value
  <2>6. Opposite(y, f) BY <2>5 DEF Opposite
  <2>7. \A k : TransformNot(k, f) = y BY <1>8 DEF TransformNot, Compares
  <2> HIDE DEF y
  <2> QED BY <1>5, <2>3, <2>4, <2>6, <2>7
<1>9. CASE f \in Atom /\ f.type = "SYMBOL" /\ f.sym \in {"y", "m", "n"}
  <2> DEFINE c == f.sym
             y == SymbolExpr(NegatedConst(c))
  <2>1. NegatedConst(c) \in {"y", "m", "n"} BY <1>9 DEF NegatedConst
  <2>2. y \in Leaf /\ y \in Expr BY <2>1, ConstantIs
  <2>3. Size(f) = 1 BY <1>2, <1>9, SizeIs
  <2>4. \A k : TransformNot(k, f) = y BY <1>9 DEF TransformNot, Compares
  <2>5. y \in Atom /\ y.type = "SYMBOL" /\ y.sym = NegatedConst(c)
    <3>1. y.type = "SYMBOL" /\ y.sym = NegatedConst(c) BY DEF SymbolExpr
    <3>2. y \in Atom BY <2>2, <3>1, LeafIs
    <3> QED BY <3>1, <3>2
  <2>6. ASSUME NEW val, IsCalculation(val) PROVE expr_calc_value(y, val) = TriNot(expr_calc_value(f, val))
    <3>1. IsAssignment(val) BY <2>6, CalculationAssigns
    <3>2. val[NegatedConst(c)].tri = TriNot(val[c].tri) BY <1>9, <2>6, NegationKeepsTheValue
    <3> HIDE DEF y
    <3>3. expr_calc_value(y, val) = LeafValue(y, val) /\ expr_calc_value(f, val) = LeafValue(f, val)
      BY <1>2, <1>9, <2>2, <2>5, <3>1, Value
    <3>4. LeafValue(y, val) = val[NegatedConst(c)].tri /\ LeafValue(f, val) = val[c].tri
      BY <1>9, <2>5 DEF LeafValue
    <3> QED BY <3>2, <3>3, <3>4
  <2>7. Opposite(y, f) BY <2>6 DEF Opposite
  <2> HIDE DEF y
  <2> QED BY <1>5, <2>2, <2>3, <2>4, <2>7
<1>10. CASE f \in Atom /\ f.type = "SYMBOL" /\ f.sym \notin {"y", "m", "n"}
  <2> DEFINE y == Not(f)
  <2>1. f \in Symbols BY <1>10 DEF Atom, Comparings, Compares
  <2>2. y \in Leaf BY <2>1 DEF Leaf
  <2>3. Size(f) = 1 BY <1>2, <1>10, SizeIs
  <2>4. \A k : TransformNot(k, f) = y BY <1>10 DEF TransformNot, Compares
  <2>5. y.type = "NOT" /\ y.left = f /\ y \in Expr BY <2>2, LeafAnywhere DEF Not
  <2> HIDE DEF y
  <2>6. Opposite(y, f) BY <2>5, CalculationAssigns, Value DEF Opposite
  <2> QED BY <1>5, <2>2, <2>3, <2>4, <2>6
<1> QED BY <1>2, <1>6, <1>7, <1>8, <1>9, <1>10, PartsOf DEF IsTwo

TransBody(g, x) ==
    CASE IsTwo(x) -> Two(x.type, g[x.left], g[x.right])
      [] x.type = "NOT" -> TransformNot(g, g[x.left])
      [] x.type \in Compares -> TransformCompare(x)
      [] OTHER -> x

\* The transformation of an expression is right when it is right below it,
\* and depends on what is below only.
LEMMA TransBodyIs ==
    ASSUME NEW x \in Expr, NEW g, RightBelow(g, x)
    PROVE  /\ TransBody(g, x) \in Normalized(x)
           /\ \A h : SameBelow(g, h, x) => TransBody(g, x) = TransBody(h, x)
<1>1. CASE x.type \in Compares
  <2>1. \A k : TransBody(k, x) = TransformCompare(x) BY <1>1 DEF TransBody, Compares, IsTwo
  <2> QED BY <1>1, <2>1, CompareNormalized
<1>2. CASE IsTwo(x)
  <2>1. \A k : TransBody(k, x) = Two(x.type, k[x.left], k[x.right])
    BY <1>2 DEF TransBody, Compares, IsTwo
  <2>2. /\ x.left \in Expr /\ Height(x.left) < Height(x)
        /\ x.right \in Expr /\ Height(x.right) < Height(x)
    BY <1>2, PartsOf
  <2>3. g[x.left] \in Normalized(x.left) /\ g[x.right] \in Normalized(x.right) BY <2>2 DEF RightBelow
  <2>4. \A h : SameBelow(g, h, x) => g[x.left] = h[x.left] /\ g[x.right] = h[x.right]
    BY <2>2 DEF SameBelow
  <2> QED BY <1>2, <2>1, <2>3, <2>4, TwoNormalized
<1>3. CASE x.type = "NOT"
  <2>1. \A k : TransBody(k, x) = TransformNot(k, k[x.left])
    BY <1>3 DEF TransBody, Compares, IsTwo
  <2>2. x.left \in Expr /\ Height(x.left) < Height(x) BY <1>3, PartsOf
  <2>3. g[x.left] \in Normalized(x.left) BY <2>2 DEF RightBelow
  <2>4. \A h : SameBelow(g, h, x) => g[x.left] = h[x.left] BY <2>2 DEF SameBelow
  <2>5. /\ TransformNot(g, g[x.left]) \in Normalized(x)
        /\ \A h : SameBelow(g, h, x) => TransformNot(g, g[x.left]) = TransformNot(h, g[x.left])
    BY <1>3, <2>3, TransformNotIs
  <2> QED BY <2>1, <2>4, <2>5
<1>4. CASE x = NoExpr \/ (x \in Atom /\ x.type = "SYMBOL")
  <2>0. x.type \in {"NONE", "SYMBOL"} BY <1>4 DEF NoExpr
  <2>1. \A k : TransBody(k, x) = x BY <2>0 DEF TransBody, Compares, IsTwo
  <2>2. IsNormal(x) BY <1>4, NormalIs
  <2>3. x \in Normalized(x) BY <2>2 DEF Normalized, Below, Same
  <2> QED BY <2>1, <2>3
<1> QED BY <1>1, <1>2, <1>3, <1>4, PartsOf

\* Every expression has a normal form.
LEMMA HasNormalized == \A x \in Expr : Normalized(x) # {}
<1> DEFINE mu == [x \in Expr |-> Height(x)]
           P == {x \in Expr : Normalized(x) # {}}
           g == [x \in Expr |-> CHOOSE r : r \in Normalized(x)]
<1>1. \A x \in Expr : mu[x] = Height(x) /\ mu[x] \in Nat BY HeightNat
<1>2. \A x \in P : g[x] \in Normalized(x) OBVIOUS
<1> HIDE DEF mu, g
<1>3. ASSUME NEW x \in Expr, \A y \in Expr : mu[y] < mu[x] => y \in P
      PROVE  x \in P
  <2>1. RightBelow(g, x) BY <1>1, <1>2, <1>3 DEF RightBelow
  <2>2. TransBody(g, x) \in Normalized(x) BY <2>1, TransBodyIs
  <2> QED BY <2>2
<1> HIDE DEF P
<1>4. Expr \subseteq P BY <1>1, <1>3, MeasureInduction
<1> QED BY <1>4 DEF P

\* Pushing the negations to the leaves and removing the comparisons of bools
\* ends in a normal form of as many operands that is worth the same.
THEOREM TransformNormalizes ==
    ASSUME NEW e \in Expr
    PROVE  expr_transform(e) \in Normalized(e)
<1> DEFINE mu == [x \in Expr |-> Height(x)]
           Val == [x \in Expr |-> Normalized(x)]
           G == Choices(Expr, Val)
           B == [g \in G |-> [x \in Expr |-> TransBody(g, x)]]
<1>1. \A x \in Expr : mu[x] = Height(x) /\ mu[x] \in Nat /\ Val[x] = Normalized(x) /\ Val[x] # {}
  BY HeightNat, HasNormalized
<1>2. \A g \in G, x \in Expr : B[g][x] = TransBody(g, x) OBVIOUS
<1> HIDE DEF mu, Val, B
<1>3. ASSUME NEW g \in G, NEW x \in Expr, \A y \in Expr : mu[y] < mu[x] => g[y] \in Val[y]
      PROVE  B[g][x] \in Val[x]
  <2>1. RightBelow(g, x) BY <1>1, <1>3 DEF RightBelow
  <2>2. TransBody(g, x) \in Normalized(x) BY <2>1, TransBodyIs
  <2> QED BY <1>1, <1>2, <2>2
<1>4. ASSUME NEW g \in G, NEW h \in G, NEW x \in Expr,
             \A y \in Expr : mu[y] < mu[x] => g[y] = h[y] /\ g[y] \in Val[y]
      PROVE  B[g][x] = B[h][x]
  <2>1. RightBelow(g, x) BY <1>1, <1>4 DEF RightBelow
  <2>2. SameBelow(g, h, x) BY <1>1, <1>4 DEF SameBelow
  <2>3. TransBody(g, x) = TransBody(h, x) BY <2>1, <2>2, TransBodyIs
  <2> QED BY <1>2, <2>3
<1>5. IsBody(Expr, mu, Val, B) BY <1>1, <1>3, <1>4 DEF IsBody
<1>6. PICK d \in G : \A x \in Expr : d[x] = B[d][x] /\ d[x] \in Val[x]
  <2>1. \E f \in Choices(Expr, Val) : \A x \in Expr : f[x] = B[f][x] /\ f[x] \in Val[x]
    BY <1>5, Recursion
  <2> QED BY <2>1
<1>7. d = [x \in Expr |-> d[x]] BY DEF Choices
<1>8. \A x \in Expr : d[x] = TransBody(d, x)
  <2> HIDE DEF G
  <2> QED BY <1>2, <1>6
<1>9. \E g : g = [x \in Expr |-> TransBody(g, x)] BY <1>7, <1>8
<1> DEFINE transform == CHOOSE g : g = [x \in Expr |-> TransBody(g, x)]
<1>10. \A y : expr_transform(y) = transform[y]
  BY DEF expr_transform, TransBody
<1>11. transform = [x \in Expr |-> TransBody(transform, x)] BY <1>9
<1> HIDE DEF transform
<1>12. \A x \in Expr : transform[x] = TransBody(transform, x) BY <1>11
<1> DEFINE P == {x \in Expr : transform[x] \in Normalized(x)}
<1>13. ASSUME NEW x \in Expr, \A y \in Expr : mu[y] < mu[x] => y \in P
       PROVE  x \in P
  <2>1. RightBelow(transform, x) BY <1>1, <1>13 DEF RightBelow
  <2>2. TransBody(transform, x) \in Normalized(x) BY <2>1, TransBodyIs
  <2> QED BY <1>12, <2>2
<1> HIDE DEF P
<1>14. Expr \subseteq P BY <1>1, <1>13, MeasureInduction
<1> QED BY <1>10, <1>14 DEF P

-----------------------------------------------------------------------------
(* m rewritten.                                                            *)

\* The parts are rewritten first.
LEMMA RewriteIs ==
    ASSUME NEW x \in Expr, NEW s \in KnownSyms
    PROVE  rewrite_m(x, s) =
             CASE IsTwo(x) -> Two(x.type, rewrite_m(x.left, s), rewrite_m(x.right, s))
               [] x.type = "NOT" -> Not(rewrite_m(x.left, s))
               [] IsConst(x, "m") -> AndOf(x, SymbolExpr(s))
               [] OTHER -> x
<1> DEFINE body(g, y) == CASE IsTwo(y) -> Two(y.type, g[y.left], g[y.right])
                           [] y.type = "NOT" -> Not(g[y.left])
                           [] IsConst(y, "m") -> AndOf(y, SymbolExpr(s))
                           [] OTHER -> y
           leaf == [y \in Expr |-> IF IsConst(y, "m") THEN AndOf(y, SymbolExpr(s)) ELSE y]
           neg == [t \in Expr \X AnyTree |-> Not(t[2])]
           two == [t \in Expr \X AnyTree \X AnyTree |-> Two(t[1].type, t[2], t[3])]
           rewritten == CHOOSE g : g = [y \in Expr |-> body(g, y)]
<1>1. PICK f : IsMade(f, leaf, neg, two)
  <2>1. \A y \in Expr : y = NoExpr \/ y \in Atom => leaf[y] \in Trees[y]
    <3> TAKE y \in Expr
    <3>1. CASE IsConst(y, "m")
      <4>1. y \in AnyTree /\ y # NoExpr BY <3>1, AnyTwo DEF NoExpr, IsConst
      <4>2. SymbolExpr(s) \in AnyTree /\ SymbolExpr(s) # NoExpr
        BY AnyTwo DEF Leaf, Atom, Symbols, SymbolExpr, NoExpr
      <4>3. leaf[y] = Two("AND", y, SymbolExpr(s)) BY <3>1, <4>1, <4>2 DEF AndOf, Join
      <4>4. leaf[y] \in AnyTree BY <4>1, <4>2, <4>3, AnyTwo
      <4> QED BY <4>1, <4>4 DEF Trees
    <3>2. CASE ~IsConst(y, "m") BY <3>2, AnyTwo DEF Trees
    <3> QED BY <3>1, <3>2
  <2>2. \A y \in Expr, r \in AnyTree : y.type = "NOT" => neg[<<y, r>>] \in AnyTree BY AnyTwo
  <2>3. \A y \in Expr, r \in AnyTree, q \in AnyTree : IsTwo(y) => two[<<y, r, q>>] \in AnyTree
    BY AnyTwo DEF IsTwo
  <2> HIDE DEF leaf, neg, two
  <2>4. MakesTrees(leaf, neg, two) BY <2>1, <2>2, <2>3 DEF MakesTrees
  <2> QED BY <2>4, TreeRecursion
<1>2. ASSUME NEW y \in Expr PROVE f[y] = body(f, y)
  <2>1. CASE IsTwo(y)
    <3>1. f[y.left] \in AnyTree /\ f[y.right] \in AnyTree /\ f[y] = two[<<y, f[y.left], f[y.right]>>]
      BY <1>1, <2>1 DEF IsMade
    <3>2. f[y] = Two(y.type, f[y.left], f[y.right]) BY <3>1
    <3> QED BY <2>1, <3>2 DEF IsTwo, IsConst
  <2>2. CASE y.type = "NOT"
    <3>1. f[y.left] \in AnyTree /\ f[y] = neg[<<y, f[y.left]>>] BY <1>1, <2>2 DEF IsMade
    <3>2. f[y] = Not(f[y.left]) BY <3>1
    <3>3. ~IsTwo(y) BY <2>2 DEF IsTwo
    <3> QED BY <2>2, <3>2, <3>3 DEF IsConst
  <2>3. CASE ~IsTwo(y) /\ y.type # "NOT"
    <3>1. f[y] = leaf[y] BY <1>1, <2>3 DEF IsMade
    <3> QED BY <2>3, <3>1
  <2> QED BY <2>1, <2>2, <2>3
<1> HIDE DEF body
<1>3. f = [y \in Expr |-> body(f, y)] BY <1>1, <1>2 DEF IsMade
<1>4. \E g : g = [y \in Expr |-> body(g, y)] BY <1>3
<1>5. \A y \in Expr : rewritten[y] = body(rewritten, y) BY <1>4
<1>6. \A y : rewrite_m(y, s) = rewritten[y] BY DEF rewrite_m, rewritten, body
<1> HIDE DEF rewritten
<1>7. rewrite_m(x, s) = body(rewritten, x) BY <1>5, <1>6
<1> QED BY <1>6, <1>7 DEF body

\* Without modules m is n.
LEMMA WithoutModules ==
    ASSUME NEW a, IsCalculation(a), NEW s \in KnownSyms
    PROVE  LET b == [a EXCEPT !["m"].tri = TriMin(@, a[s].tri)]
           IN  /\ IsAssignment(b)
               /\ \A r \in KnownSyms : /\ b[r].str = a[r].str
                                       /\ r # "m" => b[r].tri = a[r].tri
               /\ b["m"].tri = TriMin(1, a[s].tri)
<1> DEFINE b == [a EXCEPT !["m"].tri = TriMin(@, a[s].tri)]
<1>1. /\ a \in [DOMAIN SymType -> [tri : 0..2, str : DOMAIN Rank]] /\ a["m"].tri = 1
      /\ "m" \in DOMAIN SymType /\ KnownSyms \subseteq DOMAIN SymType
  BY KOperandAssumption DEF IsCalculation, KnownSyms
<1>2. a[s].tri \in 0..2 BY <1>1
<1>3. b["m"].tri = TriMin(1, a[s].tri) /\ b["m"].str = a["m"].str BY <1>1
<1>4. \A r \in DOMAIN SymType : r # "m" => b[r] = a[r] BY <1>1
<1> HIDE DEF b
<1>5. \A r \in KnownSyms : b[r].str = a[r].str /\ (r # "m" => b[r].tri = a[r].tri)
  BY <1>1, <1>3, <1>4
<1>6. ASSUME NEW r \in KnownSyms PROVE b[r].tri \in 0..2
  <2>1. CASE r = "m" BY <1>2, <1>3, <2>1 DEF TriMin
  <2>2. CASE r # "m" BY <1>1, <1>4, <2>2
  <2> QED BY <2>1, <2>2
<1>7. IsAssignment(b) BY <1>6 DEF IsAssignment
<1> QED BY <1>3, <1>5, <1>7 DEF b

\* The rewritten condition is worth what the condition means.
THEOREM RewriteMeans ==
    ASSUME NEW x \in Expr, NEW a, IsCalculation(a), ModulesSym \in KnownSyms,
           rewrite_m(x, ModulesSym) \in Expr
    PROVE  expr_calc_value(rewrite_m(x, ModulesSym), a) = Meaning(x, a)
<1> DEFINE s == ModulesSym
           b == [a EXCEPT !["m"].tri = TriMin(@, a[s].tri)]
           rw(y) == rewrite_m(y, s)
           V(y) == expr_calc_value(y, a)
           M(y) == expr_calc_value(y, b)
           P == {y \in Expr : rw(y) \in Expr => V(rw(y)) = M(y)}
<1>0. \A y \in Expr : /\ IsTwo(y) => rw(y) = Two(y.type, rw(y.left), rw(y.right))
                      /\ y.type = "NOT" => rw(y) = Not(rw(y.left))
  <2> TAKE y \in Expr
  <2>1. rw(y) = CASE IsTwo(y) -> Two(y.type, rw(y.left), rw(y.right))
                  [] y.type = "NOT" -> Not(rw(y.left))
                  [] IsConst(y, "m") -> AndOf(y, SymbolExpr(s))
                  [] OTHER -> y
    BY RewriteIs
  <2> HIDE DEF rw
  <2>2. CASE IsTwo(y) BY <2>1, <2>2 DEF IsTwo, IsConst
  <2>3. CASE ~IsTwo(y) BY <2>1, <2>3 DEF IsConst
  <2> QED BY <2>2, <2>3
<1>1. /\ IsAssignment(b) /\ IsAssignment(a)
      /\ \A r \in KnownSyms : b[r].str = a[r].str /\ (r # "m" => b[r].tri = a[r].tri)
      /\ b["m"].tri = TriMin(1, a[s].tri)
      /\ a[s].tri \in 0..2
  BY WithoutModules, CalculationAssigns DEF IsAssignment
<1> HIDE DEF b
<1>2. ASSUME NEW y \in Expr, y = NoExpr \/ y \in Atom PROVE y \in P
  <2>1. y.type # "NOT" /\ ~IsTwo(y) BY <1>2, PartsOf DEF NoExpr, Compares, IsTwo
  <2>2. M(y) = LeafValue(y, b) /\ V(y) = LeafValue(y, a) BY <1>1, <1>2, Value
  <2>3. CASE IsConst(y, "m")
    <3> DEFINE z == SymbolExpr(s)
    <3>1. y # NoExpr /\ z # NoExpr /\ z.type = "SYMBOL" /\ z.sym = s /\ y.type = "SYMBOL" /\ y.sym = "m"
      BY <2>3 DEF IsConst, NoExpr, SymbolExpr
    <3>2. rw(y) = Two("AND", y, z)
      <4>1. rw(y) = AndOf(y, z) BY <2>1, <2>3, RewriteIs
      <4> HIDE DEF rw, z
      <4> QED BY <3>1, <4>1 DEF AndOf, Join
    <3>3. rw(y) \in Expr => V(rw(y)) = TriMin(V(y), V(z))
      <4> HAVE rw(y) \in Expr
      <4>1. rw(y).type = "AND" /\ rw(y).left = y /\ rw(y).right = z BY <3>2 DEF Two
      <4> HIDE DEF rw
      <4> QED BY <1>1, <4>1, Value
    <3>4. z \in Atom BY DEF Atom, Symbols, SymbolExpr
    <3>5. z \in Expr BY <3>4, LeafIs, NormalParts DEF Leaf
    <3>6. V(z) = LeafValue(z, a) BY <1>1, <3>4, <3>5, Value
    <3> HIDE DEF z, rw, V, M
    <3>7. V(z) = a[s].tri /\ V(y) = 1 /\ M(y) = TriMin(1, a[s].tri)
      <4>1. a["m"].tri = 1 BY DEF IsCalculation
      <4> QED BY <1>1, <2>2, <3>1, <3>6, <4>1 DEF LeafValue
    <3> QED BY <3>3, <3>7
  <2>4. CASE ~IsConst(y, "m")
    <3>1. rw(y) = y BY <2>1, <2>4, RewriteIs
    <3>2. LeafValue(y, b) = LeafValue(y, a)
      <4>1. CASE y = NoExpr BY <4>1 DEF LeafValue, NoExpr
      <4>2. CASE y \in Atom /\ y.type = "SYMBOL"
        <5>1. y.sym \in KnownSyms /\ y.sym # "m" BY <2>4, <4>2, AtomSyms DEF IsConst
        <5> QED BY <1>1, <4>2, <5>1 DEF LeafValue
      <4>3. CASE y \in Atom /\ y.type \in Compares
        <5>1. y.sym \in KnownSyms /\ y.sym2 \in KnownSyms BY <4>3, AtomSyms
        <5>2. b[y.sym].str = a[y.sym].str /\ b[y.sym2].str = a[y.sym2].str BY <1>1, <5>1
        <5>3. \A c : LeafValue(y, c) = IF Compare(y, c[y.sym].str, c[y.sym2].str) THEN 2 ELSE 0
          BY <4>3 DEF LeafValue, Compares
        <5> QED BY <5>2, <5>3
      <4> QED BY <1>2, <4>1, <4>2, <4>3, PartsOf
    <3> HIDE DEF rw, V, M
    <3> QED BY <2>2, <3>1, <3>2
  <2> QED BY <2>3, <2>4
<1>3. ASSUME NEW y \in Expr, y.type = "NOT", y.left \in P PROVE y \in P
  <2> SUFFICES ASSUME rw(y) \in Expr PROVE V(rw(y)) = M(y) OBVIOUS
  <2>1. y.left \in Expr /\ ~IsTwo(y) BY <1>3, PartsOf DEF IsTwo
  <2>2. rw(y) = Not(rw(y.left)) BY <1>0, <1>3
  <2> HIDE DEF rw
  <2>3. rw(y).type = "NOT" /\ rw(y).left = rw(y.left) BY <2>2 DEF Not
  <2>4. rw(y.left) \in Expr BY <2>3, PartsOf
  <2>5. V(rw(y)) = TriNot(V(rw(y.left))) /\ M(y) = TriNot(M(y.left)) BY <1>1, <1>3, <2>3, Value
  <2>6. V(rw(y.left)) = M(y.left) BY <1>3, <2>4
  <2> HIDE DEF V, M
  <2> QED BY <2>5, <2>6
<1>4. ASSUME NEW y \in Expr, IsTwo(y), y.left \in P, y.right \in P PROVE y \in P
  <2> SUFFICES ASSUME rw(y) \in Expr PROVE V(rw(y)) = M(y) OBVIOUS
  <2>1. y.left \in Expr /\ y.right \in Expr BY <1>4, PartsOf
  <2>2. rw(y) = Two(y.type, rw(y.left), rw(y.right)) BY <1>0, <1>4
  <2> HIDE DEF rw
  <2>3. rw(y).type = y.type /\ rw(y).left = rw(y.left) /\ rw(y).right = rw(y.right) /\ IsTwo(rw(y))
    BY <1>4, <2>2 DEF Two, IsTwo
  <2>4. rw(y.left) \in Expr /\ rw(y.right) \in Expr BY <2>3, PartsOf
  <2>5. V(rw(y.left)) = M(y.left) /\ V(rw(y.right)) = M(y.right) BY <1>4, <2>4
  <2>6. CASE y.type = "AND"
    <3>1. V(rw(y)) = TriMin(V(rw(y.left)), V(rw(y.right))) /\ M(y) = TriMin(M(y.left), M(y.right))
      BY <1>1, <2>3, <2>6, Value
    <3> HIDE DEF V, M
    <3> QED BY <2>5, <3>1
  <2>7. CASE y.type = "OR"
    <3>1. V(rw(y)) = TriMax(V(rw(y.left)), V(rw(y.right))) /\ M(y) = TriMax(M(y.left), M(y.right))
      BY <1>1, <2>3, <2>7, Value
    <3> HIDE DEF V, M
    <3> QED BY <2>5, <3>1
  <2> QED BY <1>4, <2>6, <2>7 DEF IsTwo
<1> HIDE DEF P
<1>5. Expr \subseteq P BY <1>2, <1>3, <1>4, ExprInduction
<1> QED BY <1>5 DEF P, Meaning, b

-----------------------------------------------------------------------------
(* A condition that may only be asked whether it is n.                     *)

\* The parts first.
LEMMA BoolIs ==
    ASSUME NEW x \in Expr
    PROVE  expr_trans_bool(x) =
             CASE IsTwo(x) -> Two(x.type, expr_trans_bool(x.left), expr_trans_bool(x.right))
               [] x.type = "NOT" -> Not(expr_trans_bool(x.left))
               [] x.type = "UNEQUAL" /\ SymType[x.sym] = "TRISTATE" /\ x.sym2 = "n" -> SymbolExpr(x.sym)
               [] OTHER -> x
<1> DEFINE body(g, y) == CASE IsTwo(y) -> Two(y.type, g[y.left], g[y.right])
                           [] y.type = "NOT" -> Not(g[y.left])
                           [] y.type = "UNEQUAL" /\ SymType[y.sym] = "TRISTATE" /\ y.sym2 = "n" -> SymbolExpr(y.sym)
                           [] OTHER -> y
           leaf == [y \in Expr |-> IF y.type = "UNEQUAL" /\ SymType[y.sym] = "TRISTATE" /\ y.sym2 = "n"
                                   THEN SymbolExpr(y.sym) ELSE y]
           neg == [t \in Expr \X AnyTree |-> Not(t[2])]
           two == [t \in Expr \X AnyTree \X AnyTree |-> Two(t[1].type, t[2], t[3])]
           bool == CHOOSE g : g = [y \in Expr |-> body(g, y)]
<1>1. PICK f : IsMade(f, leaf, neg, two)
  <2>1. \A y \in Expr : y = NoExpr \/ y \in Atom => leaf[y] \in Trees[y]
    <3> TAKE y \in Expr
    <3> HAVE y = NoExpr \/ y \in Atom
    <3>1. CASE y.type = "UNEQUAL" /\ SymType[y.sym] = "TRISTATE" /\ y.sym2 = "n"
      <4>1. y \in Atom /\ y # NoExpr BY <3>1 DEF NoExpr
      <4>2. y.sym \in KnownSyms BY <4>1, AtomSyms
      <4>3. SymbolExpr(y.sym) \in AnyTree BY <4>2, AnyTwo DEF Leaf, Atom, Symbols, SymbolExpr
      <4>4. leaf[y] = SymbolExpr(y.sym) BY <3>1
      <4> QED BY <4>1, <4>3, <4>4 DEF Trees
    <3>2. CASE ~(y.type = "UNEQUAL" /\ SymType[y.sym] = "TRISTATE" /\ y.sym2 = "n")
      BY <3>2, AnyTwo DEF Trees
    <3> QED BY <3>1, <3>2
  <2>2. \A y \in Expr, r \in AnyTree : y.type = "NOT" => neg[<<y, r>>] \in AnyTree BY AnyTwo
  <2>3. \A y \in Expr, r \in AnyTree, q \in AnyTree : IsTwo(y) => two[<<y, r, q>>] \in AnyTree
    BY AnyTwo DEF IsTwo
  <2> HIDE DEF leaf, neg, two
  <2>4. MakesTrees(leaf, neg, two) BY <2>1, <2>2, <2>3 DEF MakesTrees
  <2> QED BY <2>4, TreeRecursion
<1>2. ASSUME NEW y \in Expr PROVE f[y] = body(f, y)
  <2>1. CASE IsTwo(y)
    <3>1. f[y.left] \in AnyTree /\ f[y.right] \in AnyTree /\ f[y] = two[<<y, f[y.left], f[y.right]>>]
      BY <1>1, <2>1 DEF IsMade
    <3>2. f[y] = Two(y.type, f[y.left], f[y.right]) BY <3>1
    <3> QED BY <2>1, <3>2 DEF IsTwo
  <2>2. CASE y.type = "NOT"
    <3>1. f[y.left] \in AnyTree /\ f[y] = neg[<<y, f[y.left]>>] BY <1>1, <2>2 DEF IsMade
    <3>2. f[y] = Not(f[y.left]) BY <3>1
    <3>3. ~IsTwo(y) BY <2>2 DEF IsTwo
    <3> QED BY <2>2, <3>2, <3>3
  <2>3. CASE ~IsTwo(y) /\ y.type # "NOT"
    <3>1. f[y] = leaf[y] BY <1>1, <2>3 DEF IsMade
    <3> QED BY <2>3, <3>1
  <2> QED BY <2>1, <2>2, <2>3
<1> HIDE DEF body
<1>3. f = [y \in Expr |-> body(f, y)] BY <1>1, <1>2 DEF IsMade
<1>4. \E g : g = [y \in Expr |-> body(g, y)] BY <1>3
<1>5. \A y \in Expr : bool[y] = body(bool, y) BY <1>4
<1>6. \A y : expr_trans_bool(y) = bool[y] BY DEF expr_trans_bool, bool, body
<1> HIDE DEF bool
<1>7. expr_trans_bool(x) = body(bool, x) BY <1>5, <1>6
<1> QED BY <1>6, <1>7 DEF body

\* What "is it n" does not distinguish from x.
AsMuchN(x) ==
    {y \in NF : /\ Size(y) = Size(x)
                /\ \A val : IsCalculation(val) =>
                      (expr_calc_value(y, val) = 0 <=> expr_calc_value(x, val) = 0)}

\* Replacing "is not n" by the symbol itself keeps whether it is n.
THEOREM BoolKeepsN ==
    ASSUME NEW e \in NF
    PROVE  expr_trans_bool(e) \in AsMuchN(e)
<1> DEFINE P == {x \in NF : expr_trans_bool(x) \in AsMuchN(x)}
<1>1. ASSUME NEW x \in Leaf PROVE x \in P
  <2>1. x \in NF /\ Size(x) = 1 /\ ~IsTwo(x) /\ x \in Expr BY LeafIs, NormalParts
  <2>2. x \in AsMuchN(x) BY <2>1 DEF AsMuchN
  <2>3. CASE x.type = "NOT"
    <3>1. x.left \in Symbols /\ x = Not(x.left)
      <4>1. x \notin Atom BY <2>3 DEF Atom, Symbols, Comparings, Compares
      <4> QED BY <4>1, LeafIs
    <3>2. x.left \in Expr /\ x.left.type = "SYMBOL" BY <2>1, <2>3, <3>1, PartsOf DEF Symbols
    <3>3. expr_trans_bool(x.left) = x.left BY <3>2, BoolIs DEF IsTwo
    <3>4. expr_trans_bool(x) = Not(expr_trans_bool(x.left)) BY <2>1, <2>3, BoolIs
    <3> QED BY <2>1, <2>2, <3>1, <3>3, <3>4
  <2>4. CASE x.type = "UNEQUAL" /\ SymType[x.sym] = "TRISTATE" /\ x.sym2 = "n"
    <3> DEFINE y == SymbolExpr(x.sym)
    <3>1. x \in Atom BY <2>4, LeafIs
    <3>2. x.sym \in KnownSyms BY <3>1, AtomSyms
    <3>3. y \in Symbols /\ y.type = "SYMBOL" /\ y.sym = x.sym BY <3>2 DEF Symbols, SymbolExpr
    <3>4. expr_trans_bool(x) = y BY <2>1, <2>4, BoolIs
    <3> HIDE DEF y
    <3>5. y \in Atom /\ y \in Leaf BY <3>3 DEF Leaf, Atom
    <3>6. y \in NF /\ Size(y) = 1 /\ y \in Expr BY <3>5, LeafIs, NormalParts
    <3>7. x.sym \in Tristates BY <2>4, <3>2 DEF Tristates, KnownSyms
    <3>8. ASSUME NEW val, IsCalculation(val)
          PROVE  expr_calc_value(y, val) = 0 <=> expr_calc_value(x, val) = 0
      <4>1. IsAssignment(val) BY <3>8, CalculationAssigns
      <4>2. expr_calc_value(y, val) = LeafValue(y, val) /\ expr_calc_value(x, val) = LeafValue(x, val)
        BY <2>1, <3>1, <3>5, <3>6, <4>1, Value
      <4>3. LeafValue(y, val) = val[x.sym].tri BY <3>3 DEF LeafValue
      <4>4. "n" \in Plain BY ConstantsArePlain
      <4>5. LeafValue(x, val) = IF (val[x.sym].str = "n") <=> (x.type = "EQUAL") THEN 2 ELSE 0
        BY <2>4, <3>7, <3>8, <4>4, ComparedByName
      <4>6. val[x.sym].str = "n" <=> val[x.sym].tri = 0 BY <3>7, <3>8, ValueByName
      <4> QED BY <2>4, <4>2, <4>3, <4>5, <4>6
    <3> QED BY <2>1, <3>4, <3>6, <3>8 DEF AsMuchN
  <2>5. CASE x.type # "NOT" /\ ~(x.type = "UNEQUAL" /\ SymType[x.sym] = "TRISTATE" /\ x.sym2 = "n")
    <3>1. expr_trans_bool(x) = x BY <2>1, <2>5, BoolIs
    <3> QED BY <2>1, <2>2, <3>1
  <2> QED BY <2>3, <2>4, <2>5
<1>2. ASSUME NEW x \in NF, IsTwo(x), x.left \in P, x.right \in P PROVE x \in P
  <2> DEFINE l == expr_trans_bool(x.left)
             r == expr_trans_bool(x.right)
             y == Two(x.type, l, r)
  <2>1. /\ x \in Expr /\ x.left \in NF /\ x.right \in NF /\ x.type \in {"AND", "OR"}
        /\ Size(x) = Size(x.left) + Size(x.right) /\ Size(x) <= MaxOperands
    BY <1>2, NormalParts
  <2>2. l \in AsMuchN(x.left) /\ r \in AsMuchN(x.right) BY <1>2
  <2>3. expr_trans_bool(x) = y BY <1>2, <2>1, BoolIs
  <2>4. y.type = x.type /\ y.left = l /\ y.right = r BY DEF Two
  <2> HIDE DEF l, r
  <2>5. l \in NF /\ r \in NF /\ Size(l) + Size(r) = Size(x) BY <2>1, <2>2 DEF AsMuchN
  <2>6. y \in NF /\ Size(y) = Size(x) BY <2>1, <2>5, NormalTwo
  <2> HIDE DEF y
  <2>7. y \in Expr /\ IsTwo(y) /\ l \in Expr /\ r \in Expr /\ x.left \in Expr /\ x.right \in Expr
    BY <2>1, <2>4, <2>5, <2>6, NormalParts DEF IsTwo
  <2>8. ASSUME NEW val, IsCalculation(val)
        PROVE  expr_calc_value(y, val) = 0 <=> expr_calc_value(x, val) = 0
    <3> DEFINE V(z) == expr_calc_value(z, val)
    <3>1. V(l) \in 0..2 /\ V(r) \in 0..2 /\ V(x.left) \in 0..2 /\ V(x.right) \in 0..2
      BY <2>7, <2>8, ValueTwo
    <3>2. V(y) = Op(x.type, V(l), V(r)) BY <2>4, <2>7, <2>8, ValueTwo
    <3>3. V(x) = Op(x.type, V(x.left), V(x.right)) BY <1>2, <2>1, <2>8, ValueTwo
    <3>4. (V(l) = 0 <=> V(x.left) = 0) /\ (V(r) = 0 <=> V(x.right) = 0) BY <2>2, <2>8 DEF AsMuchN
    <3> HIDE DEF V
    <3>5. V(y) = 0 <=> V(x) = 0 BY <3>1, <3>2, <3>3, <3>4 DEF Op, TriMin, TriMax
    <3> QED BY <3>5 DEF V
  <2>9. y \in AsMuchN(x) BY <2>6, <2>8 DEF AsMuchN
  <2> QED BY <2>3, <2>9
<1> HIDE DEF P
<1>3. NF \subseteq P BY <1>1, <1>2, NormalInduction
<1> QED BY <1>3 DEF P

-----------------------------------------------------------------------------
(* The condition of an entry.                                              *)

\* The condition at each step: what the rewritings so far have made of it.
Written_m == rewrite_m(cond, ModulesSym)
MeansAll == \A val : IsCalculation(val) =>
              expr_calc_value(dep, val) = TriMin(expr_calc_value(parent, val), Meaning(cond, val))
MeansN == \A val : IsCalculation(val) =>
            (expr_calc_value(dep, val) = 0
               <=> TriMin(expr_calc_value(parent, val), Meaning(cond, val)) = 0)
CondInv ==
    /\ cond \in Written /\ parent \in Parents
    /\ rewriting \in {"rewrite_m", "transform", "and", "dups", "trans_bool", "done"}
    /\ rewriting = "rewrite_m" => dep = cond
    /\ rewriting = "transform" => dep = Written_m
    /\ rewriting = "and" => dep \in Normalized(Written_m)
    /\ Simplified => dep \in NF
    /\ rewriting \in {"dups", "trans_bool"} => MeansAll
    /\ rewriting = "done" => MeansN

\* What is written stays what it means when m is rewritten.
LEMMA RewrittenIs ==
    ASSUME NEW c \in Written
    PROVE  /\ c \in Expr /\ rewrite_m(c, ModulesSym) \in Expr /\ rewrite_m(c, ModulesSym) # NoExpr
           /\ \A val : IsCalculation(val) =>
                expr_calc_value(rewrite_m(c, ModulesSym), val) = Meaning(c, val)
<1> DEFINE r == rewrite_m(c, ModulesSym)
<1>1. c \in Expr /\ c # NoExpr /\ r \in Expr /\ ModulesSym \in KnownSyms BY ConditionsAssumption
<1>2. r # NoExpr
  <2>1. r = CASE IsTwo(c) -> Two(c.type, rewrite_m(c.left, ModulesSym), rewrite_m(c.right, ModulesSym))
              [] c.type = "NOT" -> Not(rewrite_m(c.left, ModulesSym))
              [] IsConst(c, "m") -> AndOf(c, SymbolExpr(ModulesSym))
              [] OTHER -> c
    BY <1>1, RewriteIs
  <2> HIDE DEF r
  <2>2. CASE IsTwo(c)
    <3>1. r = Two(c.type, rewrite_m(c.left, ModulesSym), rewrite_m(c.right, ModulesSym))
      BY <2>1, <2>2 DEF IsTwo, IsConst
    <3> QED BY <2>2, <3>1 DEF Two, NoExpr, IsTwo
  <2>3. CASE c.type = "NOT"
    <3>1. r = Not(rewrite_m(c.left, ModulesSym)) BY <2>1, <2>3 DEF IsTwo, IsConst
    <3> QED BY <3>1 DEF Not, NoExpr
  <2>4. CASE IsConst(c, "m")
    <3>1. SymbolExpr(ModulesSym) # NoExpr BY DEF SymbolExpr, NoExpr
    <3>2. r = AndOf(c, SymbolExpr(ModulesSym)) BY <2>1, <2>4 DEF IsTwo, IsConst
    <3>3. r = Two("AND", c, SymbolExpr(ModulesSym)) BY <1>1, <3>1, <3>2 DEF AndOf, Join
    <3> QED BY <3>3 DEF Two, NoExpr
  <2>5. CASE ~IsTwo(c) /\ c.type # "NOT" /\ ~IsConst(c, "m")
    <3>1. r = c BY <2>1, <2>5
    <3> QED BY <1>1, <3>1
  <2> QED BY <2>2, <2>3, <2>4, <2>5
<1>3. ASSUME NEW val, IsCalculation(val) PROVE expr_calc_value(r, val) = Meaning(c, val)
  BY <1>1, <1>3, RewriteMeans
<1> QED BY <1>1, <1>2, <1>3

\* With what the parent depends on.
LEMMA WithParent ==
    ASSUME NEW c \in Written, NEW p \in Parents, NEW d \in Normalized(rewrite_m(c, ModulesSym))
    PROVE  /\ d \in NF /\ AndOf(p, d) \in NF
           /\ \A val : IsCalculation(val) =>
                expr_calc_value(AndOf(p, d), val) = TriMin(expr_calc_value(p, val), Meaning(c, val))
<1> DEFINE r == rewrite_m(c, ModulesSym)
<1>1. /\ r \in Expr /\ r # NoExpr
      /\ \A val : IsCalculation(val) => expr_calc_value(r, val) = Meaning(c, val)
  BY RewrittenIs
<1>2. /\ p \in Expr /\ IsNormal(p) /\ Size(p) + Size(r) <= MaxOperands
  BY ConditionsAssumption
<1> HIDE DEF r
<1>3. /\ d \in Expr /\ d # NoExpr /\ IsNormal(d) /\ Size(d) = Size(r) /\ Same(d, r)
  BY <1>1 DEF Normalized, r
<1>4. Size(p) \in Nat /\ Size(d) \in Nat /\ MaxOperands \in Nat BY <1>2, <1>3, SizeIs, KExprAssumption
<1>5. d \in NF
  <2>1. Size(d) <= MaxOperands BY <1>2, <1>3, <1>4
  <2> QED BY <1>3, <2>1 DEF NF, NormalForms
<1>6. \A val : IsCalculation(val) => expr_calc_value(d, val) = Meaning(c, val)
  BY <1>1, <1>3 DEF Same
<1>7. \A val : IsCalculation(val) => expr_calc_value(d, val) \in 0..2 BY <1>3, ValueTwo
<1>8. CASE p = NoExpr
  <2>1. AndOf(p, d) = d BY <1>8 DEF AndOf, Join
  <2>2. ASSUME NEW val, IsCalculation(val) PROVE expr_calc_value(p, val) = 2
    <3>1. expr_calc_value(p, val) = LeafValue(p, val) BY <1>2, <1>8, <2>2, CalculationAssigns, Value
    <3> QED BY <1>8, <3>1 DEF LeafValue, NoExpr
  <2>3. ASSUME NEW val, IsCalculation(val)
        PROVE  expr_calc_value(d, val) = TriMin(expr_calc_value(p, val), Meaning(c, val))
    BY <1>6, <1>7, <2>2, <2>3 DEF TriMin
  <2> QED BY <1>5, <2>1, <2>3
<1>9. CASE p # NoExpr
  <2> DEFINE y == Two("AND", p, d)
  <2>1. AndOf(p, d) = y BY <1>3, <1>9 DEF AndOf, Join
  <2>2. y.type = "AND" /\ y.left = p /\ y.right = d BY DEF Two
  <2>3. p \in NF
    <3>1. Size(p) <= MaxOperands BY <1>2, <1>3, <1>4
    <3> QED BY <1>2, <1>9, <3>1 DEF NF, NormalForms
  <2>4. y \in NF BY <1>2, <1>3, <1>5, <2>3, NormalTwo
  <2> HIDE DEF y
  <2>5. y \in Expr BY <2>4, NormalParts
  <2>6. ASSUME NEW val, IsCalculation(val)
        PROVE  expr_calc_value(y, val) = TriMin(expr_calc_value(p, val), Meaning(c, val))
    <3>1. IsAssignment(val) BY <2>6, CalculationAssigns
    <3>2. expr_calc_value(y, val) = TriMin(expr_calc_value(p, val), expr_calc_value(d, val))
      BY <2>2, <2>5, <3>1, Value
    <3> QED BY <1>6, <2>6, <3>2
  <2> QED BY <1>5, <2>1, <2>4, <2>6
<1> QED BY <1>5, <1>8, <1>9

\* At every step of menu_finalize() the condition is what the steps before
\* have made of it: a normal form of the rewritten one, then one of the same
\* value with the parent's, then one that is n for the same values.
THEOREM CondInvHolds == CondSpec => []CondInv
<1>1. CondInit => CondInv BY DEF CondInit, CondInv, Simplified
<1>2. CondInv /\ [CondNext]_condVars => CondInv'
  <2> SUFFICES ASSUME CondInv, [CondNext]_condVars PROVE CondInv' OBVIOUS
  <2>0. cond \in Written /\ parent \in Parents BY DEF CondInv
  <2>1. CASE RewriteM
    <3>1. dep = cond BY <2>1 DEF CondInv, RewriteM, Rewrite
    <3> QED BY <2>0, <2>1, <3>1 DEF CondInv, RewriteM, Rewrite, Written_m, Simplified
  <2>2. CASE Transform
    <3>1. dep = Written_m BY <2>2 DEF CondInv, Transform, Rewrite
    <3>2. Written_m \in Expr BY <2>0, RewrittenIs DEF Written_m
    <3>3. dep' \in Normalized(Written_m) BY <2>2, <3>1, <3>2, TransformNormalizes DEF Transform, Rewrite
    <3>4. Written_m' = Written_m BY <2>2 DEF Transform, Rewrite, Written_m
    <3>5. dep' \in NF BY <2>0, <3>3, WithParent DEF Written_m
    <3> QED BY <2>0, <2>2, <3>3, <3>4, <3>5 DEF CondInv, Transform, Rewrite
  <2>3. CASE AddParent
    <3>1. dep \in Normalized(rewrite_m(cond, ModulesSym))
      BY <2>3 DEF CondInv, AddParent, Rewrite, Written_m
    <3>2. dep' = AndOf(parent, dep) /\ cond' = cond /\ parent' = parent /\ rewriting' = "dups"
      BY <2>3 DEF AddParent, Rewrite
    <3>3. dep' \in NF BY <2>0, <3>1, <3>2, WithParent
    <3>4. MeansAll' BY <2>0, <3>1, <3>2, WithParent DEF MeansAll, Meaning
    <3> QED BY <2>0, <3>2, <3>3, <3>4 DEF CondInv
  <2>4. CASE EliminateDups
    <3>1. dep \in NF /\ MeansAll BY <2>4 DEF CondInv, EliminateDups, Rewrite, Simplified
    <3>2. /\ dep' = expr_eliminate_dups(dep) /\ cond' = cond /\ parent' = parent
          /\ rewriting' = "trans_bool"
      BY <2>4 DEF EliminateDups, Rewrite
    <3>3. dep' \in LeftOf(dep) BY <3>1, <3>2, DupsKeepTheValue
    <3>4. dep' \in NF /\ Same(dep, dep') BY <3>3 DEF LeftOf
    <3>5. MeansAll' BY <3>1, <3>2, <3>4 DEF MeansAll, Meaning, Same
    <3> QED BY <2>0, <3>2, <3>4, <3>5 DEF CondInv
  <2>5. CASE TransBool
    <3>1. dep \in NF /\ MeansAll BY <2>5 DEF CondInv, TransBool, Rewrite, Simplified
    <3>2. dep' = expr_trans_bool(dep) /\ cond' = cond /\ parent' = parent /\ rewriting' = "done"
      BY <2>5 DEF TransBool, Rewrite
    <3>3. dep' \in AsMuchN(dep) BY <3>1, <3>2, BoolKeepsN
    <3>4. MeansN' BY <3>1, <3>2, <3>3 DEF MeansAll, MeansN, Meaning, AsMuchN
    <3>5. dep' \in NF BY <3>3 DEF AsMuchN
    <3> QED BY <2>0, <3>2, <3>4, <3>5 DEF CondInv
  <2>6. CASE UNCHANGED condVars
    BY <2>6 DEF condVars, CondInv, Written_m, MeansAll, MeansN, Meaning, Simplified
  <2> QED BY <2>1, <2>2, <2>3, <2>4, <2>5, <2>6 DEF CondNext
<1> QED BY <1>1, <1>2, PTL DEF CondSpec

\* Rewriting keeps the meaning, for every condition that may be written,
\* every parent's and every value the symbols may have together: expr.c's
\* simplifications cannot be the reason why an entry is hidden or visible
\* (menu_finalize, menu.c:343-398).
THEOREM CondMeaningIsKept == CondSpec => []MeaningIsKept
<1>1. CondInv => MeaningIsKept
  <2> SUFFICES ASSUME CondInv, rewriting # "rewrite_m", NEW a \in Assignments
               PROVE  IF rewriting = "done" THEN expr_calc_value(dep, a) = 0 <=> Whole(a) = 0
                      ELSE expr_calc_value(dep, a) = Whole(a)
    BY DEF MeaningIsKept
  <2>1. IsCalculation(a) BY ConditionsAssumption
  <2>2. cond \in Written BY DEF CondInv
  <2>3. expr_calc_value(Written_m, a) = Meaning(cond, a) BY <2>1, <2>2, RewrittenIs DEF Written_m
  <2>4. CASE rewriting = "transform" BY <2>3, <2>4 DEF CondInv, Whole
  <2>5. CASE rewriting = "and"
    <3>1. expr_calc_value(dep, a) = expr_calc_value(Written_m, a)
      BY <2>1, <2>5 DEF CondInv, Normalized, Same
    <3> QED BY <2>3, <2>5, <3>1 DEF Whole
  <2>6. CASE rewriting \in {"dups", "trans_bool"}
    BY <2>1, <2>6 DEF CondInv, MeansAll, Whole
  <2>7. CASE rewriting = "done"
    BY <2>1, <2>7 DEF CondInv, MeansN, Whole
  <2> QED BY <2>4, <2>5, <2>6, <2>7 DEF CondInv
<1> QED BY <1>1, CondInvHolds, PTL

-----------------------------------------------------------------------------
(* Asking whether a condition is n.                                        *)

Either == {"EQUAL", "UNEQUAL"}
Other(t) == IF t = "EQUAL" THEN "UNEQUAL" ELSE "EQUAL"
Flipped(t, f) == IF t = "UNEQUAL" THEN Not(f) ELSE f
Dual(t) == IF t = "AND" THEN "OR" ELSE "AND"

\* "Is it n" and "is it not n", of the operands.
LeafCompare(x, t) ==
    IF x.type = "NONE" THEN Flipped(t, SymbolExpr("n"))
    ELSE IF x.type \in Compares THEN (IF t = "EQUAL" THEN Not(x) ELSE x)
    ELSE Comp(t, x.sym, "n")

\* A comparison with n is pushed to the leaves.
LEMMA TransCompareIs ==
    ASSUME NEW x \in Expr, NEW g, NEW t \in Either
    PROVE  TransCompare(g, x, t, "n") =
             IF IsTwo(x) THEN Flipped(t, Two(Dual(x.type), g[x.left]["EQUAL"], g[x.right]["EQUAL"]))
             ELSE IF x.type = "NOT" THEN g[x.left][Other(t)] ELSE LeafCompare(x, t)
<1> USE DEF TransCompare, Flipped
<1>1. CASE IsTwo(x)
  <2>1. x.type # "NONE" BY <1>1 DEF IsTwo
  <2>2. [AND |-> "OR", OR |-> "AND"][x.type] = Dual(x.type) BY <1>1 DEF IsTwo, Dual
  <2> QED BY <1>1, <2>1, <2>2 DEF IsTwo, Compares
<1>2. CASE x.type = "NOT" BY <1>2 DEF IsTwo, Compares, Other
<1>3. CASE x.type = "NONE" BY <1>3 DEF IsTwo, Compares, LeafCompare
<1>4. CASE x.type \in Compares BY <1>4 DEF IsTwo, Compares, LeafCompare
<1>5. CASE x.type = "SYMBOL" BY <1>5 DEF IsTwo, Compares, LeafCompare
<1> QED BY <1>1, <1>2, <1>3, <1>4, <1>5, PartsOf

\* A leaf that is compared is a leaf or a constant.
LEMMA LeafCompareTree ==
    ASSUME NEW x \in Expr, x = NoExpr \/ x \in Atom, NEW t \in Either
    PROVE  LeafCompare(x, t) \in AnyTree
<1>1. SymbolExpr("n") \in AnyTree BY ConstantIs, AnyTwo
<1>2. x \in Atom => x \in AnyTree BY AnyTwo DEF Leaf
<1>3. CASE x = NoExpr BY <1>1, <1>3, AnyTwo DEF LeafCompare, NoExpr, Flipped
<1>4. CASE x \in Atom /\ x.type \in Compares
  <2>1. x.type # "NONE" BY <1>4 DEF Compares
  <2> QED BY <1>2, <1>4, <2>1, AnyTwo DEF LeafCompare
<1>5. CASE x \in Atom /\ x.type = "SYMBOL"
  <2>1. LeafCompare(x, t) = Comp(t, x.sym, "n") BY <1>5 DEF LeafCompare, Compares
  <2>2. x.sym \in KnownSyms BY <1>5, AtomSyms
  <2>3. "n" \in KnownSyms \ NumberSyms BY KOperandAssumption DEF KnownSyms, NumberSyms
  <2>4. Comp(t, x.sym, "n") \in Comparings
    BY <2>2, <2>3 DEF Comparings, Comp, Either, Compares
  <2>5. Comp(t, x.sym, "n") \in Leaf BY <2>4 DEF Leaf, Atom
  <2> QED BY <2>1, <2>5, AnyTwo
<1> QED BY <1>3, <1>4, <1>5, PartsOf

Asks(x, t) == expr_trans_compare(x, t, "n")

\* What it is to ask whether a condition is n, or is not.
LEMMA AsksIs ==
    ASSUME NEW x \in Expr, NEW t \in Either
    PROVE  /\ IsTwo(x) => Asks(x, t) = Flipped(t, Two(Dual(x.type), Asks(x.left, "EQUAL"), Asks(x.right, "EQUAL")))
           /\ x.type = "NOT" => Asks(x, t) = Asks(x.left, Other(t))
           /\ x = NoExpr \/ x \in Atom => Asks(x, t) = LeafCompare(x, t)
<1> DEFINE F == [Either -> AnyTree]
           T == [y \in Expr |-> F]
           leaf == [y \in Expr |-> [u \in Either |-> LeafCompare(y, u)]]
           neg == [p \in Expr \X F |-> [u \in Either |-> p[2][Other(u)]]]
           two == [p \in Expr \X F \X F |->
                     [u \in Either |-> Flipped(u, Two(Dual(p[1].type), p[2]["EQUAL"], p[3]["EQUAL"]))]]
           body(g, y) == [u \in Either |-> TransCompare(g, y, u, "n")]
           compare == CHOOSE g : g = [y \in Expr |-> body(g, y)]
<1>0. "EQUAL" \in Either /\ \A u \in Either : Other(u) \in Either BY DEF Either, Other
<1>1. PICK f : /\ f = [y \in Expr |-> f[y]]
               /\ \A y \in Expr :
                    /\ f[y] \in T[y]
                    /\ f[y] = IF IsTwo(y) THEN two[<<y, f[y.left], f[y.right]>>]
                              ELSE IF y.type = "NOT" THEN neg[<<y, f[y.left]>>] ELSE leaf[y]
  <2>1. \A y \in Expr : T[y] = F OBVIOUS
  <2>2. \A y \in Expr : /\ y.type = "NOT" => y.left \in Expr
                        /\ IsTwo(y) => y.left \in Expr /\ y.right \in Expr
    BY PartsOf
  <2>3. \A y \in Expr : y = NoExpr \/ y \in Atom => leaf[y] \in F BY LeafCompareTree
  <2>4. \A y \in Expr, r \in F : neg[<<y, r>>] \in F BY <1>0
  <2>5. \A y \in Expr, r \in F, s \in F : IsTwo(y) => two[<<y, r, s>>] \in F
    <3> TAKE y \in Expr, r \in F, s \in F
    <3> HAVE IsTwo(y)
    <3>1. Two(Dual(y.type), r["EQUAL"], s["EQUAL"]) \in AnyTree BY <1>0, AnyTwo DEF Dual
    <3>2. \A u \in Either : Flipped(u, Two(Dual(y.type), r["EQUAL"], s["EQUAL"])) \in AnyTree
      BY <3>1, AnyTwo DEF Flipped
    <3>3. two[<<y, r, s>>] = [u \in Either |-> Flipped(u, Two(Dual(y.type), r["EQUAL"], s["EQUAL"]))]
      OBVIOUS
    <3> QED BY <3>2, <3>3
  <2>6. F # {}
    <3>1. SymbolExpr("n") \in AnyTree BY ConstantIs, AnyTwo
    <3>2. [u \in Either |-> SymbolExpr("n")] \in F BY <3>1
    <3> QED BY <3>2
  <2> HIDE DEF F, T, leaf, neg, two
  <2>7. IsFold(T, leaf, neg, two) BY <2>1, <2>2, <2>3, <2>4, <2>5, <2>6 DEF IsFold
  <2> QED BY <2>7, ExprRecursion
<1>2. ASSUME NEW y \in Expr PROVE f[y] = body(f, y)
  <2>1. CASE IsTwo(y)
    <3>1. f[y.left] \in F /\ f[y.right] \in F BY <1>1, <2>1, PartsOf
    <3>2. f[y] = two[<<y, f[y.left], f[y.right]>>] BY <1>1, <2>1
    <3>3. f[y] = [u \in Either |-> Flipped(u, Two(Dual(y.type), f[y.left]["EQUAL"], f[y.right]["EQUAL"]))]
      BY <3>1, <3>2
    <3>4. \A u \in Either : TransCompare(f, y, u, "n") =
            Flipped(u, Two(Dual(y.type), f[y.left]["EQUAL"], f[y.right]["EQUAL"]))
      BY <2>1, TransCompareIs
    <3> QED BY <3>3, <3>4
  <2>2. CASE y.type = "NOT"
    <3>0. ~IsTwo(y) BY <2>2 DEF IsTwo
    <3>1. f[y.left] \in F BY <1>1, <2>2, PartsOf
    <3>2. f[y] = neg[<<y, f[y.left]>>] BY <1>1, <2>2, <3>0
    <3>3. f[y] = [u \in Either |-> f[y.left][Other(u)]] BY <3>1, <3>2
    <3>4. \A u \in Either : TransCompare(f, y, u, "n") = f[y.left][Other(u)]
      BY <2>2, <3>0, TransCompareIs
    <3> QED BY <3>3, <3>4
  <2>3. CASE ~IsTwo(y) /\ y.type # "NOT"
    <3>1. f[y] = leaf[y] BY <1>1, <2>3
    <3>2. f[y] = [u \in Either |-> LeafCompare(y, u)] BY <3>1
    <3>3. \A u \in Either : TransCompare(f, y, u, "n") = LeafCompare(y, u) BY <2>3, TransCompareIs
    <3> QED BY <3>2, <3>3
  <2> QED BY <2>1, <2>2, <2>3
<1> HIDE DEF body
<1>3. f = [y \in Expr |-> body(f, y)] BY <1>1, <1>2
<1>4. \E g : g = [y \in Expr |-> body(g, y)] BY <1>3
<1>5. \A y \in Expr : compare[y] = body(compare, y) BY <1>4
<1>6. \A y, u : Asks(y, u) = compare[y][u] BY DEF Asks, expr_trans_compare, compare, body, Either
<1> HIDE DEF compare
<1>7. Asks(x, t) = TransCompare(compare, x, t, "n") BY <1>5, <1>6 DEF body
<1>8. x = NoExpr \/ x \in Atom => x.type # "NOT" /\ ~IsTwo(x) BY PartsOf DEF NoExpr, Compares, IsTwo
<1>9. x.type = "NOT" => ~IsTwo(x) BY DEF IsTwo
<1> QED BY <1>6, <1>7, <1>8, <1>9, TransCompareIs

\* The comparisons of a normal form nest one deeper, and a negation.
LEMMA AsksForm ==
    ASSUME NEW x \in NF
    PROVE  /\ Asks(x, "EQUAL") \in Nested[Size(x)] /\ Asks(x, "UNEQUAL") \in Nested[Size(x) + 1]
           /\ \A t \in Either : /\ Asks(x, t) \in Expr /\ Asks(x, t) # NoExpr
                                /\ Size(Asks(x, t)) = Size(x)
<1> DEFINE P == {y \in NF : /\ Asks(y, "EQUAL") \in Nested[Size(y)]
                            /\ Asks(y, "UNEQUAL") \in Nested[Size(y) + 1]
                            /\ \A t \in Either : Asks(y, t) \in Expr => Size(Asks(y, t)) = Size(y)}
<1>e. "EQUAL" \in Either /\ "UNEQUAL" \in Either BY DEF Either
<1>1. ASSUME NEW y \in Leaf PROVE y \in P
  <2>1. y \in NF /\ Size(y) = 1 /\ y \in Expr BY LeafIs, NormalParts
  <2>2. CASE y \in Atom /\ y.type = "SYMBOL"
    <3>1. ASSUME NEW t \in Either PROVE Asks(y, t) \in Leaf
      <4>1. Asks(y, t) = LeafCompare(y, t) BY <2>1, <2>2, AsksIs
      <4>2. LeafCompare(y, t) = Comp(t, y.sym, "n") BY <2>2 DEF LeafCompare, Compares
      <4>3. y.sym \in KnownSyms BY <2>2, AtomSyms
      <4>4. "n" \in KnownSyms \ NumberSyms BY KOperandAssumption DEF KnownSyms, NumberSyms
      <4>5. Comp(t, y.sym, "n") \in Comparings BY <4>3, <4>4 DEF Comparings, Comp, Either, Compares
      <4> QED BY <4>1, <4>2, <4>5 DEF Leaf, Atom
    <3>2. \A t \in Either : Size(Asks(y, t)) = 1 /\ \A n \in Nat : Asks(y, t) \in Nested[n]
      BY <3>1, LeafAnywhere
    <3> QED BY <1>e, <2>1, <3>2
  <2>3. CASE y \in Atom /\ y.type \in Compares
    <3>1. \A t \in Either : Asks(y, t) = IF t = "EQUAL" THEN Not(y) ELSE y
      <4> TAKE t \in Either
      <4>1. Asks(y, t) = LeafCompare(y, t) BY <2>1, <2>3, AsksIs
      <4> QED BY <2>3, <4>1 DEF LeafCompare, Compares
    <3>2. \A n \in Nat : y \in Nested[n] BY LeafAnywhere
    <3>3. Not(y) \in Nested[0 + 1] BY <3>2, Built
    <3>4. Not(y) \in Expr => Size(Not(y)) = 1
      <4>1. Not(y).type = "NOT" /\ Not(y).left = y BY DEF Not
      <4> QED BY <2>1, <4>1, SizeIs
    <3>5. Asks(y, "EQUAL") = Not(y) /\ Asks(y, "UNEQUAL") = y BY <1>e, <3>1
    <3>6. \A t \in Either : Asks(y, t) \in Expr => Size(Asks(y, t)) = Size(y) BY <2>1, <3>1, <3>4
    <3> QED BY <2>1, <3>2, <3>3, <3>5, <3>6
  <2>4. CASE y.type = "NOT" /\ y.left \in Symbols
    <3>1. y.left \in Leaf /\ y.left \in Atom BY <2>4 DEF Leaf, Atom
    <3>2. y.left \in Expr BY <3>1, LeafAnywhere
    <3>3. ASSUME NEW t \in Either PROVE Asks(y, t) \in Leaf
      <4>0. Other(t) \in Either BY DEF Other, Either
      <4>1. Asks(y, t) = Asks(y.left, Other(t)) BY <2>1, <2>4, AsksIs
      <4>2. Asks(y.left, Other(t)) = LeafCompare(y.left, Other(t)) BY <3>1, <3>2, <4>0, AsksIs
      <4>3. LeafCompare(y.left, Other(t)) = Comp(Other(t), y.left.sym, "n")
        BY <2>4 DEF LeafCompare, Compares, Symbols
      <4>4. y.left.sym \in KnownSyms BY <3>1, AtomSyms
      <4>5. "n" \in KnownSyms \ NumberSyms BY KOperandAssumption DEF KnownSyms, NumberSyms
      <4>6. Comp(Other(t), y.left.sym, "n") \in Comparings
        BY <4>0, <4>4, <4>5 DEF Comparings, Comp, Either, Compares
      <4> QED BY <4>1, <4>2, <4>3, <4>6 DEF Leaf, Atom
    <3>4. \A t \in Either : Size(Asks(y, t)) = 1 /\ \A n \in Nat : Asks(y, t) \in Nested[n]
      BY <3>3, LeafAnywhere
    <3> QED BY <1>e, <2>1, <3>4
  <2> QED BY <2>1, <2>2, <2>3, <2>4, LeafIs, PartsOf DEF NoExpr
<1>2. ASSUME NEW y \in NF, IsTwo(y), y.left \in P, y.right \in P PROVE y \in P
  <2> DEFINE l == Asks(y.left, "EQUAL")
             r == Asks(y.right, "EQUAL")
             b == Two(Dual(y.type), l, r)
             sl == Size(y.left)
             sr == Size(y.right)
             s == Size(y)
  <2>1. /\ y \in Expr /\ y.left \in NF /\ y.right \in NF
        /\ sl \in Nat \ {0} /\ sr \in Nat \ {0} /\ s = sl + sr
    <3>1. y \in Expr /\ y.left \in NF /\ y.right \in NF /\ s = sl + sr BY <1>2, NormalParts
    <3>2. y.left \in Expr /\ y.right \in Expr BY <3>1, NormalParts
    <3> QED BY <3>1, <3>2, SizeIs
  <2>2. l \in Nested[sl] /\ r \in Nested[sr] BY <1>2
  <2>3. (l \in Expr => Size(l) = sl) /\ (r \in Expr => Size(r) = sr) BY <1>2, <1>e
  <2>4. Asks(y, "EQUAL") = b /\ Asks(y, "UNEQUAL") = Not(b) BY <1>2, <1>e, <2>1, AsksIs DEF Flipped
  <2>5. b.type = Dual(y.type) /\ b.left = l /\ b.right = r /\ IsTwo(b) /\ Dual(y.type) \in {"AND", "OR"}
    BY DEF Two, IsTwo, Dual
  <2> HIDE DEF l, r, sl, sr, s
  <2>6. s - 1 \in Nat /\ sl <= s - 1 /\ sr <= s - 1 /\ (s - 1) + 1 = s /\ s \in Nat BY <2>1
  <2>7. l \in Nested[s - 1] /\ r \in Nested[s - 1] BY <2>1, <2>2, <2>6, NestedMonotone
  <2>8. b \in Nested[s] BY <2>5, <2>6, <2>7, Built
  <2>9. b \in Expr => Size(b) = s
    <3> HAVE b \in Expr
    <3> HIDE DEF b
    <3>1. l \in Expr /\ r \in Expr BY <2>5, PartsOf
    <3> QED BY <2>1, <2>3, <2>5, <3>1, SizeIs
  <2> HIDE DEF b
  <2>10. Not(b) \in Nested[s + 1] BY <2>6, <2>8, Built
  <2>11. Not(b) \in Expr => Size(Not(b)) = s
    <3> HAVE Not(b) \in Expr
    <3>1. Not(b).type = "NOT" /\ Not(b).left = b BY DEF Not
    <3>2. b \in Expr BY <3>1, PartsOf
    <3> QED BY <2>9, <3>1, <3>2, SizeIs
  <2>12. \A t \in Either : Asks(y, t) \in Expr => Size(Asks(y, t)) = s
    BY <2>4, <2>9, <2>11 DEF Either
  <2> QED BY <2>4, <2>8, <2>10, <2>12 DEF s
<1>3. NF \subseteq P
  <2> HIDE DEF P
  <2> QED BY <1>1, <1>2, NormalInduction
<1>4. x \in P BY <1>3
<1>5. Size(x) \in Nat /\ Size(x) + 1 <= Top /\ Size(x) <= Top BY NormalParts, KExprAssumption DEF Top
<1>6. Asks(x, "EQUAL") \in Nested[Top] /\ Asks(x, "UNEQUAL") \in Nested[Top]
  <2>1. Size(x) + 1 \in Nat BY <1>5
  <2> QED BY <1>4, <1>5, <2>1, TopNat, NestedMonotone
<1>7. \A t \in Either : Asks(x, t) \in Expr /\ Asks(x, t) # NoExpr
  BY <1>6, TopNat, Parts DEF Either
<1> QED BY <1>4, <1>7

-----------------------------------------------------------------------------
(* What the comparisons say, where they tell.                              *)

\* Two constants are compared as texts.
LEMMA ConstantsCompared ==
    ASSUME NEW val, IsCalculation(val), NEW e, e.type \in {"EQUAL", "UNEQUAL"},
           e.sym \in Plain, e.sym2 \in Plain
    PROVE  LeafValue(e, val) = IF (e.sym = e.sym2) <=> (e.type = "EQUAL") THEN 2 ELSE 0
<1> DEFINE s == e.sym
           c == e.sym2
           order == Rank[val[s].str] - Rank[val[c].str]
           side == [i \in {1, 2} |-> [kind |-> "string", n |-> 0]]
<1>1. val[s].str \in DOMAIN Rank /\ val[c].str \in DOMAIN Rank BY DEF IsCalculation, Plain
<1>2. val[s].str = s /\ val[c].str = c BY ConstantIsText
<1>3. order \in Int /\ (order = 0 <=> s = c)
  <2>1. Rank[val[s].str] \in Int /\ Rank[val[c].str] \in Int BY <1>1, KOperandAssumption
  <2>2. Rank[val[s].str] = Rank[val[c].str] => val[s].str = val[c].str BY <1>1, KOperandAssumption
  <2> QED BY <1>2, <2>1, <2>2
<1>4. Compare(e, val[s].str, val[c].str) <=> Compared(e.type, side, order)
  <2>1. <<SymType[s], SymType[c]>> # <<"STRING", "STRING">> BY DEF Plain
  <2>2. \A i \in {1, 2} : expr_parse_string(<<val[s].str, val[c].str>>[i], <<SymType[s], SymType[c]>>[i])
                            = side[i]
    BY ConstantIsText
  <2> QED BY <2>1, <2>2 DEF Compare
<1>5. Compared(e.type, side, order) <=> Holds(e.type, order)
  <2>1. {side[i].kind : i \in {1, 2}} = {"string"}
    <3>1. side[1].kind = "string" /\ side[2].kind = "string" OBVIOUS
    <3> QED BY <3>1
  <2> HIDE DEF side, order
  <2> QED BY <2>1 DEF Compared
<1>6. Holds(e.type, order) <=> ((order = 0) <=> (e.type = "EQUAL"))
  <2> HIDE DEF order
  <2> QED BY <1>3 DEF Holds
<1>7. LeafValue(e, val) = IF Compare(e, val[s].str, val[c].str) THEN 2 ELSE 0 BY DEF LeafValue
<1> HIDE DEF order, side
<1> QED BY <1>3, <1>4, <1>5, <1>6, <1>7

\* The comparisons tell of an expression when they tell of its parts.
LEMMA ToldIs ==
    ASSUME NEW x \in Expr, NEW a
    PROVE  /\ IsTwo(x) => (IsTold(x, a) <=> IsTold(x.left, a) /\ IsTold(x.right, a))
           /\ x.type = "NOT" => (IsTold(x, a) <=> IsTold(x.left, a) /\ expr_calc_value(x.left, a) # 1)
           /\ x.type = "SYMBOL" => (IsTold(x, a) <=> x.sym \in TriSyms \cup {"y", "m", "n"})
<1> DEFINE body(g, y) == CASE IsTwo(y) -> g[y.left] /\ g[y.right]
                           [] y.type = "NOT" -> g[y.left] /\ expr_calc_value(y.left, a) # 1
                           [] y.type = "SYMBOL" -> y.sym \in TriSyms \cup {"y", "m", "n"}
                           [] OTHER -> TRUE
           leaf == [y \in Expr |-> y.type = "SYMBOL" => y.sym \in TriSyms \cup {"y", "m", "n"}]
           neg == [t \in Expr \X BOOLEAN |-> t[2] /\ expr_calc_value(t[1].left, a) # 1]
           two == [t \in Expr \X BOOLEAN \X BOOLEAN |-> t[2] /\ t[3]]
           T == [y \in Expr |-> BOOLEAN]
           told == CHOOSE g : g = [y \in Expr |-> body(g, y)]
<1>1. PICK f : /\ f = [y \in Expr |-> f[y]]
               /\ \A y \in Expr :
                    /\ f[y] \in T[y]
                    /\ f[y] = IF IsTwo(y) THEN two[<<y, f[y.left], f[y.right]>>]
                              ELSE IF y.type = "NOT" THEN neg[<<y, f[y.left]>>] ELSE leaf[y]
  <2>1. \A y \in Expr : T[y] = BOOLEAN OBVIOUS
  <2>2. \A y \in Expr : /\ y.type = "NOT" => y.left \in Expr
                        /\ IsTwo(y) => y.left \in Expr /\ y.right \in Expr
    BY PartsOf
  <2>3. \A y \in Expr : leaf[y] \in BOOLEAN OBVIOUS
  <2>4. \A y \in Expr, r \in BOOLEAN : neg[<<y, r>>] \in BOOLEAN OBVIOUS
  <2>5. \A y \in Expr, r \in BOOLEAN, s \in BOOLEAN : two[<<y, r, s>>] \in BOOLEAN OBVIOUS
  <2> HIDE DEF T, leaf, neg, two
  <2>6. IsFold(T, leaf, neg, two) BY <2>1, <2>2, <2>3, <2>4, <2>5 DEF IsFold
  <2> QED BY <2>6, ExprRecursion
<1>2. \E g : g = [y \in Expr |-> body(g, y)]
  <2>2. ASSUME NEW y \in Expr PROVE f[y] = body(f, y)
    <3>1. IsTwo(y) => f[y.left] \in BOOLEAN /\ f[y.right] \in BOOLEAN BY <1>1, PartsOf
    <3>2. y.type = "NOT" => f[y.left] \in BOOLEAN BY <1>1, PartsOf
    <3>3. CASE IsTwo(y) BY <1>1, <3>1, <3>3 DEF IsTwo
    <3>4. CASE y.type = "NOT"
      <4>1. f[y] = neg[<<y, f[y.left]>>] BY <1>1, <3>4 DEF IsTwo
      <4>2. f[y] = (f[y.left] /\ expr_calc_value(y.left, a) # 1) BY <3>2, <3>4, <4>1
      <4> QED BY <3>4, <4>2 DEF IsTwo
    <3>5. CASE y.type = "SYMBOL"
      <4>1. f[y] = leaf[y] BY <1>1, <3>5 DEF IsTwo
      <4>2. leaf[y] = (y.type = "SYMBOL" => y.sym \in TriSyms \cup {"y", "m", "n"}) OBVIOUS
      <4>3. f[y] \in BOOLEAN BY <1>1
      <4>4. f[y] <=> y.sym \in TriSyms \cup {"y", "m", "n"} BY <3>5, <4>1, <4>2
      <4>5. body(f, y) = (y.sym \in TriSyms \cup {"y", "m", "n"}) BY <3>5 DEF IsTwo
      <4> HIDE DEF body
      <4> QED BY <4>3, <4>4, <4>5
    <3>6. CASE ~IsTwo(y) /\ y.type \notin {"NOT", "SYMBOL"}
      <4>1. f[y] = leaf[y] BY <1>1, <3>6
      <4>2. leaf[y] = TRUE BY <3>6
      <4>3. body(f, y) = TRUE BY <3>6
      <4> QED BY <4>1, <4>2, <4>3
    <3> QED BY <3>3, <3>4, <3>5, <3>6
  <2> HIDE DEF body
  <2>3. f = [y \in Expr |-> body(f, y)] BY <1>1, <2>2
  <2> QED BY <2>3
<1> HIDE DEF body
<1>3. \A y \in Expr : told[y] = body(told, y) BY <1>2
<1>4. \A y : IsTold(y, a) = told[y] BY DEF IsTold, told, body
<1> HIDE DEF told
<1>5. x.type \in {"NOT", "SYMBOL"} => ~IsTwo(x) BY DEF IsTwo
<1> QED BY <1>3, <1>4, <1>5 DEF body

\* Then they have the answer.
LEMMA AsksMeans ==
    ASSUME NEW x \in NF, NEW a, IsCalculation(a), IsTold(x, a), NEW t \in Either
    PROVE  expr_calc_value(Asks(x, t), a) =
             IF (expr_calc_value(x, a) = 0) <=> (t = "EQUAL") THEN 2 ELSE 0
<1> DEFINE V(y) == expr_calc_value(y, a)
           P == {y \in NF : IsTold(y, a) =>
                   \A u \in Either : V(Asks(y, u)) = IF (V(y) = 0) <=> (u = "EQUAL") THEN 2 ELSE 0}
<1>a. IsAssignment(a) BY CalculationAssigns
<1>e. "EQUAL" \in Either BY DEF Either
<1>s. ASSUME NEW y \in Symbols, IsTold(y, a), NEW u \in Either
      PROVE  LeafCompare(y, u) \in Leaf /\ V(LeafCompare(y, u)) = IF (V(y) = 0) <=> (u = "EQUAL") THEN 2 ELSE 0
  <2> DEFINE z == Comp(u, y.sym, "n")
             s == y.sym
  <2>1. y \in Atom /\ y \in Leaf /\ y.type = "SYMBOL" BY <1>s DEF Leaf, Atom, Symbols
  <2>2. y \in Expr /\ y # NoExpr BY <2>1, LeafAnywhere
  <2>3. LeafCompare(y, u) = z BY <2>1 DEF LeafCompare, Compares
  <2>4. s \in KnownSyms /\ "n" \in KnownSyms \ NumberSyms
    BY <2>1, AtomSyms, KOperandAssumption DEF KnownSyms, NumberSyms
  <2>5. z \in Comparings BY <1>s, <2>4 DEF Comparings, Comp, Either, Compares
  <2>6. z \in Atom /\ z \in Leaf BY <2>5 DEF Leaf, Atom
  <2>7. z.type = u /\ z.sym = s /\ z.sym2 = "n" /\ u \in {"EQUAL", "UNEQUAL"} BY <1>s DEF Comp, Either
  <2> HIDE DEF z
  <2>8. z \in Expr BY <2>6, LeafAnywhere
  <2>9. V(z) = LeafValue(z, a) /\ V(y) = LeafValue(y, a) BY <1>a, <2>1, <2>2, <2>6, <2>8, Value
  <2>10. LeafValue(y, a) = a[s].tri BY <2>1 DEF LeafValue
  <2>11. s \in TriSyms \cup {"y", "m", "n"} BY <1>s, <2>1, <2>2, ToldIs
  <2>p. {"y", "m", "n"} \subseteq Plain BY ConstantsArePlain
  <2> HIDE DEF V, s
  <2>12. CASE s \in TriSyms
    <3>1. s \in Tristates BY <2>12 DEF Tristates, TriSyms, KnownSyms
    <3>2. LeafValue(z, a) = IF (a[s].str = "n") <=> (u = "EQUAL") THEN 2 ELSE 0
      BY <2>7, <2>p, <3>1, ComparedByName
    <3>3. a[s].str = "n" <=> a[s].tri = 0 BY <3>1, ValueByName
    <3> QED BY <2>3, <2>6, <2>9, <2>10, <3>2, <3>3
  <2>13. CASE s \in {"y", "m", "n"}
    <3>1. LeafValue(z, a) = IF (s = "n") <=> (u = "EQUAL") THEN 2 ELSE 0
      BY <2>7, <2>p, <2>13, ConstantsCompared
    <3>2. s = "n" <=> a[s].tri = 0 BY <2>13 DEF IsCalculation
    <3> QED BY <2>3, <2>6, <2>9, <2>10, <3>1, <3>2
  <2> QED BY <2>11, <2>12, <2>13
<1>1. ASSUME NEW y \in Leaf PROVE y \in P
  <2>1. y \in NF /\ y \in Expr /\ y # NoExpr BY LeafIs, NormalParts
  <2> SUFFICES ASSUME IsTold(y, a), NEW u \in Either
               PROVE  V(Asks(y, u)) = IF (V(y) = 0) <=> (u = "EQUAL") THEN 2 ELSE 0
    BY <2>1
  <2>2. CASE y \in Atom /\ y.type = "SYMBOL"
    <3>1. y \in Symbols BY <2>2 DEF Atom, Comparings, Compares
    <3>2. Asks(y, u) = LeafCompare(y, u) BY <2>1, <2>2, AsksIs
    <3> QED BY <1>s, <3>1, <3>2
  <2>3. CASE y \in Atom /\ y.type \in Compares
    <3>1. Asks(y, u) = LeafCompare(y, u) BY <2>1, <2>3, AsksIs
    <3>2. Asks(y, u) = IF u = "EQUAL" THEN Not(y) ELSE y BY <2>3, <3>1 DEF LeafCompare, Compares
    <3>3. V(y) \in {0, 2}
      <4>1. V(y) = LeafValue(y, a) BY <1>a, <2>1, <2>3, Value
      <4>2. y.type \notin {"NONE", "SYMBOL"} BY <2>3 DEF Compares
      <4> QED BY <4>1, <4>2 DEF LeafValue
    <3>4. Asks(y, u) \in Expr BY <2>1, AsksForm
    <3>5. u = "EQUAL" => V(Not(y)) = TriNot(V(y))
      <4>1. Not(y).type = "NOT" /\ Not(y).left = y BY DEF Not
      <4> QED BY <1>a, <3>2, <3>4, <4>1, Value
    <3> HIDE DEF V
    <3> QED BY <3>2, <3>3, <3>5 DEF TriNot, Either
  <2>4. CASE y.type = "NOT" /\ y.left \in Symbols
    <3> DEFINE z == y.left
               o == Other(u)
    <3>1. z \in Atom /\ z \in Leaf BY <2>4 DEF Atom, Leaf
    <3>2. z \in Expr BY <3>1, LeafAnywhere
    <3>3. o \in Either /\ (o = "EQUAL" <=> u # "EQUAL") BY DEF Other, Either
    <3>4. Asks(y, u) = Asks(z, o) BY <2>1, <2>4, AsksIs
    <3>5. Asks(z, o) = LeafCompare(z, o) BY <3>1, <3>2, <3>3, AsksIs
    <3>6. IsTold(z, a) /\ V(z) # 1 BY <2>1, <2>4, ToldIs
    <3>7. V(LeafCompare(z, o)) = IF (V(z) = 0) <=> (o = "EQUAL") THEN 2 ELSE 0
      BY <1>s, <2>4, <3>3, <3>6
    <3>8. V(y) = TriNot(V(z)) /\ V(z) \in 0..2 BY <1>a, <2>1, <2>4, <3>2, Value
    <3> HIDE DEF V, z, o
    <3> QED BY <3>3, <3>4, <3>5, <3>6, <3>7, <3>8 DEF TriNot
  <2> QED BY <2>1, <2>2, <2>3, <2>4, LeafIs, PartsOf
<1>2. ASSUME NEW y \in NF, IsTwo(y), y.left \in P, y.right \in P PROVE y \in P
  <2> SUFFICES ASSUME IsTold(y, a), NEW u \in Either
               PROVE  V(Asks(y, u)) = IF (V(y) = 0) <=> (u = "EQUAL") THEN 2 ELSE 0
    OBVIOUS
  <2> DEFINE l == Asks(y.left, "EQUAL")
             r == Asks(y.right, "EQUAL")
             d == Dual(y.type)
             b == Two(d, l, r)
             x1 == y.left
             x2 == y.right
  <2>1. y \in Expr /\ x1 \in NF /\ x2 \in NF /\ y.type \in {"AND", "OR"} BY <1>2, NormalParts
  <2>2. IsTold(x1, a) /\ IsTold(x2, a) BY <1>2, <2>1, ToldIs
  <2>3. /\ V(l) = IF V(x1) = 0 THEN 2 ELSE 0
        /\ V(r) = IF V(x2) = 0 THEN 2 ELSE 0
    BY <1>2, <1>e, <2>2
  <2>4. Asks(y, u) = Flipped(u, b) BY <1>2, <2>1, AsksIs
  <2>5. b.type = d /\ b.left = l /\ b.right = r /\ d \in {"AND", "OR"} /\ d # y.type
    BY <2>1 DEF Two, Dual
  <2>6. x1 \in Expr /\ x2 \in Expr BY <2>1, NormalParts
  <2>7. V(x1) \in 0..2 /\ V(x2) \in 0..2 /\ V(y) = Op(y.type, V(x1), V(x2))
    BY <1>2, <2>1, <2>6, ValueTwo
  <2>8. Asks(y, "EQUAL") = b /\ b \in Expr /\ Asks(y, u) \in Expr
    <3>1. Asks(y, "EQUAL") = b BY <1>2, <1>e, <2>1, AsksIs DEF Flipped
    <3>2. Asks(y, "EQUAL") \in Expr /\ Asks(y, u) \in Expr BY <1>e, AsksForm
    <3> QED BY <3>1, <3>2
  <2> HIDE DEF b, l, r, d
  <2>9. V(b) = Op(d, V(l), V(r)) BY <2>5, <2>8, ValueTwo DEF IsTwo
  <2>10. V(b) = IF V(y) = 0 THEN 2 ELSE 0
    <3> HIDE DEF V, x1, x2
    <3> QED BY <2>1, <2>3, <2>5, <2>7, <2>9 DEF Op, TriMin, TriMax
  <2>11. CASE u = "EQUAL"
    <3>1. Asks(y, u) = b BY <2>4, <2>11 DEF Flipped
    <3> HIDE DEF V
    <3> QED BY <2>10, <2>11, <3>1
  <2>12. CASE u = "UNEQUAL"
    <3>1. Asks(y, u) = Not(b) BY <2>4, <2>12 DEF Flipped
    <3>2. Not(b).type = "NOT" /\ Not(b).left = b BY DEF Not
    <3>3. V(Not(b)) = TriNot(V(b)) BY <1>a, <2>8, <3>1, <3>2, Value
    <3> HIDE DEF V
    <3> QED BY <2>10, <2>12, <3>1, <3>3 DEF TriNot
  <2> QED BY <2>11, <2>12 DEF Either
<1>3. NF \subseteq P
  <2> HIDE DEF P
  <2> QED BY <1>1, <1>2, NormalInduction
<1> QED BY <1>3

-----------------------------------------------------------------------------
(* Entries under others.                                                   *)

\* What is compared in the end is y where e is not n, and n where it is.
LEMMA ComparisonsMean ==
    ASSUME NEW e \in NF \cup {NoExpr}
    PROVE  /\ Comparisons(e) \in NF
           /\ \A a : IsCalculation(a) /\ IsTold(e, a) =>
                expr_calc_value(Comparisons(e), a) = IF expr_calc_value(e, a) = 0 THEN 0 ELSE 2
<1> DEFINE c == Asks(e, "UNEQUAL")
           f == expr_transform(c)
           d == expr_eliminate_dups(f)
<1>0. "UNEQUAL" \in Either BY DEF Either
<1>1. /\ c \in Expr /\ c # NoExpr /\ Size(c) \in 1..MaxOperands
      /\ \A a : IsCalculation(a) /\ IsTold(e, a) =>
           expr_calc_value(c, a) = IF expr_calc_value(e, a) = 0 THEN 0 ELSE 2
  <2>1. CASE e \in NF
    <3>1. c \in Expr /\ c # NoExpr /\ Size(c) = Size(e) BY <1>0, <2>1, AsksForm
    <3>2. Size(e) \in 1..MaxOperands BY <2>1, NormalParts
    <3>3. \A a : IsCalculation(a) /\ IsTold(e, a) =>
            expr_calc_value(c, a) = IF (expr_calc_value(e, a) = 0) <=> ("UNEQUAL" = "EQUAL") THEN 2 ELSE 0
      BY <1>0, <2>1, AsksMeans
    <3> HIDE DEF c
    <3> QED BY <3>1, <3>2, <3>3
  <2>2. CASE e = NoExpr
    <3> DEFINE n == SymbolExpr("n")
    <3>1. e \in Expr BY <2>2 DEF Expr
    <3>2. n \in Leaf /\ n \in Expr /\ n.type = "SYMBOL" BY ConstantIs DEF SymbolExpr
    <3>3. n \in Symbols BY <3>2, LeafIs DEF Atom, Comparings, Compares
    <3>4. Not(n) \in Leaf BY <3>3 DEF Leaf
    <3>5. Not(n).type = "NOT" /\ Not(n).left = n BY DEF Not
    <3>6. c = Not(n)
      <4>1. c = LeafCompare(e, "UNEQUAL") BY <1>0, <2>2, <3>1, AsksIs
      <4> QED BY <2>2, <4>1 DEF LeafCompare, NoExpr, Flipped
    <3>7. c \in Expr /\ c # NoExpr /\ Size(c) = 1 BY <3>4, <3>6, LeafAnywhere
    <3>8. 1 \in 1..MaxOperands BY KExprAssumption
    <3>9. ASSUME NEW a, IsCalculation(a) PROVE expr_calc_value(c, a) = 2 /\ expr_calc_value(e, a) = 2
      <4>1. IsAssignment(a) BY <3>9, CalculationAssigns
      <4>2. expr_calc_value(n, a) = 0
        <5>1. expr_calc_value(n, a) = LeafValue(n, a) BY <3>2, <3>3, <4>1, Value DEF Atom
        <5>2. a["n"].tri = 0 BY <3>9 DEF IsCalculation
        <5> QED BY <5>1, <5>2 DEF LeafValue, SymbolExpr
      <4>3. expr_calc_value(c, a) = TriNot(expr_calc_value(n, a))
        <5> HIDE DEF c, n
        <5> QED BY <3>5, <3>6, <3>7, <4>1, Value
      <4>4. expr_calc_value(e, a) = LeafValue(e, a) BY <2>2, <3>1, <4>1, Value
      <4> QED BY <2>2, <4>2, <4>3, <4>4 DEF LeafValue, NoExpr, TriNot
    <3> HIDE DEF c
    <3> QED BY <3>7, <3>8, <3>9
  <2> QED BY <2>1, <2>2
<1> HIDE DEF c
<1>2. f \in Normalized(c) BY <1>1, TransformNormalizes
<1>3. f \in NF /\ Same(f, c)
  <2>1. f \in Expr /\ f # NoExpr /\ IsNormal(f) /\ Size(f) = Size(c) /\ Same(f, c)
    BY <1>1, <1>2 DEF Normalized
  <2>2. Size(f) <= MaxOperands BY <1>1, <2>1
  <2> QED BY <2>1, <2>2 DEF NF, NormalForms
<1> HIDE DEF f
<1>4. d \in NF /\ Same(f, d) BY <1>3, DupsKeepTheValue DEF LeftOf
<1>5. Comparisons(e) = d BY DEF Comparisons, Asks, c, f
<1>6. Same(c, d) BY <1>3, <1>4 DEF Same
<1> HIDE DEF d
<1> QED BY <1>1, <1>4, <1>5, <1>6 DEF Same

\* What covers a condition is not visible without it.
LEMMA SupersetCovers ==
    ASSUME NEW e \in NF \cup {NoExpr}, NEW b \in NF \cup {NoExpr}, Superset(e, b),
           NEW a, IsCalculation(a), IsTold(e, a), IsTold(b, a), expr_calc_value(e, a) # 0
    PROVE  expr_calc_value(b, a) # 0
<1> DEFINE x == Comparisons(e)
           y == Comparisons(b)
           p == expr_eliminate_eq(x, y)
           V(z) == expr_calc_value(z, a)
<1>1. /\ x \in NF /\ V(x) = IF V(e) = 0 THEN 0 ELSE 2
      /\ y \in NF /\ V(y) = IF V(b) = 0 THEN 0 ELSE 2
  BY ComparisonsMean
<1>2. expr_is_yes(p[2]) BY DEF Superset
<1> HIDE DEF x, y
<1>3. p \in SmallerPair(x, y) /\ Follows(x, y, p) BY <1>1, EliminateEqFollows
<1> HIDE DEF p
<1>4. p[1] \in NF /\ p[2] \in NF BY <1>3 DEF SmallerPair
<1>5. p[1] \in Expr /\ p[2] \in Expr /\ p[2] # NoExpr BY <1>4, NormalParts
<1>6. p[2] = SymbolExpr("y") BY <1>2, <1>5, ConstantIs DEF expr_is_yes
<1>7. V(p[2]) = 2
  <2>1. \A val : IsCalculation(val) =>
          expr_calc_value(SymbolExpr("y"), val) = CASE "y" = "n" -> 0 [] "y" = "m" -> 1 [] "y" = "y" -> 2
    BY ConstantIs
  <2> QED BY <1>6, <2>1
<1>8. V(p[1]) \in 0..2 BY <1>5, ValueTwo
<1>9. V(p[1]) <= V(p[2]) BY <1>7, <1>8
<1>10. V(x) <= V(y) BY <1>3, <1>9 DEF Follows
<1> HIDE DEF V
<1>11. V(e) # 0 BY DEF V
<1>12. V(b) # 0 BY <1>1, <1>10, <1>11
<1> QED BY <1>12 DEF V

\* An entry is put under another only when it cannot be visible without it,
\* wherever the comparisons tell: for every condition and every parent's
\* (menu_finalize, menu.c:449-480).
THEOREM CondCoveredNeedsIt == CondSpec => []CoveredNeedsIt
<1>1. CondInv => CoveredNeedsIt
  <2> SUFFICES ASSUME CondInv, Simplified, Superset(dep, parent), NEW a \in Assignments,
                      IsTold(dep, a), IsTold(parent, a), expr_calc_value(dep, a) # 0
               PROVE  expr_calc_value(parent, a) # 0
    BY DEF CoveredNeedsIt
  <2>1. IsCalculation(a) BY ConditionsAssumption
  <2>2. dep \in NF /\ cond \in Written /\ parent \in Parents BY DEF CondInv
  <2>3. parent \in NF \cup {NoExpr}
    <3>1. parent \in Expr /\ IsNormal(parent) BY <2>2, ConditionsAssumption
    <3>2. Size(parent) + Size(rewrite_m(cond, ModulesSym)) <= MaxOperands
      BY <2>2, ConditionsAssumption
    <3>3. Size(parent) \in Nat /\ Size(rewrite_m(cond, ModulesSym)) \in Nat
      BY <2>2, <3>1, RewrittenIs, SizeIs
    <3>4. Size(parent) <= MaxOperands BY <3>2, <3>3, KExprAssumption
    <3> QED BY <3>1, <3>4 DEF NF, NormalForms
  <2> QED BY <2>1, <2>2, <2>3, SupersetCovers
<1> QED BY <1>1, CondInvHolds, PTL
=============================================================================
