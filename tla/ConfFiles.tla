----------------------------- MODULE ConfFiles ------------------------------
(***************************************************************************)
(* The files of a configuration, step by step: conf_write() replaces       *)
(* .config, conf_write_autoconf() makes what the build reads (confdata.c), *)
(* and a process may be killed between any two calls of the operating      *)
(* system.  What the values mean is KConfData's; here a configuration only *)
(* gives each symbol a value, and a file holds one or something less.      *)
(* One process works at a time: menuconfig (mconf.c) or conf --syncconfig, *)
(* which make runs when auto.conf is older than .config.                   *)
(***************************************************************************)
EXTENDS Naturals, FiniteSets

CONSTANTS Syms,     \* the symbols
          Values,   \* the values a symbol may be written with
          No,       \* the value n of a tristate symbol
          Absent,   \* of a symbol that is not written: it is not visible
          Missing,  \* what stands in a file: there is none,
          Partial,  \* it was opened and not closed,
          Hollow    \* or it was closed and no symbol was written

Configs == [Syms -> Values]

ASSUME ConfFilesAssumption ==
    /\ No \in Values /\ Absent \in Values /\ No # Absent
    /\ {Missing, Partial, Hollow} \cap Configs = {}

\* auto.conf and the header leave out what is n (kconfig_print_symbol with an
\* argument, header_print_symbol).
AutoText(c) == [s \in Syms |-> IF c[s] = No THEN Absent ELSE c[s]]

VARIABLES
    config, old,        \* .config and .config.old
    tmp,                \* .tmpconfig.<pid> of the process that runs
    autoconf, tristate, header,   \* auto.conf, tristate.conf, autoconf.h
    tmps,               \* its .tmpconfig, .tmpconfig_tristate and .tmpconfig.h
    newer,              \* auto.conf is not older than .config
    touched,            \* the symbols whose file was touched since the build used it
    built,              \* the values the built objects were made with
    prog, pc,           \* the process that runs and where it is
    mem, changed,       \* its values and sym_change_count # 0
    marked,             \* its symbols have SYMBOL_WRITE
    overwrite,          \* KCONFIG_OVERWRITECONFIG is set
    saved, failed       \* history: a .config was completed; a rename failed

files == <<config, old, tmp, autoconf, tristate, header, tmps, newer, touched, built>>
process == <<prog, pc, mem, changed, marked>>
vars == <<files, process, overwrite, saved, failed>>

Nowhere == /\ prog' = "none" /\ pc' = "none" /\ mem' = [s \in Syms |-> No]
           /\ changed' = FALSE /\ marked' = TRUE

Init == /\ config = Missing /\ old = Missing /\ tmp = Missing
        /\ autoconf = Missing /\ tristate = Missing /\ header = Missing
        /\ tmps = Missing
        /\ newer = FALSE /\ touched = {} /\ built = [s \in Syms |-> Absent]
        /\ prog = "none" /\ pc = "none" /\ mem = [s \in Syms |-> No]
        /\ changed = FALSE /\ marked = TRUE
        /\ overwrite \in BOOLEAN /\ saved = FALSE /\ failed = FALSE

(***************************************************************************)
(* Programs.  conf_read() takes the values of a whole file as they are,    *)
(* unless the Kconfig files have changed; then, and when something is      *)
(* missing, there is something to save.                                    *)
(***************************************************************************)
Read == /\ mem' \in Configs
        /\ changed' = (mem' # config)
        /\ marked' = TRUE

menuconfig == /\ prog = "none" /\ prog' = "mconf" /\ pc' = "edit"
              /\ Read
              /\ UNCHANGED <<files, overwrite, saved, failed>>

\* conf --syncconfig: without .config, or with a change that may not be
\* silent, there is nothing it does.
syncconfig == /\ prog = "none" /\ prog' = "conf"
              /\ config # Missing
              /\ Read
              /\ pc' = IF changed' THEN "save" ELSE "autoconf"
              /\ UNCHANGED <<files, overwrite, saved, failed>>

\* A value is set: all are calculated, and marked, again.
Edit == /\ pc = "edit"
        /\ mem' \in Configs \ {mem}
        /\ changed' = TRUE /\ marked' = TRUE
        /\ UNCHANGED <<files, prog, pc, overwrite, saved, failed>>

\* The user saves, or leaves and saves.
Save == /\ pc = "edit" /\ pc' = "save"
        /\ UNCHANGED <<files, prog, mem, changed, marked, overwrite, saved, failed>>

\* The process ends: it is done, it gives up, or it is killed.  Its temporary
\* files stay, but no other process reads them.
End == /\ prog # "none"
       /\ Nowhere /\ tmp' = Missing /\ tmps' = Missing
       /\ UNCHANGED <<config, old, autoconf, tristate, header, newer, touched, built,
                      overwrite, saved, failed>>

(***************************************************************************)
(* conf_write().                                                           *)
(***************************************************************************)
\* The new file is opened, which empties it; values that are not changed are
\* calculated, and marked, again.
OpenConfig ==
    /\ pc = "save" /\ pc' = "write"
    /\ IF overwrite THEN config' = Partial /\ newer' = FALSE /\ UNCHANGED tmp
       ELSE tmp' = Partial /\ UNCHANGED <<config, newer>>
    /\ marked' = (marked \/ ~changed)
    /\ UNCHANGED <<old, autoconf, tristate, header, tmps, touched, built, prog, mem, changed,
                   overwrite, saved, failed>>

\* It cannot be opened: menuconfig goes on; conf gives up (End).
CannotOpen == /\ pc = "save" /\ prog = "mconf" /\ pc' = "edit"
              /\ UNCHANGED <<files, prog, mem, changed, marked, overwrite, saved, failed>>

\* It is written and closed.  Each symbol loses its mark.
WriteConfig ==
    LET text == IF marked THEN mem ELSE Hollow
    IN  /\ pc = "write"
        /\ marked' = FALSE
        /\ IF overwrite
           THEN /\ config' = text /\ saved' = (saved \/ marked) /\ UNCHANGED tmp
                /\ changed' = FALSE
                /\ pc' = IF prog = "conf" THEN "autoconf" ELSE "edit"
           ELSE /\ tmp' = text /\ pc' = "keep" /\ UNCHANGED <<config, saved, changed>>
        /\ UNCHANGED <<old, autoconf, tristate, header, tmps, newer, touched, built, prog, mem,
                       overwrite, failed>>

\* Mutant: the old file is removed first.
KeepOld_Removed == /\ pc = "keep" /\ pc' = "install"
                   /\ config' = Missing /\ UNCHANGED old
                   /\ UNCHANGED <<tmp, autoconf, tristate, header, tmps, newer, touched, built,
                                  prog, mem, changed, marked, overwrite, saved, failed>>
\* .config becomes .config.old; that there may be none is ignored.
KeepOld == /\ pc = "keep" /\ pc' = "install"
           /\ IF config = Missing THEN UNCHANGED <<config, old>>
              ELSE config' = Missing /\ old' = config
           /\ UNCHANGED <<tmp, autoconf, tristate, header, tmps, newer, touched, built,
                          prog, mem, changed, marked, overwrite, saved, failed>>

\* The new file becomes .config, and nothing is left to save.
Install == /\ pc = "install"
           /\ config' = tmp /\ tmp' = Missing /\ newer' = FALSE
           /\ saved' = (saved \/ tmp \in Configs)
           /\ changed' = FALSE
           /\ pc' = IF prog = "conf" THEN "autoconf" ELSE "edit"
           /\ UNCHANGED <<old, autoconf, tristate, header, tmps, touched, built, prog, mem,
                          marked, overwrite, failed>>

\* A rename fails: menuconfig goes on with what it has, conf gives up.
CannotInstall == /\ pc = "install" /\ failed' = TRUE
                 /\ IF prog = "mconf" THEN pc' = "edit" /\ UNCHANGED <<prog, mem, changed, marked>>
                    ELSE Nowhere
                 /\ UNCHANGED <<files, overwrite, saved>>

(***************************************************************************)
(* conf_write_autoconf().                                                  *)
(***************************************************************************)
\* Mutant: a symbol that is gone from the configuration is not compared.
Differs_WrittenOnly(s, before) ==
    LET had == before # Missing /\ before[s] # Absent
    IN  mem[s] # Absent /\ IF had THEN mem[s] # before[s] ELSE mem[s] # No
\* conf_split_config(): a symbol has a new value, compared with auto.conf.
Differs(s, before) ==
    LET had == before # Missing /\ before[s] # Absent
    IN  IF mem[s] # Absent THEN (IF had THEN mem[s] # before[s] ELSE mem[s] # No)
        ELSE had

\* Those that are left; to touch a file again changes nothing.
ToTouch == {s \in Syms : Differs(s, autoconf)} \ touched

\* The file of one of them is touched; the order is that of the hash table.
Touch(s) == /\ pc = "autoconf" /\ s \in ToTouch
            /\ touched' = touched \cup {s}
            /\ UNCHANGED <<config, old, tmp, autoconf, tristate, header, tmps, newer, built,
                           process, overwrite, saved, failed>>

\* The three temporary files are opened, and written.
OpenAuto == /\ pc = "autoconf" /\ ToTouch = {} /\ pc' = "autowrite"
            /\ tmps' = Partial
            /\ UNCHANGED <<config, old, tmp, autoconf, tristate, header, newer, touched, built,
                           prog, mem, changed, marked, overwrite, saved, failed>>

WriteAuto == /\ pc = "autowrite" /\ pc' = "header" /\ tmps' = AutoText(mem)
             /\ UNCHANGED <<config, old, tmp, autoconf, tristate, header, newer, touched, built,
                            prog, mem, changed, marked, overwrite, saved, failed>>

InstallHeader == /\ pc = "header" /\ pc' = "tristate" /\ header' = tmps
                 /\ UNCHANGED <<config, old, tmp, autoconf, tristate, tmps, newer, touched, built,
                                prog, mem, changed, marked, overwrite, saved, failed>>

InstallTristate == /\ pc = "tristate" /\ pc' = "auto" /\ tristate' = tmps
                   /\ UNCHANGED <<config, old, tmp, autoconf, header, tmps, newer, touched, built,
                                  prog, mem, changed, marked, overwrite, saved, failed>>

\* "This must be the last step, kbuild has a dependency on auto.conf and this
\* marks the successful completion of the previous steps."
InstallAuto == /\ pc = "auto" /\ autoconf' = tmps /\ newer' = TRUE
               /\ Nowhere /\ tmps' = Missing
               /\ UNCHANGED <<config, old, tmp, tristate, header, touched, built,
                              overwrite, saved, failed>>

(***************************************************************************)
(* The build: auto.conf is not older than .config, so syncconfig is not    *)
(* run, and the objects of the symbols whose files were touched are made   *)
(* again.                                                                  *)
(***************************************************************************)
Build == /\ prog = "none" /\ config # Missing /\ newer /\ touched # {}
         /\ built' = [s \in Syms |-> IF s \in touched THEN header[s] ELSE built[s]]
         /\ touched' = {}
         /\ UNCHANGED <<config, old, tmp, autoconf, tristate, header, tmps, newer,
                        process, overwrite, saved, failed>>

Next == \/ menuconfig \/ syncconfig \/ Edit \/ Save \/ End
        \/ OpenConfig \/ CannotOpen \/ WriteConfig \/ KeepOld \/ Install \/ CannotInstall
        \/ \E s \in Syms : Touch(s)
        \/ OpenAuto \/ WriteAuto \/ InstallHeader \/ InstallTristate \/ InstallAuto
        \/ Build

Spec == Init /\ [][Next]_vars

\* Once a configuration was saved there is one on the disk, whole, at every
\* moment a process may be killed, and whatever the next one makes of what it
\* finds: in .config, or in .config.old.  A rename that fails ends that, as
\* does KCONFIG_OVERWRITECONFIG.
AConfigIsKept == saved /\ ~overwrite /\ ~failed => config \in Configs \/ old \in Configs

\* What make takes for granted when auto.conf is not older than .config: the
\* files of the build all say what .config says, and what was built says so
\* too, but for the symbols whose file it will find touched.  For every
\* history of saves, builds and killed processes before.
UpToDateIsTrue ==
    newer /\ config # Missing =>
        /\ config \in Configs
        /\ autoconf = AutoText(config) /\ tristate = AutoText(config) /\ header = AutoText(config)
        /\ \A s \in Syms \ touched : built[s] = AutoText(config)[s]
=============================================================================
