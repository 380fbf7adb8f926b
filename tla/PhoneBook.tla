----------------------------- MODULE PhoneBook ------------------------------
(***************************************************************************)
(* The contacts database and the programs that use it: init_databases at   *)
(* boot (core/main.py), the PhoneBook app with its shared contact selector *)
(* (apps/PhoneBook), and the seeding tool a developer runs from a shell    *)
(* beside the phone (tools/debug_phonebook_createrandomcontacts.py).       *)
(*                                                                         *)
(* Each SQL statement the programs commit is one step; what they fetched   *)
(* before it may be out of date when it runs.  Between two steps the       *)
(* other program may run, the database may be locked or the disk full, and *)
(* the power may go.  Text typed into a TextInput is one step: what it     *)
(* returns is a text, possibly empty, or nothing when it was cancelled.    *)
(***************************************************************************)
EXTENDS Integers, FiniteSets

CONSTANTS Names,        \* names a contact may have
          Numbers,      \* phone numbers
          Empty,        \* the empty text
          Support,      \* the contact seeded at boot
          Queries,      \* texts typed into Search
          Matches,      \* which names a query finds (LIKE '%query%')
          Tool,         \* whether the seeding tool is used
          Batch,        \* how many contacts the tool is told to add
          MaxId         \* bound: identifiers the database issues

Entry == [name : Names \cup {Empty}, number : Numbers \cup {Empty}]

ASSUME PhoneBookAssumption ==
    /\ Empty \notin Names \cup Numbers \cup Queries
    /\ Support \in Entry
    /\ Matches \in [Queries -> SUBSET Names]
    /\ Tool \in BOOLEAN
    /\ Batch \in Nat
    /\ MaxId \in Nat

VARIABLES
    contacts,    \* the table: a function from id to the row's name and number
    seq,         \* the last id issued (sqlite_sequence of AUTOINCREMENT)
    table,       \* the table has been created
    at,          \* where the phone's thread is
    purpose,     \* what the open selector is for
    listed,      \* the rows the selector fetched
    target,      \* the id of the row picked from it
    typed,       \* the first of the two texts of a form
    tool,        \* where the tool is
    known,       \* the names the tool read from the table
    emptied      \* history: contacts were deleted since the last boot

database == <<contacts, seq, table>>
form     == <<purpose, listed, target, typed>>
seeder   == <<tool, known>>
vars     == <<database, at, form, seeder, emptied>>

\* Screens that act on the picked row.
Holding == {"options", "calling", "edit_name", "edit_number", "erase"}
BootPoints == {"boot", "count", "seed"}
AppPoints == {"home", "menu", "search", "selector", "list", "add_name", "add_number",
              "saved", "updated", "erased"} \cup Holding
Points == BootPoints \cup AppPoints \cup {"crashed"}

\* A set of rows, by id; every id was issued by the database.
IsRows(f) == DOMAIN f \subseteq 1..seq /\ f \in [DOMAIN f -> Entry]

TypeOK ==
    /\ seq \in 0..MaxId
    /\ IsRows(contacts)
    /\ table \in BOOLEAN
    /\ at \in Points
    /\ purpose \in {"options", "edit", "erase"}
    /\ IsRows(listed)
    /\ target \in IF at \in Holding \cup {"updated", "erased"} THEN DOMAIN listed ELSE {0}
    /\ typed \in CASE at = "selector"                        -> Queries \cup {Empty}
                   [] at \in {"add_number", "saved"}         -> Names
                   [] at \in {"edit_number", "updated"}      -> Names \cup {Empty}
                   [] OTHER                                  -> {Empty}
    /\ tool \in {"idle", "truncate", "read", "fetch", "insert"}
    /\ known \subseteq Names
    /\ emptied \in BOOLEAN

NoRows == [id \in {} |-> Support]

Init ==
    /\ contacts = NoRows
    /\ seq = 0
    /\ table = FALSE
    /\ at = "boot"
    /\ purpose = "options"
    /\ listed = NoRows
    /\ target = 0
    /\ typed = Empty
    /\ tool = "idle"
    /\ known = {}
    /\ emptied = FALSE

-----------------------------------------------------------------------------
(* The statements.                                                         *)

\* Fault: ids are not AUTOINCREMENT; SQLite then goes on from the largest id
\* in the table.
Insert_ReusesIds(rows, n) ==
    LET last == IF DOMAIN contacts = {} THEN 0
                ELSE CHOOSE i \in DOMAIN contacts : \A j \in DOMAIN contacts : j <= i
    IN /\ contacts' = [id \in DOMAIN contacts \cup (last + 1)..(last + n) |->
                          IF id \in DOMAIN contacts THEN contacts[id] ELSE rows[id - last]]
       /\ last + n <= MaxId
       /\ seq' = IF last + n > seq THEN last + n ELSE seq

\* INSERT of n rows in one transaction: AUTOINCREMENT never reuses an id.
Insert(rows, n) ==
    /\ seq + n <= MaxId
    /\ seq' = seq + n
    /\ contacts' = [id \in DOMAIN contacts \cup (seq + 1)..(seq + n) |->
                       IF id \in DOMAIN contacts THEN contacts[id] ELSE rows[id - seq]]

Update(i, entry) ==
    contacts' = [id \in DOMAIN contacts |-> IF id = i THEN entry ELSE contacts[id]]

Delete(ids) == contacts' = [id \in DOMAIN contacts \ ids |-> contacts[id]]

Go(point) == at' = point

\* The locals of the form or menu that is left are gone.
LeaveTo(point) ==
    /\ Go(point)
    /\ purpose' = "options"
    /\ listed' = NoRows
    /\ target' = 0
    /\ typed' = Empty

Stay(ids) == [id \in DOMAIN contacts \cap ids |-> contacts[id]]

-----------------------------------------------------------------------------
(* Boot: init_databases.  CREATE TABLE commits by itself, so a power cut   *)
(* can leave a table without the default contact.                          *)

\* Fault: the default contact is added only when the table is new.
CreateTable_SeedsOnce ==
    /\ at = "boot"
    /\ Go(IF table THEN "home" ELSE "count")
    /\ table' = TRUE
    /\ UNCHANGED <<contacts, seq, form, seeder, emptied>>

CreateTable ==
    /\ at = "boot"
    /\ Go("count")
    /\ table' = TRUE
    /\ UNCHANGED <<contacts, seq, form, seeder, emptied>>

CountContacts ==
    /\ at = "count"
    /\ Go(IF DOMAIN contacts = {} THEN "seed" ELSE "home")
    /\ UNCHANGED <<database, form, seeder, emptied>>

SeedDefault ==
    /\ at = "seed"
    /\ Insert(<<Support>>, 1)
    /\ Go("home")
    /\ UNCHANGED <<table, form, seeder, emptied>>

\* None of the three statements is guarded.
BootFails ==
    /\ at \in BootPoints
    /\ Go("crashed")
    /\ UNCHANGED <<database, form, seeder, emptied>>

-----------------------------------------------------------------------------
(* The PhoneBook app: its menu, Search and the selector.                   *)

OpenApp ==
    /\ at = "home"
    /\ Go("menu")
    /\ UNCHANGED <<database, form, seeder, emptied>>

MenuChoice ==
    /\ at = "menu"
    /\ \/ Go("home")
       \/ Go("search")
       \/ Go("add_name")
    /\ UNCHANGED <<database, form, seeder, emptied>>

\* Edit and Erase list the whole table.
MenuSelect ==
    /\ at = "menu"
    /\ purpose' \in {"edit", "erase"}
    /\ typed' = Empty
    /\ Go("selector")
    /\ UNCHANGED <<database, listed, target, seeder, emptied>>

Search ==
    /\ at = "search"
    /\ \/ LeaveTo("menu")
       \/ /\ typed' \in Queries
          /\ Go("selector")
          /\ UNCHANGED <<purpose, listed, target>>
    /\ UNCHANGED <<database, seeder, emptied>>

\* get_all_contacts: with no rows a notice is shown and the selector is left.
FetchList ==
    /\ at = "selector"
    /\ LET found == IF typed = Empty THEN DOMAIN contacts
                    ELSE {id \in DOMAIN contacts : contacts[id].name \in Matches[typed]}
       IN \/ found = {} /\ LeaveTo("menu")
          \/ /\ found # {}
             /\ listed' = Stay(found)
             /\ typed' = Empty
             /\ Go("list")
             /\ UNCHANGED <<purpose, target>>
    /\ UNCHANGED <<database, seeder, emptied>>

\* Nothing in the app catches a failing SELECT, nor does launch_app.
FetchFails ==
    /\ at = "selector"
    /\ LeaveTo("crashed")
    /\ UNCHANGED <<database, seeder, emptied>>

Pick ==
    /\ at = "list"
    /\ \/ LeaveTo("menu")
       \/ /\ target' \in DOMAIN listed
          /\ Go(CASE purpose = "options" -> "options"
                  [] purpose = "edit"    -> "edit_name"
                  [] purpose = "erase"   -> "erase")
          /\ UNCHANGED <<purpose, listed, typed>>
    /\ UNCHANGED <<database, seeder, emptied>>

\* The options of a contact found by Search.  Call and Send number show a
\* screen for a while and come back; neither talks to the modem.
Options ==
    /\ at = "options"
    /\ \/ LeaveTo("menu")
       \/ at' \in {"calling", "edit_name", "erase"} /\ UNCHANGED form
    /\ UNCHANGED <<database, seeder, emptied>>

CallingShown ==
    /\ at = "calling"
    /\ Go("options")
    /\ UNCHANGED <<database, form, seeder, emptied>>

-----------------------------------------------------------------------------
(* Add entry.                                                              *)

\* An empty or cancelled text leaves the form.
AddName ==
    /\ at = "add_name"
    /\ \/ LeaveTo("menu")
       \/ /\ typed' \in Names
          /\ Go("add_number")
          /\ UNCHANGED <<purpose, listed, target>>
    /\ UNCHANGED <<database, seeder, emptied>>

\* A failing INSERT is logged and, like Back, leads to the menu.
AddNumber ==
    /\ at = "add_number"
    /\ \/ \E number \in Numbers :
             /\ Insert(<<[name |-> typed, number |-> number]>>, 1)
             /\ Go("saved")
             /\ UNCHANGED form
       \/ LeaveTo("menu") /\ UNCHANGED <<contacts, seq>>
    /\ UNCHANGED <<table, seeder, emptied>>

-----------------------------------------------------------------------------
(* Edit and Erase, of the picked row.                                      *)

\* Unlike Add entry, Edit takes an empty text.
EditName ==
    /\ at = "edit_name"
    /\ \/ LeaveTo("menu")
       \/ /\ typed' \in Names \cup {Empty}
          /\ Go("edit_number")
          /\ UNCHANGED <<purpose, listed, target>>
    /\ UNCHANGED <<database, seeder, emptied>>

\* Fault: after an edit the options of the contact stay open.
EditNumber_BackToOptions ==
    /\ at = "edit_number"
    /\ \/ \E number \in Numbers \cup {Empty} :
             /\ Update(target, [name |-> typed, number |-> number])
             /\ Go(IF purpose = "options" THEN "options" ELSE "updated")
             /\ UNCHANGED form
       \/ LeaveTo("menu") /\ UNCHANGED contacts
    /\ UNCHANGED <<seq, table, seeder, emptied>>

\* UPDATE says nothing when the row is gone; a failing one is logged.
EditNumber ==
    /\ at = "edit_number"
    /\ \/ \E number \in Numbers \cup {Empty} :
             /\ Update(target, [name |-> typed, number |-> number])
             /\ Go("updated")
             /\ UNCHANGED form
       \/ LeaveTo("menu") /\ UNCHANGED contacts
    /\ UNCHANGED <<seq, table, seeder, emptied>>

\* Fault: the options loop goes on after Delete.
Erase_BackToOptions ==
    /\ at = "erase"
    /\ \/ /\ Delete({target})
          /\ emptied' = TRUE
          /\ Go(IF purpose = "options" THEN "options" ELSE "erased")
          /\ UNCHANGED form
       \/ LeaveTo("crashed") /\ UNCHANGED <<contacts, emptied>>
    /\ UNCHANGED <<seq, table, seeder>>

\* Nothing catches a failing DELETE.
Erase ==
    /\ at = "erase"
    /\ \/ /\ Delete({target})
          /\ emptied' = TRUE
          /\ Go("erased")
          /\ UNCHANGED form
       \/ LeaveTo("crashed") /\ UNCHANGED <<contacts, emptied>>
    /\ UNCHANGED <<seq, table, seeder>>

\* "Saved!", "Updated!" and "Erased" are shown for a second.
MessageShown ==
    /\ at \in {"saved", "updated", "erased"}
    /\ LeaveTo("menu")
    /\ UNCHANGED <<database, seeder, emptied>>

\* The phone is switched off and on, or restarted after a crash.
Restart ==
    /\ LeaveTo("boot")
    /\ emptied' = FALSE
    /\ UNCHANGED <<database, seeder>>

-----------------------------------------------------------------------------
(* The seeding tool: seed_contacts().                                      *)

ToolStart ==
    /\ Tool /\ tool = "idle"
    /\ tool' \in {"truncate", "read"}
    /\ table' = TRUE
    /\ UNCHANGED <<contacts, seq, at, form, known, emptied>>

\* --truncate commits before anything else is known to succeed.
ToolTruncate ==
    /\ tool = "truncate"
    /\ Delete(DOMAIN contacts)
    /\ emptied' = TRUE
    /\ tool' = "read"
    /\ UNCHANGED <<seq, table, at, form, known>>

ToolRead ==
    /\ tool = "read"
    /\ known' = {contacts[id].name : id \in DOMAIN contacts} \ {Empty}
    /\ tool' = "fetch"
    /\ UNCHANGED <<database, at, form, emptied>>

\* The page of names is downloaded: this takes up to 15 seconds.
ToolFetch ==
    /\ tool = "fetch"
    /\ tool' = "insert"
    /\ UNCHANGED <<database, at, form, known, emptied>>

\* Names that are not in use and differ from each other, in one transaction.
ToolInsert ==
    /\ tool = "insert"
    /\ \E rows \in [1..Batch -> [name : Names \ known, number : Numbers]] :
          /\ \A i, j \in 1..Batch : rows[i].name = rows[j].name => i = j
          /\ Insert(rows, Batch)
    /\ tool' = "idle"
    /\ known' = {}
    /\ UNCHANGED <<table, at, form, emptied>>

\* No network, too few names, a locked database, or the tool is killed.
ToolFails ==
    /\ tool # "idle"
    /\ tool' = "idle"
    /\ known' = {}
    /\ UNCHANGED <<database, at, form, emptied>>

-----------------------------------------------------------------------------
Boot  == CreateTable \/ CountContacts \/ SeedDefault \/ BootFails
App   == OpenApp \/ MenuChoice \/ MenuSelect \/ Search \/ FetchList \/ FetchFails
            \/ Pick \/ Options \/ CallingShown \/ AddName \/ AddNumber \/ EditName
            \/ EditNumber \/ Erase \/ MessageShown
Seed  == ToolStart \/ ToolTruncate \/ ToolRead \/ ToolFetch \/ ToolInsert \/ ToolFails

Next == Boot \/ App \/ Seed \/ Restart

Spec == Init /\ [][Next]_vars

-----------------------------------------------------------------------------
(* Properties.                                                             *)

\* While the phone offers to do something with a picked contact, the row of
\* that id is the one that was listed: the screens between fetching a row and
\* the UPDATE or DELETE that names its id never act on a contact that was
\* changed, or on another one that took over the id.
PickedIsCurrent ==
    at \in Holding /\ target \in DOMAIN contacts => contacts[target] = listed[target]

\* A phone that has booted has a contact, unless contacts were deleted since:
\* the default contact is there even when an earlier boot was cut off between
\* CREATE TABLE and the seeding INSERT (init_databases).
BookHasAContact == at \in AppPoints /\ ~emptied => DOMAIN contacts # {}

\* "Updated!" is true, and no contact the phone itself erased is offered again
\* ("Must return because contact is gone!"): a step of the phone that keeps a
\* row picked keeps it in the table.  Only the tool beside the phone may take
\* a row away under an open screen.
NobodyVanishes ==
    [][tool' = tool /\ target' = target /\ at' \in Holding \cup {"updated"}
       /\ target \in DOMAIN contacts => target \in DOMAIN contacts']_vars

\* Every statement of the phone is a legal operation of the store on the contact
\* the user chose, and ids are identities.
Store == INSTANCE ContactStore WITH
    book   <- contacts,
    issued <- 1..seq,
    chosen <- IF at \in Holding THEN {[id |-> target, entry |-> listed[target]]} ELSE {}

ImplementsStore == Store!Spec

=============================================================================
