-------------------------- MODULE PhoneBookProofs ---------------------------
(***************************************************************************)
(* The phone book for every set of names, numbers and queries, every       *)
(* number of contacts, and with or without the seeding tool beside it.     *)
(***************************************************************************)
EXTENDS PhoneBook, TLAPS

\* The rows a selector fetched that are still in the table are unchanged: what
\* PickedIsCurrent lacks is that it already holds while the list is open.
ListedIsCurrent ==
    at \in Holding \cup {"list"} =>
        \A i \in DOMAIN listed \cap DOMAIN contacts : contacts[i] = listed[i]

\* Whoever left the boot sequence found a contact or added one.
Inv == TypeOK /\ ListedIsCurrent /\ BookHasAContact

LEMMA PickedFollows == Inv => PickedIsCurrent
  BY DEF Inv, TypeOK, ListedIsCurrent, PickedIsCurrent

-----------------------------------------------------------------------------
(* What the statements do to the table.                                    *)

\* INSERT keeps every row it finds, adds n rows under ids never issued before
\* and keeps the table well formed.
LEMMA InsertFacts ==
    ASSUME TypeOK, NEW n \in Nat, NEW rows \in [1..n -> Entry], Insert(rows, n)
    PROVE  /\ seq' \in 0..MaxId /\ seq' = seq + n
           /\ IsRows(contacts)'
           /\ DOMAIN contacts' = DOMAIN contacts \cup (seq + 1)..(seq + n)
           /\ \A i \in DOMAIN contacts : contacts'[i] = contacts[i]
<1> USE DEF TypeOK, IsRows
<1>1. seq \in Nat /\ seq' = seq + n /\ seq' \in 0..MaxId
  BY PhoneBookAssumption DEF Insert
<1>2. DOMAIN contacts' = DOMAIN contacts \cup (seq + 1)..(seq + n)
  BY DEF Insert
<1>3. \A i \in DOMAIN contacts : contacts'[i] = contacts[i]
  BY DEF Insert
<1>4. ASSUME NEW i \in (seq + 1)..(seq + n) PROVE contacts'[i] \in Entry
  <2>1. i \notin DOMAIN contacts /\ i - seq \in 1..n
    BY <1>1
  <2>2. contacts'[i] = rows[i - seq]
    BY <2>1 DEF Insert
  <2> QED
    BY <2>1, <2>2
<1>5. \A i \in DOMAIN contacts' : contacts'[i] \in Entry
  BY <1>2, <1>3, <1>4
<1>6. DOMAIN contacts' \subseteq 1..seq'
  BY <1>1, <1>2
<1>7. contacts' = [i \in DOMAIN contacts' |-> contacts'[i]]
  BY <1>2 DEF Insert
<1> QED
  BY <1>1, <1>2, <1>3, <1>5, <1>6, <1>7

\* UPDATE touches one row at most.
LEMMA UpdateFacts ==
    ASSUME IsRows(contacts), NEW i, NEW entry \in Entry, Update(i, entry), UNCHANGED seq
    PROVE  IsRows(contacts)' /\ DOMAIN contacts' = DOMAIN contacts
  BY DEF IsRows, Update

\* DELETE keeps the other rows as they are.
LEMMA DeleteFacts ==
    ASSUME IsRows(contacts), NEW ids, Delete(ids), UNCHANGED seq
    PROVE  /\ IsRows(contacts)'
           /\ DOMAIN contacts' = DOMAIN contacts \ ids
           /\ \A i \in DOMAIN contacts' : contacts'[i] = contacts[i]
  BY DEF IsRows, Delete

\* Rows stay well formed as long as ids are only issued.
LEMMA RowsFacts ==
    /\ IsRows(NoRows) /\ DOMAIN NoRows = {}
    /\ \A ids : IsRows(contacts) => /\ IsRows(Stay(ids))
                                    /\ DOMAIN Stay(ids) = DOMAIN contacts \cap ids
                                    /\ \A i \in DOMAIN Stay(ids) : Stay(ids)[i] = contacts[i]
  BY DEF IsRows, NoRows, Stay

\* A list of rows stays one when the table only grows in ids.
LEMMA ListedStays ==
    ASSUME TypeOK, UNCHANGED listed, seq' \in Nat, seq <= seq'
    PROVE  IsRows(listed)'
  BY PhoneBookAssumption DEF TypeOK, IsRows

-----------------------------------------------------------------------------
(* Every step keeps the invariant.                                         *)

LEMMA InvInit == Init => Inv
<1> SUFFICES ASSUME Init PROVE Inv
  OBVIOUS
<1>1. IsRows(contacts) /\ IsRows(listed) /\ DOMAIN listed = {}
  BY RowsFacts DEF Init
<1>2. emptied \in BOOLEAN /\ table \in BOOLEAN
  BY Zenon DEF Init
<1> QED
  BY <1>1, <1>2, PhoneBookAssumption
  DEF Init, Inv, TypeOK, ListedIsCurrent, BookHasAContact, Points, BootPoints, AppPoints, Holding

LEMMA InvStep ==
    ASSUME Inv, [Next]_vars
    PROVE  Inv'
<1> USE PhoneBookAssumption
    DEF Inv, TypeOK, ListedIsCurrent, BookHasAContact, Points, BootPoints, AppPoints, Holding,
        database, form, seeder, LeaveTo, Go
<1>0. IsRows(NoRows)
  BY RowsFacts
<1>1. CASE CreateTable
  BY <1>1, <1>0, ListedStays, RowsFacts DEF CreateTable, IsRows
<1>2. CASE CountContacts
  BY <1>2, <1>0, ListedStays, RowsFacts DEF CountContacts, IsRows
<1>3. CASE SeedDefault
  <2>1. <<Support>> \in [1..1 -> Entry]
    OBVIOUS
  <2>2. /\ seq' \in 0..MaxId /\ seq' = seq + 1
        /\ IsRows(contacts)'
        /\ DOMAIN contacts' = DOMAIN contacts \cup (seq + 1)..(seq + 1)
    BY <1>3, <2>1, InsertFacts DEF SeedDefault
  <2>3. IsRows(listed)'
    BY <1>3, <2>2, ListedStays DEF SeedDefault
  <2> QED
    BY <1>3, <2>2, <2>3 DEF SeedDefault
<1>4. CASE BootFails
  BY <1>4, <1>0, ListedStays, RowsFacts DEF BootFails, IsRows
<1>5. CASE OpenApp
  BY <1>5, <1>0, ListedStays, RowsFacts DEF OpenApp, IsRows
<1>6. CASE MenuChoice
  BY <1>6, <1>0, ListedStays, RowsFacts DEF MenuChoice, IsRows
<1>7. CASE MenuSelect
  BY <1>7, <1>0, ListedStays, RowsFacts DEF MenuSelect, IsRows
<1>8. CASE Search
  BY <1>8, <1>0, ListedStays, RowsFacts DEF Search, IsRows
<1>9. CASE FetchList
  <2> DEFINE found == IF typed = Empty THEN DOMAIN contacts
                      ELSE {id \in DOMAIN contacts : contacts[id].name \in Matches[typed]}
  <2>1. CASE LeaveTo("menu") /\ UNCHANGED <<database, seeder, emptied>>
    BY <2>1, <1>9, <1>0 DEF FetchList, IsRows
  <2>2. CASE /\ listed' = Stay(found)
             /\ typed' = Empty
             /\ at' = "list"
             /\ UNCHANGED <<purpose, target, database, seeder, emptied>>
    <3>1. /\ IsRows(Stay(found))
          /\ \A i \in DOMAIN Stay(found) : Stay(found)[i] = contacts[i]
      BY RowsFacts
    <3>2. IsRows(listed)' /\ IsRows(contacts)'
      BY <2>2, <3>1 DEF IsRows
    <3>3. ListedIsCurrent'
      BY <2>2, <3>1
    <3> HIDE DEF found
    <3> QED
      BY <1>9, <2>2, <3>2, <3>3 DEF FetchList
  <2> QED
    BY <1>9, <2>1, <2>2 DEF FetchList
<1>10. CASE FetchFails
  BY <1>10, <1>0, ListedStays, RowsFacts DEF FetchFails, IsRows
<1>11. CASE Pick
  BY <1>11, <1>0, ListedStays, RowsFacts DEF Pick, IsRows
<1>12. CASE Options
  BY <1>12, <1>0, ListedStays, RowsFacts DEF Options, IsRows
<1>13. CASE CallingShown
  BY <1>13, <1>0, ListedStays, RowsFacts DEF CallingShown, IsRows
<1>14. CASE AddName
  BY <1>14, <1>0, ListedStays, RowsFacts DEF AddName, IsRows
<1>15. CASE AddNumber
  <2>0. at = "add_number"
    BY <1>15 DEF AddNumber
  <2>1. CASE LeaveTo("menu") /\ UNCHANGED <<contacts, seq, table, seeder, emptied>>
    BY <2>0, <2>1, <1>0 DEF IsRows
  <2>2. ASSUME NEW number \in Numbers,
               Insert(<<[name |-> typed, number |-> number]>>, 1),
               at' = "saved", UNCHANGED <<form, table, seeder, emptied>>
        PROVE  Inv'
    <3>1. <<[name |-> typed, number |-> number]>> \in [1..1 -> Entry]
      <4>1. [name |-> typed, number |-> number] \in Entry
        BY <1>15 DEF AddNumber, Entry
      <4> QED
        BY <4>1
    <3>2. /\ seq' \in 0..MaxId /\ seq' = seq + 1
          /\ IsRows(contacts)'
          /\ DOMAIN contacts' = DOMAIN contacts \cup (seq + 1)..(seq + 1)
      BY <2>2, <3>1, InsertFacts
    <3>3. IsRows(listed)'
      BY <2>2, <3>2, ListedStays
    <3> QED
      BY <1>15, <2>2, <3>2, <3>3 DEF AddNumber
  <2> QED
    BY <1>15, <2>1, <2>2 DEF AddNumber
<1>16. CASE EditName
  BY <1>16, <1>0, ListedStays, RowsFacts DEF EditName, IsRows
<1>17. CASE EditNumber
  <2>0. at = "edit_number"
    BY <1>17 DEF EditNumber
  <2>1. CASE LeaveTo("menu") /\ UNCHANGED <<contacts, seq, table, seeder, emptied>>
    BY <2>0, <2>1, <1>0 DEF IsRows
  <2>2. ASSUME NEW number \in Numbers \cup {Empty},
               Update(target, [name |-> typed, number |-> number]),
               at' = "updated", UNCHANGED <<form, seq, table, seeder, emptied>>
        PROVE  Inv'
    <3>1. [name |-> typed, number |-> number] \in Entry
      BY <1>17 DEF EditNumber, Entry
    <3>2. IsRows(contacts)' /\ DOMAIN contacts' = DOMAIN contacts
      BY <2>2, <3>1, UpdateFacts
    <3>3. IsRows(listed)'
      BY <2>2 DEF IsRows
    <3> QED
      BY <1>17, <2>2, <3>2, <3>3 DEF EditNumber
  <2> QED
    BY <1>17, <2>1, <2>2 DEF EditNumber
<1>18. CASE Erase
  <2>1. CASE LeaveTo("crashed") /\ UNCHANGED <<contacts, emptied, seq, table, seeder>>
    BY <1>18, <2>1, <1>0 DEF IsRows
  <2>2. CASE /\ Delete({target}) /\ emptied' = TRUE /\ at' = "erased"
             /\ UNCHANGED <<form, seq, table, seeder>>
    <3>1. IsRows(contacts)'
      BY <2>2, DeleteFacts
    <3>2. IsRows(listed)'
      BY <2>2 DEF IsRows
    <3> QED
      BY <1>18, <2>2, <3>1, <3>2 DEF Erase
  <2> QED
    BY <1>18, <2>1, <2>2 DEF Erase
<1>19. CASE MessageShown
  BY <1>19, <1>0, ListedStays, RowsFacts DEF MessageShown, IsRows
<1>20. CASE ToolStart
  BY <1>20, <1>0, ListedStays, RowsFacts DEF ToolStart, IsRows
<1>21. CASE ToolTruncate
  <2>1. IsRows(contacts)' /\ DOMAIN contacts' = {}
    BY <1>21, DeleteFacts DEF ToolTruncate
  <2>2. IsRows(listed)'
    BY <1>21 DEF ToolTruncate, IsRows
  <2> QED
    BY <1>21, <2>1, <2>2 DEF ToolTruncate
<1>22. CASE ToolRead
  <2>1. known' \subseteq Names
    BY <1>22 DEF ToolRead, IsRows, Entry
  <2>2. IsRows(contacts)' /\ IsRows(listed)'
    BY <1>22 DEF ToolRead, IsRows
  <2> QED
    BY <1>22, <2>1, <2>2 DEF ToolRead
<1>23. CASE ToolFetch
  BY <1>23, <1>0, ListedStays, RowsFacts DEF ToolFetch, IsRows
<1>24. CASE ToolInsert
  <2>1. PICK rows \in [1..Batch -> [name : Names \ known, number : Numbers]] :
            Insert(rows, Batch)
    BY <1>24 DEF ToolInsert
  <2>2. rows \in [1..Batch -> Entry]
    BY DEF Entry
  <2>3. /\ seq' \in 0..MaxId /\ seq' = seq + Batch
        /\ IsRows(contacts)'
        /\ DOMAIN contacts' = DOMAIN contacts \cup (seq + 1)..(seq + Batch)
        /\ \A i \in DOMAIN contacts : contacts'[i] = contacts[i]
    BY <2>1, <2>2, InsertFacts
  <2>4. IsRows(listed)'
    BY <1>24, <2>3, ListedStays DEF ToolInsert
  <2>5. ListedIsCurrent'
    <3>1. \A i \in DOMAIN listed : i \in 1..seq
      BY DEF IsRows
    <3> QED
      BY <1>24, <2>3, <3>1 DEF ToolInsert
  <2> QED
    BY <1>24, <2>3, <2>4, <2>5 DEF ToolInsert
<1>25. CASE ToolFails
  BY <1>25, <1>0, ListedStays, RowsFacts DEF ToolFails, IsRows
<1>26. CASE Restart
  BY <1>26, <1>0, ListedStays, RowsFacts DEF Restart, IsRows
<1>27. CASE UNCHANGED vars
  BY <1>27 DEF vars, IsRows
<1> QED
  BY <1>1, <1>2, <1>3, <1>4, <1>5, <1>6, <1>7, <1>8, <1>9, <1>10, <1>11, <1>12, <1>13, <1>14, <1>15, <1>16, <1>17, <1>18, <1>19, <1>20, <1>21, <1>22, <1>23, <1>24, <1>25, <1>26, <1>27 DEF Next, Boot, App, Seed

-----------------------------------------------------------------------------
(* The theorems.                                                           *)

THEOREM InvHolds == Spec => []Inv
  BY InvInit, InvStep, PTL DEF Spec

\* Type correctness: the table, the fetched rows, the picked id and the typed
\* texts are what each screen of the app relies on.
THEOREM BookTypeCorrect == Spec => []TypeOK
  BY InvHolds, PTL DEF Inv

\* Edit and Erase act on the row the user picked, unchanged, or on none at all,
\* however the seeding tool and restarts come between (the ids of contacts are
\* AUTOINCREMENT, and run_contact_options returns after Edit).
THEOREM PickedAlwaysCurrent == Spec => []PickedIsCurrent
  BY InvHolds, PickedFollows, PTL

\* A booted phone has a contact until contacts are deleted, wherever an earlier
\* boot was cut off (init_databases).
THEOREM BookAlwaysHasAContact == Spec => []BookHasAContact
  BY InvHolds, PTL DEF Inv

\* No step of the phone takes the picked contact away and stays with it: after
\* Erase the options must not be offered again ("Must return because contact is
\* gone!", run_contact_options), and "Updated!" is said of a row that was there.
THEOREM NobodyEverVanishes == Spec => NobodyVanishes
<1> DEFINE Kept == tool' = tool /\ target' = target /\ at' \in Holding \cup {"updated"}
                     /\ target \in DOMAIN contacts => target \in DOMAIN contacts'
<1>1. Inv /\ [Next]_vars => Kept
  <2> SUFFICES ASSUME Inv, [Next]_vars, tool' = tool, target' = target,
                      at' \in Holding \cup {"updated"}, target \in DOMAIN contacts
               PROVE  target \in DOMAIN contacts'
    OBVIOUS
  <2> USE DEF database, Go, LeaveTo
  <2>1. CASE SeedDefault \/ AddNumber \/ Erase
    BY <2>1 DEF SeedDefault, AddNumber, Erase, Holding
  <2>2. CASE EditNumber
    BY <2>2 DEF EditNumber, Update
  <2>3. CASE ToolTruncate
    BY <2>3 DEF ToolTruncate
  <2>4. CASE ToolInsert
    BY <2>4 DEF ToolInsert, Insert
  <2>5. CASE \/ CreateTable \/ CountContacts \/ BootFails \/ OpenApp \/ MenuChoice
             \/ MenuSelect \/ Search \/ FetchList \/ FetchFails \/ Pick \/ Options
             \/ CallingShown \/ AddName \/ EditName \/ MessageShown \/ ToolStart
             \/ ToolRead \/ ToolFetch \/ ToolFails \/ Restart
    BY <2>5 DEF CreateTable, CountContacts, BootFails, OpenApp, MenuChoice, MenuSelect,
       Search, FetchList, FetchFails, Pick, Options, CallingShown, AddName, EditName,
       MessageShown, ToolStart, ToolRead, ToolFetch, ToolFails, Restart
  <2>6. CASE UNCHANGED vars
    BY <2>6 DEF vars
  <2> QED
    BY <2>1, <2>2, <2>3, <2>4, <2>5, <2>6 DEF Next, Boot, App, Seed
<1>2. Inv /\ [Next]_vars => [Kept]_vars
  BY <1>1
<1> QED
  BY <1>2, InvHolds, PTL DEF Spec, NobodyVanishes

-----------------------------------------------------------------------------
(* Refinement of ContactStore.                                             *)

\* Leaving a screen, and every step away from the picked row, leaves the store.
LEMMA LeaveStep ==
    ASSUME at' \notin Holding, UNCHANGED <<contacts, seq>>
    PROVE  Store!Leave
  BY DEF Store!Leave

\* A step between two screens of the picked row is invisible.
LEMMA HoldStep ==
    ASSUME at \in Holding, at' \in Holding, UNCHANGED <<contacts, seq, listed, target>>
    PROVE  UNCHANGED Store!store
  BY DEF Store!store

\* An INSERT beside or by the phone enters contacts into the store.
LEMMA EnterStep ==
    ASSUME Inv, NEW n \in Nat, NEW rows \in [1..n -> Entry], Insert(rows, n),
           \/ at \notin Holding /\ at' \notin Holding
           \/ UNCHANGED <<at, listed, target>>
    PROVE  Store!Enter
<1>0. TypeOK
  BY DEF Inv
<1>1. /\ seq \in Nat /\ seq' = seq + n
      /\ IsRows(contacts)'
      /\ DOMAIN contacts' = DOMAIN contacts \cup (seq + 1)..(seq + n)
      /\ \A i \in DOMAIN contacts : contacts'[i] = contacts[i]
  <2>1. seq \in Nat
    BY <1>0, PhoneBookAssumption DEF TypeOK
  <2> QED
    BY <1>0, <2>1, InsertFacts
<1>2. /\ 1..seq \subseteq 1..seq'
      /\ (1..seq') \ (1..seq) = (seq + 1)..(seq + n)
  BY <1>1
<1>3. \A i \in DOMAIN contacts' : contacts'[i] \in Entry
  BY <1>1 DEF IsRows
<1> QED
  BY <1>1, <1>2, <1>3 DEF Store!Enter

\* What the phone and the tool do to the table is what a store of contacts
\* allows: new ids are fresh, and an UPDATE or DELETE changes no row but the
\* chosen one, which is still as it was shown.
THEOREM BookImplementsStore == Spec => ImplementsStore
<1>1. Init => Store!Init
  <2> SUFFICES ASSUME Init PROVE Store!Init
    OBVIOUS
  <2>1. contacts = <<>>
    BY DEF Init, NoRows
  <2>2. 1..seq = {} /\ at \notin Holding
    BY DEF Init, Holding
  <2> QED
    BY <2>1, <2>2 DEF Store!Init
<1>2. Inv /\ [Next]_vars => [Store!Next]_(Store!store)
  <2> SUFFICES ASSUME Inv, [Next]_vars
               PROVE  Store!Next \/ UNCHANGED Store!store
    OBVIOUS
  <2> USE DEF database, form, seeder, LeaveTo, Go
  <2>1. CASE \/ CreateTable \/ CountContacts \/ BootFails \/ OpenApp \/ MenuChoice
             \/ MenuSelect \/ Search \/ FetchList \/ FetchFails \/ AddName
             \/ MessageShown \/ Restart
    <3>1. at' \notin Holding /\ UNCHANGED <<contacts, seq>>
      BY <2>1 DEF CreateTable, CountContacts, BootFails, OpenApp, MenuChoice, MenuSelect,
         Search, FetchList, FetchFails, AddName, MessageShown, Restart, Holding
    <3> QED
      BY <3>1, LeaveStep DEF Store!Next
  <2>2. CASE SeedDefault
    <3>1. <<Support>> \in [1..1 -> Entry]
      BY PhoneBookAssumption
    <3> QED
      BY <2>2, <3>1, EnterStep DEF SeedDefault, Holding, Store!Next
  <2>3. CASE Pick
    <3>1. CASE LeaveTo("menu") /\ UNCHANGED database
      BY <3>1, LeaveStep DEF Holding, Store!Next
    <3>2. CASE /\ target' \in DOMAIN listed /\ at' \in {"options", "edit_name", "erase"}
               /\ UNCHANGED <<listed, database>>
      <4>1. target' \in 1..seq /\ listed[target'] \in Entry
        BY <3>2 DEF Inv, TypeOK, IsRows
      <4>2. Store!Choose(target', listed[target'])
        BY <3>2, <4>1 DEF Holding, Store!Choose
      <4> QED
        BY <4>1, <4>2 DEF Store!Next
    <3> QED
      BY <2>3, <3>1, <3>2 DEF Pick, Inv, TypeOK
  <2>4. CASE Options \/ CallingShown \/ EditName
    <3>1. CASE at' = "menu" /\ UNCHANGED database
      BY <3>1, LeaveStep DEF Holding, Store!Next
    <3>2. CASE at' \in Holding /\ UNCHANGED <<listed, target, database>>
      BY <2>4, <3>2, HoldStep DEF Options, CallingShown, EditName, Holding
    <3> QED
      BY <2>4, <3>1, <3>2 DEF Options, CallingShown, EditName, Holding
  <2>5. CASE AddNumber
    <3>1. CASE LeaveTo("menu") /\ UNCHANGED <<contacts, seq>>
      BY <3>1, LeaveStep DEF Holding, Store!Next
    <3>2. ASSUME NEW number \in Numbers,
                 Insert(<<[name |-> typed, number |-> number]>>, 1), at' = "saved"
          PROVE  Store!Enter
      <4>1. at = "add_number" /\ typed \in Names
        BY <2>5 DEF AddNumber, Inv, TypeOK
      <4>2. [name |-> typed, number |-> number] \in Entry
        BY <4>1 DEF Entry
      <4>3. <<[name |-> typed, number |-> number]>> \in [1..1 -> Entry]
        BY <4>2
      <4> QED
        BY <3>2, <4>1, <4>3, EnterStep DEF Holding
    <3> QED
      BY <2>5, <3>1, <3>2 DEF AddNumber, Store!Next
  <2>6. CASE EditNumber
    <3>1. CASE LeaveTo("menu") /\ UNCHANGED <<contacts, seq>>
      BY <3>1, LeaveStep DEF Holding, Store!Next
    <3>2. ASSUME NEW number \in Numbers \cup {Empty},
                 Update(target, [name |-> typed, number |-> number]),
                 at' = "updated", UNCHANGED seq
          PROVE  Store!Next
      <4> DEFINE c == [id |-> target, entry |-> listed[target]]
                 entry == [name |-> typed, number |-> number]
      <4>1. at = "edit_number" /\ at \in Holding /\ at' \notin Holding
        BY <2>6, <3>2 DEF EditNumber, Holding
      <4>2. entry \in Entry
        BY <4>1 DEF Inv, TypeOK, Entry
      <4>3. target \in DOMAIN contacts => contacts[target] = listed[target]
        BY <4>1, PickedFollows DEF PickedIsCurrent
      <4>4. Store!Amend(c, entry)
        BY <3>2, <4>1, <4>3 DEF Store!Amend, Store!IsCurrent, Update
      <4> QED
        BY <4>1, <4>2, <4>4 DEF Store!Next
    <3> QED
      BY <2>6, <3>1, <3>2 DEF EditNumber
  <2>7. CASE Erase
    <3>1. CASE LeaveTo("crashed") /\ UNCHANGED <<contacts, seq>>
      BY <3>1, LeaveStep DEF Holding, Store!Next
    <3>2. CASE Delete({target}) /\ at' = "erased" /\ UNCHANGED seq
      <4> DEFINE c == [id |-> target, entry |-> listed[target]]
      <4>1. at \in Holding /\ at' \notin Holding
        BY <2>7, <3>2 DEF Erase, Holding
      <4>2. target \in DOMAIN contacts => contacts[target] = listed[target]
        BY <4>1, PickedFollows DEF PickedIsCurrent
      <4>3. Store!Strike(c)
        BY <3>2, <4>1, <4>2 DEF Store!Strike, Store!IsCurrent, Delete
      <4> QED
        BY <4>1, <4>3 DEF Store!Next
    <3> QED
      BY <2>7, <3>1, <3>2 DEF Erase
  <2>8. CASE ToolStart \/ ToolRead \/ ToolFetch \/ ToolFails
    BY <2>8 DEF ToolStart, ToolRead, ToolFetch, ToolFails, Store!store
  <2>9. CASE ToolTruncate
    <3>1. contacts' = <<>> /\ UNCHANGED <<seq, at, listed, target>>
      BY <2>9 DEF ToolTruncate, Delete
    <3> QED
      BY <3>1 DEF Store!Clear, Store!Next
  <2>10. CASE ToolInsert
    <3>1. PICK rows \in [1..Batch -> [name : Names \ known, number : Numbers]] :
              Insert(rows, Batch)
      BY <2>10 DEF ToolInsert
    <3>2. rows \in [1..Batch -> Entry]
      BY DEF Entry
    <3> QED
      BY <2>10, <3>1, <3>2, EnterStep, PhoneBookAssumption DEF ToolInsert, Store!Next
  <2>11. CASE UNCHANGED vars
    BY <2>11 DEF vars, Store!store
  <2> QED
    BY <2>1, <2>2, <2>3, <2>4, <2>5, <2>6, <2>7, <2>8, <2>9, <2>10, <2>11
    DEF Next, Boot, App, Seed
<1> QED
  BY <1>1, <1>2, InvHolds, PTL DEF Spec, ImplementsStore, Store!Spec
=============================================================================
