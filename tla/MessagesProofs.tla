--------------------------- MODULE MessagesProofs ---------------------------
(***************************************************************************)
(* Proofs about Messages: what is open is stored as it is shown, and the   *)
(* app implements Mailbox, for every number of messages and every text.    *)
(***************************************************************************)
EXTENDS Messages, TLAPS

\* The user may open any of the rows of an open list: each of them is stored.
ListedIsStored ==
    at \in {"list"} \cup Reading =>
        \A id \in DOMAIN listed : id \in DOMAIN Table /\ Table[id] = listed[id]

\* No rows are kept outside the loop of a folder: the menu may open the other one.
NothingListed ==
    at \notin {"fetch", "list", "erased"} \cup Reading => listed = <<>>

Inv == TypeOK /\ ListedIsStored /\ NothingListed

LEMMA OpenFollows == Inv => OpenIsStored
  BY DEF Inv, TypeOK, ListedIsStored, OpenIsStored

-----------------------------------------------------------------------------
(* What the statements do to a table.                                      *)

\* INSERT keeps every row and adds n rows under the next n ids.
LEMMA InsertFacts ==
    ASSUME NEW f, NEW last \in Nat, NEW n \in Nat, NEW rows \in [1..n -> Text],
           IsRows(f, last)
    PROVE  /\ IsRows(Inserted(f, last, rows, n), last + n)
           /\ DOMAIN Inserted(f, last, rows, n) = DOMAIN f \cup (last + 1)..(last + n)
           /\ \A id \in DOMAIN f : Inserted(f, last, rows, n)[id] = f[id]
<1> DEFINE g == Inserted(f, last, rows, n)
<1>1. DOMAIN f \subseteq 1..last /\ \A id \in DOMAIN f : f[id] \in Text
  BY DEF IsRows
<1>2. DOMAIN g = DOMAIN f \cup (last + 1)..(last + n)
  BY DEF Inserted
<1>3. \A id \in DOMAIN f : g[id] = f[id]
  BY DEF Inserted
<1>4. \A i \in 1..n : last + i \notin DOMAIN f /\ last + i \in (last + 1)..(last + n)
  BY <1>1
<1>5. \A i \in 1..n : g[last + i] = rows[i]
  BY <1>4 DEF Inserted
<1>6. \A id \in (last + 1)..(last + n) : g[id] \in Text
  <2> TAKE id \in (last + 1)..(last + n)
  <2>1. id - last \in 1..n /\ id = last + (id - last)
    OBVIOUS
  <2> QED
    BY <1>5, <2>1
<1>7. g \in [DOMAIN g -> Text]
  <2>1. \A id \in DOMAIN g : g[id] \in Text
    BY <1>1, <1>2, <1>3, <1>6
  <2>2. g = [id \in DOMAIN g |-> g[id]]
    BY <1>2 DEF Inserted
  <2> QED
    BY <2>1, <2>2
<1>8. DOMAIN g \subseteq 1..(last + n)
  BY <1>1, <1>2
<1> QED
  BY <1>2, <1>3, <1>5, <1>7, <1>8 DEF IsRows

\* DELETE takes the row of one id and keeps every other.
LEMMA DeleteFacts ==
    ASSUME NEW f, NEW last \in Nat, NEW id, IsRows(f, last)
    PROVE  /\ IsRows(Deleted(f, id), last)
           /\ DOMAIN Deleted(f, id) = DOMAIN f \ {id}
  BY DEF IsRows, Deleted

\* A set of rows is one of a table that has issued more ids.
LEMMA RowsGrow ==
    ASSUME NEW f, NEW m \in Nat, NEW n \in Nat, m <= n, IsRows(f, m)
    PROVE  IsRows(f, n)
  BY DEF IsRows

LEMMA NoRows == ASSUME NEW n \in Nat PROVE IsRows(<<>>, n)
  BY DEF IsRows

\* What each table is, and the one whose list is open.
LEMMA TableFacts ==
    ASSUME TypeOK
    PROVE  /\ seq["Inbox"] \in Nat /\ seq["Outbox"] \in Nat /\ seq[folder] \in Nat
           /\ IsRows(Table, seq[folder])
<1>1. seq \in [Folders -> Nat] /\ folder \in Folders
  BY MessagesAssumption DEF TypeOK
<1>2. folder = "Inbox" \/ folder = "Outbox"
  BY <1>1 DEF Folders
<1>3. IsRows(inbox, seq["Inbox"]) /\ IsRows(outbox, seq["Outbox"])
  BY DEF TypeOK
<1> QED
  BY <1>1, <1>2, <1>3 DEF Folders, Table

\* A save files the draft, and only the draft, in the outbox.
LEMMA SaveFacts ==
    ASSUME TypeOK, Save
    PROVE  /\ IsRows(outbox', seq'["Outbox"])
           /\ seq' \in [Folders -> 0..MaxId]
           /\ seq'["Outbox"] >= seq["Outbox"] /\ seq'["Inbox"] = seq["Inbox"]
           /\ DOMAIN outbox' = DOMAIN outbox \cup {seq["Outbox"] + 1}
           /\ seq["Outbox"] + 1 \notin DOMAIN outbox
           /\ \A id \in DOMAIN outbox : outbox'[id] = outbox[id]
           /\ outbox'[seq["Outbox"] + 1] = draft
<1> DEFINE last == seq["Outbox"]
<1>1. last \in Nat /\ last + 1 \in 0..MaxId /\ IsRows(outbox, last)
  BY MessagesAssumption, TableFacts DEF TypeOK, Save, Folders
<1>2. draft \in Text
  BY DEF TypeOK, Save, Writing
<1>3. <<draft>> \in [1..1 -> Text]
  BY <1>2
<1>4. outbox' = Inserted(outbox, last, <<draft>>, 1)
      /\ seq' = [seq EXCEPT !["Outbox"] = last + 1]
  BY DEF Save
<1>5. seq' \in [Folders -> 0..MaxId] /\ seq'["Outbox"] = last + 1
      /\ seq'["Inbox"] = seq["Inbox"]
  BY <1>1, <1>4 DEF TypeOK, Folders
<1>6. DOMAIN outbox \subseteq 1..last
  BY <1>1 DEF IsRows
<1>7. (last + 1)..(last + 1) = {last + 1} /\ <<draft>>[1] = draft /\ 1 \in 1..1
  BY <1>1
<1>8. /\ IsRows(outbox', last + 1)
      /\ DOMAIN outbox' = DOMAIN outbox \cup (last + 1)..(last + 1)
      /\ \A id \in DOMAIN outbox : outbox'[id] = outbox[id]
      /\ outbox'[last + 1] = <<draft>>[1]
  <2> DEFINE g == Inserted(outbox, last, <<draft>>, 1)
  <2>1. IsRows(g, last + 1)
    BY <1>1, <1>3, InsertFacts
  <2>2. DOMAIN g = DOMAIN outbox \cup (last + 1)..(last + 1)
    BY DEF Inserted
  <2>3. \A id \in DOMAIN outbox : g[id] = outbox[id]
    BY <1>1, <1>3, InsertFacts
  <2>4. g[last + 1] = <<draft>>[1]
    <3>1. last + 1 \notin DOMAIN outbox /\ (last + 1) - last = 1
      BY <1>1, <1>6
    <3> QED
      BY <1>7, <3>1 DEF Inserted
  <2> QED
    BY <1>4, <1>7, <2>1, <2>2, <2>3, <2>4
<1> QED
  BY <1>1, <1>5, <1>6, <1>7, <1>8

\* The tool adds to the inbox.
LEMMA SeedFacts ==
    ASSUME TypeOK, ToolSeeds
    PROVE  /\ IsRows(inbox', seq'["Inbox"])
           /\ seq' \in [Folders -> 0..MaxId]
           /\ seq'["Inbox"] >= seq["Inbox"] /\ seq'["Outbox"] = seq["Outbox"]
           /\ \A id \in DOMAIN inbox : id \in DOMAIN inbox' /\ inbox'[id] = inbox[id]
<1> DEFINE last == seq["Inbox"]
<1>1. last \in Nat /\ Batch \in Nat /\ last + Batch \in 0..MaxId /\ IsRows(inbox, last)
  BY MessagesAssumption, TableFacts DEF TypeOK, ToolSeeds, Folders
<1>2. PICK rows \in [1..Batch -> Seeds] : inbox' = Inserted(inbox, last, rows, Batch)
  BY DEF ToolSeeds
<1>3. rows \in [1..Batch -> Text]
  BY MessagesAssumption
<1>4. seq' = [seq EXCEPT !["Inbox"] = last + Batch]
  BY DEF ToolSeeds
<1>5. seq' \in [Folders -> 0..MaxId] /\ seq'["Inbox"] = last + Batch
      /\ seq'["Outbox"] = seq["Outbox"]
  BY <1>1, <1>4 DEF TypeOK, Folders
<1>6. /\ IsRows(inbox', last + Batch)
      /\ \A id \in DOMAIN inbox : id \in DOMAIN inbox' /\ inbox'[id] = inbox[id]
  <2> DEFINE g == Inserted(inbox, last, rows, Batch)
  <2>1. IsRows(g, last + Batch)
    BY <1>1, <1>3, InsertFacts
  <2>2. DOMAIN g = DOMAIN inbox \cup (last + 1)..(last + Batch)
    BY DEF Inserted
  <2>3. \A id \in DOMAIN inbox : g[id] = inbox[id]
    BY <1>1, <1>3, InsertFacts
  <2> QED
    BY <1>2, <2>1, <2>2, <2>3
<1> QED
  BY <1>1, <1>5, <1>6

-----------------------------------------------------------------------------
(* The invariant.                                                          *)

LEMMA InitInv == Init => Inv
  BY MessagesAssumption
  DEF Init, Inv, TypeOK, ListedIsStored, NothingListed, IsRows, Folders, Points, Reading,
      Writing

\* A step that leaves the tables and the list alone keeps what is known of them.
LEMMA RowsStay ==
    ASSUME TypeOK, UNCHANGED <<database, folder, listed>>
    PROVE  /\ seq' \in [Folders -> 0..MaxId] /\ folder' \in Folders
           /\ IsRows(inbox, seq["Inbox"])' /\ IsRows(outbox, seq["Outbox"])'
           /\ IsRows(listed, seq[folder])'
           /\ Table' = Table
  BY DEF TypeOK, database, Table, IsRows

\* A screen that is left takes the list, the open row and the text with it.
LEMMA LeaveKeeps ==
    ASSUME TypeOK, NEW p \in Points \ (Reading \cup Writing \cup {"list"}),
           LeaveTo(p), UNCHANGED database
    PROVE  Inv'
<1>1. /\ at' = p /\ folder' = "Inbox" /\ listed' = <<>> /\ target' = 0 /\ draft' = <<>>
      /\ UNCHANGED <<inbox, outbox, seq>>
  BY DEF LeaveTo, Go, database
<1>2. IsRows(<<>>, seq["Inbox"])
  BY TableFacts, NoRows
<1>3. /\ IsRows(inbox', seq'["Inbox"]) /\ IsRows(outbox', seq'["Outbox"])
      /\ IsRows(listed', seq'[folder'])
  BY <1>1, <1>2 DEF TypeOK
<1>4. TypeOK'
  BY <1>1, <1>3 DEF TypeOK, Folders
<1>5. ListedIsStored' /\ NothingListed'
  BY <1>1 DEF ListedIsStored, NothingListed
<1> QED
  BY <1>4, <1>5 DEF Inv

LEMMA StepInv == Inv /\ [Next]_vars => Inv'
<1> SUFFICES ASSUME Inv, [Next]_vars PROVE Inv'
  OBVIOUS
<1> USE DEF Go, database, reading
<1>0. TypeOK /\ ListedIsStored /\ NothingListed
  BY DEF Inv
<1>a. <<>> \in Text
  BY DEF Text
<1>1. CASE Boot
  BY <1>0, <1>1, RowsStay
  DEF Boot, Inv, TypeOK, ListedIsStored, NothingListed, Points, Reading, Writing
<1>2. CASE OpenApp
  BY <1>0, <1>2, RowsStay
  DEF OpenApp, Inv, TypeOK, ListedIsStored, NothingListed, Points, Reading, Writing
<1>3. CASE MenuChoice
  <2>0. listed = <<>> /\ UNCHANGED <<database, listed, target, draft>> /\ folder' \in Folders
    BY <1>0, <1>3 DEF MenuChoice, NothingListed, Reading, TypeOK
  <2>1. IsRows(listed', seq'[folder'])
    <3>1. seq'[folder'] \in Nat
      BY <1>0, <2>0, MessagesAssumption DEF TypeOK
    <3> QED
      BY <2>0, <3>1, NoRows
  <2>2. /\ at = "menu" /\ at' \in {"home", "write", "fetch"} /\ target = 0 /\ draft = <<>>
    BY <1>0, <1>3 DEF MenuChoice, TypeOK, Reading, Writing
  <2>3. TypeOK'
    BY <1>0, <1>a, <2>0, <2>1, <2>2 DEF TypeOK, Points, Reading, Writing
  <2> QED
    BY <2>0, <2>2, <2>3 DEF Inv, ListedIsStored, NothingListed, Reading
<1>4. CASE Fetch
  <2>1. IsRows(Table, seq[folder]) /\ IsRows(<<>>, seq[folder])
    BY <1>0, TableFacts, NoRows
  <2>2. IsRows(listed', seq'[folder']) /\ at' \in {"empty", "list"} /\ at = "fetch"
        /\ Table' = Table /\ UNCHANGED <<database, folder, target, draft>>
        /\ (at' = "list" => listed' = Table) /\ (at' = "empty" => listed' = <<>>)
    BY <1>4, <2>1 DEF Fetch, Table
  <2>3. TypeOK'
    BY <1>0, <2>2 DEF TypeOK, Points, Reading, Writing
  <2> QED
    BY <2>2, <2>3 DEF Inv, ListedIsStored, NothingListed, Reading
<1>5. CASE EmptyShown
  BY <1>0, <1>5, LeaveKeeps DEF EmptyShown, Points, Reading, Writing
<1>6. CASE Open
  <2>1. CASE LeaveTo("menu") /\ UNCHANGED database
    BY <1>0, <2>1, LeaveKeeps DEF Points, Reading, Writing
  <2>2. CASE target' \in DOMAIN listed /\ at' = "detail" /\ UNCHANGED <<folder, listed, draft>>
    BY <1>0, <1>6, <2>2, RowsStay
    DEF Open, Inv, TypeOK, ListedIsStored, NothingListed, Points, Reading, Writing
  <2> QED
    BY <1>6, <2>1, <2>2 DEF Open
<1>7. CASE Detail
  BY <1>0, <1>7, RowsStay
  DEF Detail, Inv, TypeOK, ListedIsStored, NothingListed, Points, Reading, Writing
<1>8. CASE Options
  BY <1>0, <1>8, RowsStay
  DEF Options, Inv, TypeOK, ListedIsStored, NothingListed, Points, Reading, Writing
<1>9. CASE NoticeShown
  BY <1>0, <1>9, RowsStay
  DEF NoticeShown, Inv, TypeOK, ListedIsStored, NothingListed, Points, Reading, Writing
<1>10. CASE Erase
  <2>1. seq["Inbox"] \in Nat /\ seq["Outbox"] \in Nat
    BY <1>0, TableFacts
  <2>2. IsRows(inbox', seq'["Inbox"]) /\ IsRows(outbox', seq'["Outbox"])
    <3>1. IsRows(inbox, seq["Inbox"]) /\ IsRows(outbox, seq["Outbox"])
      BY <1>0 DEF TypeOK
    <3>2. IsRows(Deleted(inbox, target), seq["Inbox"])
      BY <2>1, <3>1, DeleteFacts
    <3>3. IsRows(Deleted(outbox, target), seq["Outbox"])
      BY <2>1, <3>1, DeleteFacts
    <3> QED
      BY <1>10, <3>1, <3>2, <3>3 DEF Erase
  <2>3. /\ at = "options" /\ at' = "erased" /\ target' = 0
        /\ UNCHANGED <<seq, folder, listed, draft>>
    BY <1>10 DEF Erase
  <2>4. TypeOK'
    BY <1>0, <2>2, <2>3 DEF TypeOK, Points, Reading, Writing
  <2> QED
    BY <2>3, <2>4 DEF Inv, ListedIsStored, NothingListed, Reading
<1>11. CASE ErasedShown
  BY <1>0, <1>11, RowsStay
  DEF ErasedShown, Inv, TypeOK, ListedIsStored, NothingListed, Points, Reading, Writing
<1>12. CASE Edit
  <2>1. draft' \in Text
    <3>1. draft \in Seq(Chars)
      BY <1>0, <1>12 DEF Edit, TypeOK, Writing, Text
    <3>2. ASSUME NEW c \in Chars, Editor!Type(c) PROVE draft' \in Seq(Chars)
      BY <3>1, <3>2 DEF Editor!Type
    <3>3. ASSUME Editor!EraseLast PROVE draft' \in Seq(Chars)
      <4>1. Len(draft) - 1 \in 0..Len(draft)
        BY <3>1, <3>3 DEF Editor!EraseLast
      <4> QED
        BY <3>1, <3>3, <4>1 DEF Editor!EraseLast
    <3>4. ASSUME Editor!Clear PROVE draft' \in Seq(Chars)
      BY <3>4 DEF Editor!Clear
    <3> QED
      BY <1>12, <3>2, <3>3, <3>4 DEF Edit, Text
  <2> QED
    BY <1>0, <1>12, <2>1, RowsStay
    DEF Edit, Inv, TypeOK, ListedIsStored, NothingListed, Points, Reading, Writing
<1>13. CASE LeaveWrite
  BY <1>0, <1>13, LeaveKeeps DEF LeaveWrite, Points, Reading, Writing
<1>14. CASE OpenOptions \/ WriteOptions \/ ToldShown
  BY <1>0, <1>14, RowsStay
  DEF OpenOptions, WriteOptions, ToldShown, Inv, TypeOK, ListedIsStored, NothingListed,
      Points, Reading, Writing
<1>15. CASE Save
  <2>1. /\ at = "write_options" /\ at' = "write_told"
        /\ UNCHANGED <<inbox, folder, listed, target, draft>>
    BY <1>15 DEF Save
  <2>2. /\ IsRows(outbox', seq'["Outbox"]) /\ seq' \in [Folders -> 0..MaxId]
        /\ seq'["Inbox"] = seq["Inbox"]
    BY <1>0, <1>15, SaveFacts
  <2>3. listed = <<>> /\ folder \in Folders
    BY <1>0, <2>1 DEF NothingListed, Reading, TypeOK
  <2>4. IsRows(listed', seq'[folder'])
    <3>1. seq'[folder'] \in Nat
      BY <2>1, <2>2, <2>3, MessagesAssumption
    <3> QED
      BY <2>1, <2>3, <3>1, NoRows
  <2>5. TypeOK'
    BY <1>0, <2>1, <2>2, <2>4 DEF TypeOK, Points, Reading, Writing
  <2> QED
    BY <2>1, <2>3, <2>5 DEF Inv, ListedIsStored, NothingListed, Reading
<1>16. CASE StatementFails
  BY <1>0, <1>16, LeaveKeeps DEF StatementFails, Points, Reading, Writing
<1>17. CASE Restart
  BY <1>0, <1>17, LeaveKeeps DEF Restart, Points, Reading, Writing
<1>18. CASE ToolSeeds
  <2>1. UNCHANGED <<outbox, at, folder, listed, target, draft>>
    BY <1>18 DEF ToolSeeds
  <2>2. /\ IsRows(inbox', seq'["Inbox"]) /\ seq' \in [Folders -> 0..MaxId]
        /\ seq'["Inbox"] >= seq["Inbox"] /\ seq'["Outbox"] = seq["Outbox"]
        /\ \A id \in DOMAIN inbox : id \in DOMAIN inbox' /\ inbox'[id] = inbox[id]
    BY <1>0, <1>18, SeedFacts
  <2>3. folder \in {"Inbox", "Outbox"}
    BY <1>0 DEF TypeOK, Folders
  <2>4. seq[folder] \in Nat /\ seq'[folder] \in Nat /\ seq'[folder] >= seq[folder]
    BY <1>0, <2>2, <2>3, MessagesAssumption DEF TypeOK, Folders
  <2>5. IsRows(listed', seq'[folder'])
    BY <1>0, <2>1, <2>4, RowsGrow DEF TypeOK
  <2>6. TypeOK'
    BY <1>0, <2>1, <2>2, <2>5 DEF TypeOK
  <2>7. \A id \in DOMAIN Table : id \in DOMAIN Table' /\ Table'[id] = Table[id]
    BY <2>1, <2>2, <2>3 DEF Table
  <2>8. ListedIsStored'
    BY <1>0, <2>1, <2>7 DEF ListedIsStored
  <2> QED
    BY <1>0, <2>1, <2>6, <2>8 DEF Inv, NothingListed
<1>19. CASE UNCHANGED vars
  BY <1>0, <1>19, RowsStay DEF vars, Inv, TypeOK, ListedIsStored, NothingListed
<1> QED
  BY <1>1, <1>2, <1>3, <1>4, <1>5, <1>6, <1>7, <1>8, <1>9, <1>10, <1>11, <1>12, <1>13,
     <1>14, <1>15, <1>16, <1>17, <1>18, <1>19 DEF Next, Read, Write

-----------------------------------------------------------------------------
(* The theorems.                                                           *)

THEOREM InvHolds == Spec => []Inv
  BY InitInv, StepInv, PTL DEF Spec

\* Type correctness: the tables, the fetched rows, the open row and the text are
\* what each screen of Messages relies on.
THEOREM MessagesTypeCorrect == Spec => []TypeOK
  BY InvHolds, PTL DEF Inv

\* The message on the screen is in its table and says what the row says, for any
\* number of messages that are erased, saved or put there by the tool.
THEOREM OpenAlwaysStored == Spec => []OpenIsStored
  BY InvHolds, OpenFollows, PTL

-----------------------------------------------------------------------------
(* Refinement of Mailbox.                                                  *)

\* The phone is running.
Up == at \notin {"boot", "crashed"}

\* Mailbox does not see steps between screens of no message.
LEMMA Unseen ==
    ASSUME at \notin Reading, at' \notin Reading, Up' = Up,
           UNCHANGED <<inbox, outbox, draft>>
    PROVE  UNCHANGED Mail!mailbox
  BY DEF Mail!mailbox, Up

\* Nor does it see steps between screens of the same message.
LEMMA SameMessage ==
    ASSUME at \in Reading, at' \in Reading, UNCHANGED <<reading, inbox, outbox, draft>>
    PROVE  UNCHANGED Mail!mailbox
  BY DEF Mail!mailbox, reading, Reading

\* The app does for its user what Mailbox promises: a save files what is on the
\* screen, Erase takes the message that is open from the folder it is in and no
\* other, and a text goes only with the phone.
THEOREM MessagesImplementMailbox == Spec => ImplementsMailbox
<1>1. Init => Mail!Init
  BY DEF Init, Mail!Init, Reading
<1>2. Inv /\ [Next]_vars => [Mail!Next]_(Mail!mailbox)
  <2> SUFFICES ASSUME Inv, [Next]_vars
               PROVE  Mail!Next \/ UNCHANGED Mail!mailbox
    OBVIOUS
  <2> USE DEF Go, database, reading
  <2>0. TypeOK /\ ListedIsStored /\ NothingListed /\ OpenIsStored
    BY OpenFollows DEF Inv
  <2>1. CASE Boot
    <3>1. CASE at' = "home"
      BY <2>1, <3>1 DEF Boot, Reading, Mail!Start, Mail!Next
    <3>2. CASE at' = "crashed"
      BY <2>1, <3>2, Unseen DEF Boot, Reading, Up
    <3> QED
      BY <2>1, <3>1, <3>2 DEF Boot
  <2>2. CASE OpenApp \/ MenuChoice \/ Fetch \/ ErasedShown \/ OpenOptions
             \/ WriteOptions \/ ToldShown
    <3>1. at \notin Reading /\ at' \notin Reading /\ Up' = Up
          /\ UNCHANGED <<inbox, outbox, draft>>
      BY <2>2 DEF OpenApp, MenuChoice, Fetch, ErasedShown, OpenOptions, WriteOptions,
         ToldShown, Reading, Up
    <3> QED
      BY <3>1, Unseen
  <2>3. ASSUME at \in {"empty", "list", "write"}, LeaveTo("menu"), UNCHANGED database,
               draft = <<>>
        PROVE  UNCHANGED Mail!mailbox
    <3>1. at \notin Reading /\ at' \notin Reading /\ Up' = Up
          /\ UNCHANGED <<inbox, outbox, draft>>
      BY <2>3 DEF LeaveTo, Reading, Up
    <3> QED
      BY <3>1, Unseen
  <2>4. at \in {"empty", "list"} => draft = <<>>
    BY <2>0 DEF TypeOK, Writing
  <2>5. CASE EmptyShown \/ LeaveWrite
    BY <2>3, <2>4, <2>5 DEF EmptyShown, LeaveWrite
  <2>6. CASE Open
    <3>1. CASE LeaveTo("menu") /\ UNCHANGED database
      BY <2>3, <2>4, <2>6, <3>1 DEF Open
    <3>2. CASE target' \in DOMAIN listed /\ at' = "detail" /\ UNCHANGED <<folder, listed, draft>>
      <4>1. /\ at = "list" /\ UNCHANGED <<inbox, outbox>>
            /\ target' \in DOMAIN Table /\ Table[target'] = listed[target']
        BY <2>0, <2>6, <3>2 DEF Open, ListedIsStored
      <4>2. at' \in Reading
        BY <3>2 DEF Reading
      <4>3. CASE folder = "Inbox"
        BY <3>2, <4>1, <4>2, <4>3 DEF Table, Mail!ReadFrom, Mail!Read, Mail!Next
      <4>4. CASE folder = "Outbox"
        BY <3>2, <4>1, <4>2, <4>4 DEF Table, Mail!ReadFrom, Mail!Read, Mail!Next
      <4> QED
        BY <2>0, <4>3, <4>4 DEF TypeOK, Folders
    <3> QED
      BY <2>6, <3>1, <3>2 DEF Open
  <2>7. CASE Detail
    <3>1. CASE at' = "fetch"
      BY <2>7, <3>1 DEF Detail, Reading, Mail!Close, Mail!Next
    <3>2. CASE at' = "options" /\ UNCHANGED target
      BY <2>7, <3>2, SameMessage DEF Detail, Reading
    <3> QED
      BY <2>7, <3>1, <3>2 DEF Detail
  <2>8. CASE Options \/ NoticeShown
    BY <2>8, SameMessage DEF Options, NoticeShown, Reading
  <2>9. CASE Erase
    <3> DEFINE m == [folder |-> folder, id |-> target, text |-> listed[target]]
    <3>1. /\ at = "options" /\ at' = "erased" /\ at \in Reading /\ at' \notin Reading
          /\ UNCHANGED draft
      BY <2>9 DEF Erase, Reading
    <3>2. target \in DOMAIN Table /\ Table[target] = listed[target]
      BY <2>0, <3>1 DEF OpenIsStored
    <3>3. m.folder = folder /\ m.id = target /\ m.text = listed[target]
      OBVIOUS
    <3>4. ASSUME folder = "Inbox", inbox' = Deleted(inbox, target), UNCHANGED outbox
          PROVE  Mail!Erase(m)
      BY <3>1, <3>2, <3>3, <3>4 DEF Table, Deleted, Mail!Erase, Mail!IsIn, Mail!Without
    <3>5. ASSUME folder = "Outbox", outbox' = Deleted(outbox, target), UNCHANGED inbox
          PROVE  Mail!Erase(m)
      BY <3>1, <3>2, <3>3, <3>5 DEF Table, Deleted, Mail!Erase, Mail!IsIn, Mail!Without
    <3>6. Mail!Erase(m)
      BY <2>9, <3>4, <3>5 DEF Erase
    <3> QED
      BY <3>1, <3>6 DEF Mail!Next
  <2>10. CASE Edit
    <3>1. at = "write" /\ at \notin Reading /\ UNCHANGED <<at, inbox, outbox, folder, listed, target>>
      BY <2>10 DEF Edit, Reading
    <3>2. Mail!Writing!Next
      BY <2>10 DEF Edit, Editor!Type, Editor!EraseLast, Editor!Clear, Mail!Writing!Next,
         Mail!Writing!Type, Mail!Writing!EraseLast, Mail!Writing!Clear
    <3> QED
      BY <3>1, <3>2 DEF Mail!Write, Mail!Next
  <2>11. CASE Save
    <3>1. /\ at = "write_options" /\ at' = "write_told"
          /\ UNCHANGED <<inbox, draft>>
      BY <2>11 DEF Save
    <3>2. DOMAIN outbox' \ DOMAIN outbox = {seq["Outbox"] + 1}
          /\ outbox'[seq["Outbox"] + 1] = draft
          /\ \A id \in DOMAIN outbox : id \in DOMAIN outbox' /\ outbox'[id] = outbox[id]
          /\ seq["Outbox"] + 1 \in DOMAIN outbox'
      BY <2>0, <2>11, SaveFacts
    <3> QED
      BY <3>1, <3>2 DEF Reading, Mail!File, Mail!Keeps, Mail!Next
  <2>12. CASE StatementFails \/ Restart
    <3>1. at' \in {"boot", "crashed"} /\ draft' = <<>> /\ UNCHANGED <<inbox, outbox>>
      BY <2>12 DEF StatementFails, Restart, LeaveTo
    <3> QED
      BY <3>1 DEF Reading, Mail!GoDown, Mail!Next
  <2>13. CASE ToolSeeds
    <3>1. /\ UNCHANGED <<outbox, at, folder, listed, target, draft>>
          /\ \A id \in DOMAIN inbox : id \in DOMAIN inbox' /\ inbox'[id] = inbox[id]
      BY <2>0, <2>13, SeedFacts DEF ToolSeeds
    <3> QED
      BY <3>1 DEF Mail!Deliver, Mail!Keeps, Mail!Next
  <2>14. CASE UNCHANGED vars
    BY <2>14 DEF vars, Mail!mailbox
  <2> QED
    BY <2>1, <2>2, <2>5, <2>6, <2>7, <2>8, <2>9, <2>10, <2>11, <2>12, <2>13, <2>14
    DEF Next, Read, Write
<1> QED
  BY <1>1, <1>2, InvHolds, PTL DEF Spec, ImplementsMailbox, Mail!Spec
=============================================================================
