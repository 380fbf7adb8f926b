------------------------------ MODULE Messages ------------------------------
(***************************************************************************)
(* The Messages app (System/apps/Messages) on its two tables, made at boot *)
(* by init_databases (core/main.py), and the tool that puts messages into  *)
(* the inbox beside the running phone (tools/debug_sms_seed_inbox.py).     *)
(*                                                                         *)
(* As in PhoneBook, a committed SQL statement is one step, and so is a     *)
(* pass through a VerticalList or a MessageDialog: its result is any it    *)
(* can return.  The write screen edits its text with Draft's operations,   *)
(* which are TextInputLong's (module LongText).  A message is its text:    *)
(* sender, time stamp and is_read are shown and decide the order of a      *)
(* list, nothing else.                                                     *)
(***************************************************************************)
EXTENDS Integers, Sequences, FiniteSets

CONSTANTS Chars,        \* characters a text is made of
          Seeds,        \* texts of the messages the tool inserts
          Batch,        \* how many it inserts
          MaxId,        \* bound: identifiers each table issues
          MaxText       \* bound: characters of a text

Text == Seq(Chars)

ASSUME MessagesAssumption ==
    /\ Seeds \subseteq Text
    /\ Batch \in Nat
    /\ MaxId \in Nat
    /\ MaxText \in Nat

VARIABLES
    inbox,     \* the tables: functions from id to the text of the row
    outbox,
    seq,       \* the last id each has issued (AUTOINCREMENT)
    at,        \* where the phone's thread is
    folder,    \* the table whose list is open
    listed,    \* the rows it fetched
    target,    \* the id of the row that is open
    draft      \* the text of the write screen

database == <<inbox, outbox, seq>>
reading  == <<folder, listed, target>>
vars     == <<database, at, reading, draft>>

Folders == {"Inbox", "Outbox"}

\* The screens of one message, and those around the text being written.
Reading == {"detail", "options", "no_telephony"}
Writing == {"write", "write_options", "write_told"}
Points  == Reading \cup Writing
              \cup {"boot", "crashed", "home", "menu", "fetch", "empty", "list", "erased"}

IsRows(f, last) == DOMAIN f \subseteq 1..last /\ f \in [DOMAIN f -> Text]

Table == IF folder = "Inbox" THEN inbox ELSE outbox

TypeOK ==
    /\ seq \in [Folders -> 0..MaxId]
    /\ IsRows(inbox, seq["Inbox"])
    /\ IsRows(outbox, seq["Outbox"])
    /\ at \in Points
    /\ folder \in Folders
    /\ IsRows(listed, seq[folder])
    /\ target \in IF at \in Reading THEN DOMAIN listed ELSE {0}
    /\ draft \in IF at \in Writing THEN Text ELSE {<<>>}

Init ==
    /\ inbox = <<>>
    /\ outbox = <<>>
    /\ seq = [f \in Folders |-> 0]
    /\ at = "boot"
    /\ folder = "Inbox"
    /\ listed = <<>>
    /\ target = 0
    /\ draft = <<>>

-----------------------------------------------------------------------------
(* The statements.                                                         *)

\* f with n rows more, whose ids follow the last one issued.
Inserted(f, last, rows, n) ==
    [id \in DOMAIN f \cup (last + 1)..(last + n) |->
        IF id \in DOMAIN f THEN f[id] ELSE rows[id - last]]

Deleted(f, id) == [i \in DOMAIN f \ {id} |-> f[i]]

Go(point) == at' = point

\* The screen of a list, of a message or of a text is left: its locals are gone.
LeaveTo(point) ==
    /\ Go(point)
    /\ folder' = "Inbox"
    /\ listed' = <<>>
    /\ target' = 0
    /\ draft' = <<>>

-----------------------------------------------------------------------------
(* Boot.  The second half of init_databases makes the tables; an exception *)
(* ends the process.                                                       *)

Boot ==
    /\ at = "boot"
    /\ at' \in {"home", "crashed"}
    /\ UNCHANGED <<database, reading, draft>>

-----------------------------------------------------------------------------
(* The menu.                                                               *)

OpenApp ==
    /\ at = "home"
    /\ Go("menu")
    /\ UNCHANGED <<database, reading, draft>>

MenuChoice ==
    /\ at = "menu"
    /\ \/ at' \in {"home", "write"} /\ UNCHANGED folder
       \/ folder' \in Folders /\ Go("fetch")
    /\ UNCHANGED <<database, listed, target, draft>>

-----------------------------------------------------------------------------
(* _show_inbox and _show_outbox: a loop that fetches, lists and opens.     *)

\* Fault: the rows are fetched once, before the loop.
Fetch_Once ==
    /\ at = "fetch"
    /\ IF listed # <<>> THEN Go("list") /\ UNCHANGED listed
       ELSE IF DOMAIN Table = {} THEN Go("empty") /\ UNCHANGED listed
       ELSE Go("list") /\ listed' = Table
    /\ UNCHANGED <<database, folder, target, draft>>

Fetch ==
    /\ at = "fetch"
    /\ IF DOMAIN Table = {}
       THEN Go("empty") /\ listed' = <<>>
       ELSE Go("list") /\ listed' = Table
    /\ UNCHANGED <<database, folder, target, draft>>

EmptyShown ==
    /\ at = "empty"
    /\ LeaveTo("menu")
    /\ UNCHANGED database

\* messages[selection_index]: the row behind the highlighted line.
Open ==
    /\ at = "list"
    /\ \/ LeaveTo("menu")
       \/ /\ target' \in DOMAIN listed
          /\ Go("detail")
          /\ UNCHANGED <<folder, listed, draft>>
    /\ UNCHANGED database

\* _show_message_detail: Back returns None, and the loop fetches again.
Detail ==
    /\ at = "detail"
    /\ \/ Go("fetch") /\ target' = 0
       \/ Go("options") /\ UNCHANGED target
    /\ UNCHANGED <<database, folder, listed, draft>>

\* Options: Back, or Send, which only the outbox offers.
Options ==
    /\ at = "options"
    /\ \/ Go("detail")
       \/ folder = "Outbox" /\ Go("no_telephony")
    /\ UNCHANGED <<database, reading, draft>>

NoticeShown ==
    /\ at = "no_telephony"
    /\ Go("detail")
    /\ UNCHANGED <<database, reading, draft>>

\* Fault: the row is looked for in the inbox, whatever is open.
Erase_FromInbox ==
    /\ at = "options"
    /\ inbox' = Deleted(inbox, target)
    /\ Go("erased")
    /\ target' = 0
    /\ UNCHANGED <<outbox, seq, folder, listed, draft>>

Erase ==
    /\ at = "options"
    /\ \/ folder = "Inbox" /\ inbox' = Deleted(inbox, target) /\ UNCHANGED outbox
       \/ folder = "Outbox" /\ outbox' = Deleted(outbox, target) /\ UNCHANGED inbox
    /\ Go("erased")
    /\ target' = 0
    /\ UNCHANGED <<seq, folder, listed, draft>>

\* After "Erased!" the detail screen returns "deleted" and the loop goes on.
ErasedShown ==
    /\ at = "erased"
    /\ Go("fetch")
    /\ UNCHANGED <<database, reading, draft>>

-----------------------------------------------------------------------------
(* _show_write_message.                                                    *)

Editor == INSTANCE Draft WITH text <- draft

Edit ==
    /\ at = "write"
    /\ \/ Len(draft) < MaxText /\ \E c \in Chars : Editor!Type(c)
       \/ Editor!EraseLast
       \/ Editor!Clear
    /\ UNCHANGED <<database, at, reading>>

LeaveWrite ==
    /\ at = "write"
    /\ draft = <<>>
    /\ LeaveTo("menu")
    /\ UNCHANGED database

OpenOptions ==
    /\ at = "write"
    /\ Go("write_options")
    /\ UNCHANGED <<database, reading, draft>>

\* Back returns to the text; Send says that it needs telephony.
WriteOptions ==
    /\ at = "write_options"
    /\ at' \in {"write", "write_told"}
    /\ UNCHANGED <<database, reading, draft>>

\* The text stays on the screen, so it may be saved again.
Save ==
    /\ at = "write_options"
    /\ seq["Outbox"] < MaxId
    /\ outbox' = Inserted(outbox, seq["Outbox"], <<draft>>, 1)
    /\ seq' = [seq EXCEPT !["Outbox"] = @ + 1]
    /\ Go("write_told")
    /\ UNCHANGED <<inbox, reading, draft>>

ToldShown ==
    /\ at = "write_told"
    /\ Go("write")
    /\ UNCHANGED <<database, reading, draft>>

-----------------------------------------------------------------------------
(* Around the app.                                                         *)

\* A statement fails (the database is locked, the disk is full).  Nothing in
\* the app or in launch_app catches it.
StatementFails ==
    /\ at \in {"fetch", "options", "write_options"}
    /\ LeaveTo("crashed")
    /\ UNCHANGED database

\* The phone is switched off and on, or restarted after a crash.
Restart ==
    /\ LeaveTo("boot")
    /\ UNCHANGED database

\* seed_inbox inserts its rows in one transaction; a failure inserts none.
ToolSeeds ==
    /\ seq["Inbox"] + Batch <= MaxId
    /\ \E rows \in [1..Batch -> Seeds] :
          inbox' = Inserted(inbox, seq["Inbox"], rows, Batch)
    /\ seq' = [seq EXCEPT !["Inbox"] = @ + Batch]
    /\ UNCHANGED <<outbox, at, reading, draft>>

Read  == Fetch \/ EmptyShown \/ Open \/ Detail \/ Options \/ NoticeShown \/ Erase
            \/ ErasedShown
Write == Edit \/ LeaveWrite \/ OpenOptions \/ WriteOptions \/ Save \/ ToldShown

Next == Boot \/ OpenApp \/ MenuChoice \/ Read \/ Write \/ StatementFails \/ Restart
           \/ ToolSeeds

Spec == Init /\ [][Next]_vars

-----------------------------------------------------------------------------
(* Properties.                                                             *)

\* The message on the screen, with its options, is a row of the table it was
\* listed from and says what the row says: no erased message can be opened
\* again, and "Erased!" is true when it is shown.
OpenIsStored ==
    at \in Reading => target \in DOMAIN Table /\ Table[target] = listed[target]

\* Messages keeps the promises of Mailbox.
Mail == INSTANCE Mailbox WITH
    open <- IF at \in Reading
            THEN {[folder |-> folder, id |-> target, text |-> listed[target]]} ELSE {},
    up   <- at \notin {"boot", "crashed"}

ImplementsMailbox == Mail!Spec
=============================================================================
