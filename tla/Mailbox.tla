------------------------------ MODULE Mailbox -------------------------------
(***************************************************************************)
(* What Messages promises its user.  A filed message is the text that was  *)
(* on the screen; a message stays, unchanged, until it is erased while it  *)
(* is open, and erasing takes no other; a text being written is lost only  *)
(* when the phone goes down.                                               *)
(***************************************************************************)
CONSTANT Chars          \* characters a text is made of

VARIABLES inbox, outbox,   \* the messages: functions from identities to texts
          open,            \* the message being read: a set of one, or none
          draft,           \* the text being written
          up               \* the phone is running

mailbox == <<inbox, outbox, open, draft, up>>

Writing == INSTANCE Draft WITH text <- draft

Init ==
    /\ inbox = <<>>
    /\ outbox = <<>>
    /\ open = {}
    /\ draft = <<>>
    /\ up = FALSE

\* Everything in f is still in g as it was.
Keeps(f, g) == \A id \in DOMAIN f : id \in DOMAIN g /\ g[id] = f[id]

Deliver ==
    /\ Keeps(inbox, inbox')
    /\ UNCHANGED <<outbox, open, draft, up>>

\* One message more, and it says what the draft says.
File ==
    /\ up
    /\ Keeps(outbox, outbox')
    /\ \E id \in DOMAIN outbox' : /\ DOMAIN outbox' \ DOMAIN outbox = {id}
                                  /\ outbox'[id] = draft
    /\ UNCHANGED <<inbox, open, draft, up>>

IsIn(f, m) == m.id \in DOMAIN f /\ f[m.id] = m.text

ReadFrom(name, f) ==
    /\ up
    /\ \E id \in DOMAIN f : open' = {[folder |-> name, id |-> id, text |-> f[id]]}
    /\ UNCHANGED <<inbox, outbox, draft, up>>

Read == ReadFrom("Inbox", inbox) \/ ReadFrom("Outbox", outbox)

Close ==
    /\ open' = {}
    /\ UNCHANGED <<inbox, outbox, draft, up>>

Without(f, id) == [i \in DOMAIN f \ {id} |-> f[i]]

\* m is erased, from the folder it was read in.
Erase(m) ==
    /\ \/ /\ m.folder = "Inbox" /\ IsIn(inbox, m)
          /\ inbox' = Without(inbox, m.id)
          /\ UNCHANGED outbox
       \/ /\ m.folder = "Outbox" /\ IsIn(outbox, m)
          /\ outbox' = Without(outbox, m.id)
          /\ UNCHANGED inbox
    /\ open' = {}
    /\ UNCHANGED <<draft, up>>

Write == up /\ Writing!Next /\ UNCHANGED <<inbox, outbox, open, up>>

Start == up' = TRUE /\ UNCHANGED <<inbox, outbox, open, draft>>

GoDown ==
    /\ up' = FALSE
    /\ open' = {}
    /\ draft' = <<>>
    /\ UNCHANGED <<inbox, outbox>>

Next == \/ Deliver \/ File \/ Read \/ Close \/ Write \/ Start \/ GoDown
        \/ \E m \in open : Erase(m)

Spec == Init /\ [][Next]_mailbox
=============================================================================
