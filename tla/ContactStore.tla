---------------------------- MODULE ContactStore ----------------------------
(***************************************************************************)
(* What the phone book promises its user: a contact keeps its identity for *)
(* life, and the phone changes or erases no contact but the one the user   *)
(* chose, as the user saw it when choosing it.                             *)
(***************************************************************************)
CONSTANT Entry         \* what a contact may say: its name and number

VARIABLES book,        \* the contacts: a function from identities to entries
          issued,      \* every identity there has ever been
          chosen       \* the contact the user chose, as it was shown: a set of
                       \*   one contact, or none

store == <<book, issued, chosen>>

Init ==
    /\ book = <<>>
    /\ issued = {}
    /\ chosen = {}

Choose(id, entry) ==
    /\ id \in issued
    /\ chosen' = {[id |-> id, entry |-> entry]}
    /\ UNCHANGED <<book, issued>>

Leave ==
    /\ chosen' = {}
    /\ UNCHANGED <<book, issued>>

\* New contacts get identities nobody has ever had; the others stay.
Enter ==
    /\ issued \subseteq issued'
    /\ DOMAIN book' = DOMAIN book \cup (issued' \ issued)
    /\ \A id \in DOMAIN book' :
           IF id \in DOMAIN book THEN book'[id] = book[id] ELSE book'[id] \in Entry
    /\ UNCHANGED chosen

\* The contact on the screen is still what the user saw, or gone.
IsCurrent(c) == c.id \in DOMAIN book => book[c.id] = c.entry

Amend(c, entry) ==
    /\ IsCurrent(c)
    /\ book' = [id \in DOMAIN book |-> IF id = c.id THEN entry ELSE book[id]]
    /\ chosen' = {}
    /\ UNCHANGED issued

Strike(c) ==
    /\ IsCurrent(c)
    /\ book' = [id \in DOMAIN book \ {c.id} |-> book[id]]
    /\ chosen' = {}
    /\ UNCHANGED issued

\* Somebody outside the phone clears the book.
Clear ==
    /\ book' = <<>>
    /\ UNCHANGED <<issued, chosen>>

Next ==
    \/ \E id \in issued, entry \in Entry : Choose(id, entry)
    \/ Leave
    \/ Enter
    \/ \E c \in chosen, entry \in Entry : Amend(c, entry)
    \/ \E c \in chosen : Strike(c)
    \/ Clear

Spec == Init /\ [][Next]_store
=============================================================================
