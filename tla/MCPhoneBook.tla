---------------------------- MODULE MCPhoneBook -----------------------------
(* Model checking PhoneBook: the values of its constants. *)
EXTENDS PhoneBook

CONSTANTS ann, bob, num, nil, any, one

MCSupport == [name |-> bob, number |-> num]

\* One query finds both names, the other only one.
MCMatches == [q \in {any, one} |-> IF q = any THEN {ann, bob} ELSE {ann}]
=============================================================================
