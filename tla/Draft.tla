------------------------------- MODULE Draft --------------------------------
(***************************************************************************)
(* What the editor of a long text does to it: characters come and go at    *)
(* the end, or the whole text goes.  TextInputLong implements this, and    *)
(* the write screen of Messages is written with it.                        *)
(***************************************************************************)
EXTENDS Sequences, Integers

CONSTANT Chars
VARIABLE text

Init == text = <<>>

Type(c) == text' = Append(text, c)

EraseLast == text # <<>> /\ text' = SubSeq(text, 1, Len(text) - 1)

Clear == text # <<>> /\ text' = <<>>

Next == (\E c \in Chars : Type(c)) \/ EraseLast \/ Clear

Spec == Init /\ [][Next]_text
=============================================================================
