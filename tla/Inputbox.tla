------------------------------ MODULE Inputbox ------------------------------
(***************************************************************************)
(* dialog_inputbox() (lxdialog/inputbox.c), a line of text that is edited  *)
(* in a field of box_width cells.  The field shows the text from show_x;   *)
(* the cursor is on the cell input_x of the field and before the character *)
(* pos of the text.  Each key prints what it changes only, so the cells    *)
(* are a state of their own.  dialog_input_result, where the text is, is   *)
(* one for all input boxes and outlives them.                              *)
(***************************************************************************)
EXTENDS Integers, Sequences

CONSTANTS Charset,     \* the characters a text may have
          Chars,       \* those that can be typed (isprint())
          Blank,       \* the character of an empty cell
          box_width,
          MaxLen,      \* MAX_LEN
          FieldNeeds   \* the lines the terminal must have

ASSUME InputboxAssumption ==
    box_width \in Nat \ {0, 1} /\ MaxLen \in Nat \ {0} /\ Chars \subseteq Charset

VARIABLES instr,          \* dialog_input_result
          pos, show_x, input_x,
          cells,          \* what the cells of the field show
          field_button,   \* -1 the field, 0 Ok, 1 Help
          field_result    \* 0 Ok, 1 Help, or one of the below

fieldVars == <<instr, pos, show_x, input_x, cells, field_button, field_result>>

FieldOpen == -1
FieldEscaped == -2    \* KEY_ESC
FieldSmall == -3   \* the display is too small

Cell == 0..(box_width - 1)
EmptyField == [i \in Cell |-> Blank]

\* The text from character x on, up to the end of the field, and one blank
\* after its end; the other cells keep what they showed.
Printed(c, text, x) ==
    [i \in Cell |-> IF x + i < Len(text) THEN text[x + i + 1]
                    ELSE IF x + i = Len(text) THEN Blank ELSE c[i]]

\* do_resize: the cursor at the end of the text.  A text as long as the
\* field leaves the last cell for the cursor.
FieldShow(text) ==
    LET long == Len(text) >= box_width
        x == IF long THEN Len(text) - box_width + 1 ELSE 0
    IN  /\ pos' = Len(text) /\ show_x' = x
        /\ input_x' = IF long THEN box_width - 1 ELSE Len(text)
        /\ cells' = [i \in Cell |-> IF x + i < Len(text) THEN text[x + i + 1] ELSE Blank]

dialog_inputbox(size, init) ==
    /\ field_result # FieldOpen
    /\ instr' = init
    /\ field_button' = -1
    /\ IF size < FieldNeeds
       THEN field_result' = FieldSmall /\ UNCHANGED <<pos, show_x, input_x, cells>>
       ELSE field_result' = FieldOpen /\ FieldShow(init)

FieldGone == /\ instr' = <<>> /\ pos' = 0 /\ show_x' = 0 /\ input_x' = 0 /\ cells' = EmptyField
             /\ field_button' = -1 /\ field_result' = FieldEscaped

FieldResize(size) ==
    /\ field_result = FieldOpen
    /\ IF size < FieldNeeds
       THEN field_result' = FieldSmall /\ UNCHANGED <<pos, show_x, input_x, cells>>
       ELSE UNCHANGED field_result /\ FieldShow(instr)
    /\ UNCHANGED <<instr, field_button>>

Editing == field_result = FieldOpen /\ field_button = -1

Edit(text, p, x, at, c) ==
    /\ Editing
    /\ instr' = text /\ pos' = p /\ show_x' = x /\ input_x' = at /\ cells' = c
    /\ UNCHANGED <<field_button, field_result>>

\* Mutant: the text does not scroll back when the cursor is on the first cell.
Backspace_Stays ==
    /\ Editing /\ pos > 0
    /\ LET text == SubSeq(instr, 1, pos - 1) \o SubSeq(instr, pos + 1, Len(instr))
       IN  Edit(text, pos - 1, show_x, IF input_x = 0 THEN 0 ELSE input_x - 1,
                Printed(cells, text, show_x))
Backspace ==
    /\ Editing /\ pos > 0
    /\ LET text == SubSeq(instr, 1, pos - 1) \o SubSeq(instr, pos + 1, Len(instr))
           x == IF input_x = 0 THEN show_x - 1 ELSE show_x
       IN  Edit(text, pos - 1, x, IF input_x = 0 THEN 0 ELSE input_x - 1, Printed(cells, text, x))

FieldLeft ==
    /\ Editing /\ pos > 0
    /\ \/ input_x > 0 /\ Edit(instr, pos - 1, show_x, input_x - 1, cells)
       \/ input_x = 0 /\ Edit(instr, pos - 1, show_x - 1, 0, Printed(cells, instr, show_x - 1))

FieldRight ==
    /\ Editing /\ pos < Len(instr)
    /\ \/ input_x < box_width - 1 /\ Edit(instr, pos + 1, show_x, input_x + 1, cells)
       \/ /\ input_x = box_width - 1
          /\ Edit(instr, pos + 1, show_x + 1, input_x, Printed(cells, instr, show_x + 1))

Typed(k) ==
    /\ Editing /\ Len(instr) < MaxLen
    /\ LET text == SubSeq(instr, 1, pos) \o <<k>> \o SubSeq(instr, pos + 1, Len(instr))
           full == input_x = box_width - 1
           x == IF full THEN show_x + 1 ELSE show_x
       IN  Edit(text, pos + 1, x, IF full THEN input_x ELSE input_x + 1, Printed(cells, text, x))

\* The keys that go around the field, Ok and Help; left and right only when
\* the field does not take them.
FieldTab(step) ==
    /\ field_result = FieldOpen
    /\ field_button' = ((field_button + 1 + step) % 3) - 1
    /\ UNCHANGED <<instr, pos, show_x, input_x, cells, field_result>>

\* Enter, or on a button the blank; on a button also o and h.
FieldReturn(code) ==
    /\ field_result = FieldOpen
    /\ \/ code = IF field_button = -1 THEN 0 ELSE field_button
       \/ field_button # -1 /\ code \in {0, 1}
    /\ field_result' = code
    /\ UNCHANGED <<instr, pos, show_x, input_x, cells, field_button>>

FieldEscape == /\ field_result = FieldOpen /\ field_result' = FieldEscaped
               /\ UNCHANGED <<instr, pos, show_x, input_x, cells, field_button>>

(***************************************************************************)
(* The box by itself, for whatever texts the buffer has room for.          *)
(***************************************************************************)
FieldTexts == {t \in Seq(Charset) : Len(t) <= MaxLen}

FieldInit == /\ instr = <<>> /\ pos = 0 /\ show_x = 0 /\ input_x = 0 /\ cells = EmptyField
             /\ field_button = -1 /\ field_result = FieldEscaped

FieldKey == \/ Backspace \/ FieldLeft \/ FieldRight \/ FieldEscape
            \/ \E c \in Chars : Typed(c)
            \/ \E step \in {-1, 1} : FieldTab(step)
            \/ \E code \in {0, 1} : FieldReturn(code)

FieldNext == \/ FieldKey \/ FieldGone
             \/ \E size \in Nat : FieldResize(size)
             \/ \E size \in Nat, init \in FieldTexts : dialog_inputbox(size, init)

FieldSpec == FieldInit /\ [][FieldNext]_fieldVars

\* The field shows the text that will be returned, around the place where
\* the next character goes: every cell shows the text's character or a
\* blank, and the cell of the cursor is that of the character at pos, after
\* any editing of a text longer than the field.
FieldShowsTheText ==
    field_result = FieldOpen =>
      /\ pos = show_x + input_x /\ input_x \in Cell
      /\ show_x >= 0 /\ pos <= Len(instr) /\ Len(instr) <= MaxLen
      /\ cells = [i \in Cell |-> IF show_x + i < Len(instr) THEN instr[show_x + i + 1] ELSE Blank]
=============================================================================
