------------------------------ MODULE Textbox ------------------------------
(***************************************************************************)
(* dialog_textbox() (lxdialog/textbox.c), a text that is read page by      *)
(* page.  page is a pointer into the text: before a page is printed to its *)
(* first line, after it behind its last.  Here it is the number of lines   *)
(* above it; a text of n lines that ends with a newline has, as get_line() *)
(* reads it, one more and empty line n, where the pointer stays.  Each key *)
(* goes back from the end of the page that is shown (back_lines) and       *)
(* prints the next page from there.  The variables are static in the C     *)
(* code too: one text box has to end before another begins.                *)
(***************************************************************************)
EXTENDS Integers

CONSTANTS TextFrame,   \* the lines of the terminal the text does not get
          TextMin,     \* TEXTBOX_HEIGTH_MIN
          MaxScroll    \* MAX_LEN, the bound of hscroll

ASSUME TextboxAssumption == TextFrame \in Nat /\ TextFrame >= 4 /\ MaxScroll \in Nat

VARIABLES buf,             \* [lines, tail, marks]: the number of newlines,
                           \* whether text follows the last, and update_text
          boxh,            \* the lines of the box
          fixed,           \* initial_height, 0 for the height of the terminal
          page, begin_reached, end_reached, page_length, hscroll,
          top,             \* the first line on the screen
          vscroll,         \* the caller's *_vscroll
          text_result      \* how the call ended, or "open"

textVars == <<buf, boxh, fixed, page, begin_reached, end_reached, page_length, hscroll, top,
              vscroll, text_result>>

NoText == [lines |-> 0, tail |-> FALSE, marks |-> FALSE]

\* Where the null character is.
End(b) == IF b.tail THEN b.lines + 1 ELSE b.lines

Low(a, b) == IF a < b THEN a ELSE b
High(a, b) == IF a > b THEN a ELSE b

\* The pointer and its two flags.
State == [page |-> page, begin |-> begin_reached, end |-> end_reached]

\* get_line() n times: the calls that reach the null character set the flag.
CallsToEnd(b, p) == IF b.tail /\ p < End(b) THEN End(b) - p ELSE End(b) - p + 1
get_lines(b, st, n) ==
    [st EXCEPT !.page = Low(st.page + n, End(b)),
               !.end = IF n = 0 THEN st.end ELSE n >= CallsToEnd(b, st.page)]

\* Back n lines.  The first step from the end of the text, when get_line()
\* has seen it, only clears the flag.
back_lines(b, st, n) ==
    LET seen == n > 0 /\ st.page = End(b) /\ st.end
        k == IF seen THEN n - 1 ELSE n
    IN  [page |-> High(st.page - k, 0),
         begin |-> k > 0 /\ st.page - k <= 0,
         end |-> st.end /\ ~seen]

\* A page is printed from where the pointer is.  A text with jump keys is
\* first read one page on and back, to find the keys of the page.
print_page(b, st, h) ==
    LET from == IF b.marks THEN back_lines(b, get_lines(b, st, h), h) ELSE st
        after == get_lines(b, from, h)
    IN  /\ top' = from.page
        /\ page' = after.page /\ end_reached' = after.end /\ begin_reached' = from.begin
        /\ page_length' = Low(h, CallsToEnd(b, from.page))

Height(size, f) == IF f # 0 THEN f - 4 ELSE size - TextFrame

dialog_textbox(size, b, f, v, h) ==
    /\ text_result # "open"
    /\ buf' = b /\ fixed' = f /\ hscroll' = h /\ vscroll' = v
    /\ boxh' = Height(size, f)
    /\ IF size < TextMin
       THEN text_result' = "small" /\ UNCHANGED <<page, begin_reached, end_reached, page_length, top>>
       ELSE /\ text_result' = "open"
            /\ print_page(b, get_lines(b, [page |-> 0, begin |-> v = 0, end |-> FALSE], v),
                          Height(size, f))

\* Every call sets the static variables before it uses them.
TextGone == /\ buf' = NoText /\ boxh' = 0 /\ fixed' = 0 /\ page' = 0 /\ begin_reached' = TRUE
            /\ end_reached' = FALSE /\ page_length' = 0 /\ hscroll' = 0 /\ top' = 0
            /\ vscroll' = 0 /\ text_result' = "gone"

Showing == text_result = "open"
Turn(st) == print_page(buf, st, boxh) /\ UNCHANGED <<buf, boxh, fixed, hscroll, vscroll, text_result>>
Back(n) == back_lines(buf, State, n)

TextHome == Showing /\ ~begin_reached /\ Turn([State EXCEPT !.page = 0, !.begin = TRUE])
TextEnd == Showing /\ Turn(back_lines(buf, [State EXCEPT !.page = End(buf), !.end = TRUE], boxh))
TextUp == Showing /\ ~begin_reached /\ Turn(Back(page_length + 1))
TextPageUp == Showing /\ ~begin_reached /\ Turn(Back(page_length + boxh))
TextDown == Showing /\ ~end_reached /\ Turn(Back(page_length - 1))
\* Mutant: the flag of the first page is not cleared.
TextPageDown_Stale == Showing /\ ~end_reached /\ Turn(State)
TextPageDown == Showing /\ ~end_reached /\ Turn([State EXCEPT !.begin = FALSE])

TextScroll(h) ==
    /\ Showing /\ hscroll' = h
    /\ print_page(buf, Back(page_length), boxh)
    /\ UNCHANGED <<buf, boxh, fixed, vscroll, text_result>>
TextLeft == hscroll > 0 /\ \E h \in {0, hscroll - 1} : TextScroll(h)
TextRight == hscroll < MaxScroll /\ TextScroll(hscroll + 1)

\* Back by the height of the dialog, which is four lines more than the page:
\* the text moves up with every change of the terminal's size.
TextResize(old, size) ==
    /\ Showing
    /\ boxh' = Height(size, fixed)
    /\ LET st == Back(IF fixed # 0 THEN fixed ELSE old - 4)
       IN  IF size < TextMin
           THEN /\ text_result' = "small"
                /\ page' = st.page /\ begin_reached' = st.begin /\ end_reached' = st.end
                /\ UNCHANGED <<page_length, top>>
           ELSE UNCHANGED text_result /\ print_page(buf, st, boxh')
    /\ UNCHANGED <<buf, fixed, hscroll, vscroll>>

\* The caller is told the line to begin with when the text is shown again.
TextClose(code) ==
    /\ Showing /\ text_result' = code
    /\ LET st == Back(page_length)
       IN  vscroll' = st.page /\ page' = st.page /\ begin_reached' = st.begin /\ end_reached' = st.end
    /\ UNCHANGED <<buf, boxh, fixed, page_length, hscroll, top>>

(***************************************************************************)
(* The box by itself, for every text, and every height that leaves lines   *)
(* for it.                                                                 *)
(***************************************************************************)
Texts == [lines : Nat, tail : BOOLEAN, marks : BOOLEAN]
Roomy == {size \in Nat : size > TextFrame}

TextInit == /\ buf = NoText /\ boxh = 0 /\ fixed = 0 /\ page = 0 /\ begin_reached = TRUE
            /\ end_reached = FALSE /\ page_length = 0 /\ hscroll = 0 /\ top = 0
            /\ vscroll = 0 /\ text_result = "gone"

TextKey == \/ TextHome \/ TextEnd \/ TextUp \/ TextDown \/ TextPageUp \/ TextPageDown
           \/ TextLeft \/ TextRight \/ TextClose("exit")

TextNext == \/ TextKey \/ TextGone
            \/ \E code : code # "open" /\ TextClose(code)
            \/ \E old, size \in Roomy : TextResize(old, size)
            \/ \E size \in Roomy, b \in Texts, f \in {0} \cup {n \in Nat : n > 4},
                  v \in Nat, h \in 0..MaxScroll : dialog_textbox(size, b, f, v, h)

TextSpec == TextInit /\ [][TextNext]_textVars

\* A key that does nothing is one that has nothing to show: Up is refused
\* only when the first line is on the screen, Down only when the last one
\* is, so every line of a text can be reached.
EdgesAreKnown ==
    Showing => /\ begin_reached => top = 0
               /\ end_reached <=> top + boxh > (IF buf.tail THEN End(buf) - 1 ELSE End(buf))

=============================================================================
