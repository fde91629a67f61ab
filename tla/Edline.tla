------------------------------- MODULE Edline -------------------------------
(* edline.c: the prompt on which the net filter and the screen filter are    *)
(* edited.  The text lives in a heap buffer of slen bytes that is doubled    *)
(* when it is full, the cursor is an index into it, and a window of the text *)
(* slides so that the cursor stays on the line.  Characters of str are       *)
(* numbered from 0 as in the code; At(Len(str)) is the terminating NUL.      *)
EXTENDS Integers, Sequences

CONSTANTS Char, Space,   \* printable characters, and the blank ones among them
          Initials,      \* the values options.filtercode can have, NULL included
          NULL, NUL,
          COLS,          \* width of the terminal
          Prompt,        \* strlen(prompt)
          MaxLen         \* bound on the text typed

xstart == Prompt + 2

(* The filter the prompt starts with was typed or is NULL.                   *)
ASSUME EdlineAssumption ==
  /\ Initials \subseteq Seq(Char) \cup {NULL}
  /\ COLS \in Nat /\ Prompt \in Nat /\ MaxLen \in Nat

VARIABLES str, slen,     \* the text without its NUL, and the size of the buffer
          pos,           \* the cursor
          state          \* "editing", "accepted" or "cancelled"

vars == <<str, slen, pos, state>>

Init == /\ \E initial \in Initials :
             IF initial = NULL
             THEN str = << >> /\ slen = 256
             ELSE str = initial /\ slen = Len(initial) * 2 + 1
        /\ pos = Len(str)
        /\ state = "editing"

At(i) == IF i = Len(str) THEN NUL ELSE str[i + 1]

(* memmove(str + to, str + from, ...) with to < from: drop what lies between.*)
Cut(to, from) == SubSeq(str, 1, to) \o SubSeq(str, from + 1, Len(str))

Edits(s, p) == str' = s /\ pos' = p /\ slen' = slen

ClearLine == Edits(<< >>, 0)

KeyLeft == Edits(str, IF pos - 1 < 0 THEN 0 ELSE pos - 1)

KeyRight == Edits(str, IF pos + 1 > Len(str) THEN Len(str) ELSE pos + 1)

KeyHome == Edits(str, 0)

KeyEnd == Edits(str, Len(str))

KeyDelete == Edits(IF pos = Len(str) THEN str ELSE Cut(pos, pos + 1), pos)

KeyBackspace == IF pos = 0 THEN Edits(str, pos) ELSE Edits(Cut(pos - 1, pos), pos - 1)

(* The indices up to the cursor, from 1, at which the text has a blank.      *)
Blanks == {j \in 1 .. pos : At(j) \in Space}

(* The index at which a loop that walks left from i stops.                   *)
WalkLeft(i, stops) ==
  CHOOSE j \in 0 .. i : /\ j = 0 \/ j \in stops
                        /\ \A k \in j + 1 .. i : k \notin stops

MutantWordStart == WalkLeft(WalkLeft(pos, Blanks), (1 .. pos) \ Blanks)

(* ^W: past the blanks at the cursor, then back to the blank before the word.*)
WordStart == WalkLeft(WalkLeft(pos, (1 .. pos) \ Blanks), Blanks)

KeyEraseWord == Edits(Cut(WordStart, pos), WordStart)

MutantTooFull == Len(str) = slen

Full == Len(str) = slen - 1

KeyPrintable == /\ Len(str) < MaxLen
                /\ \E c \in Char :
                     /\ str' = SubSeq(str, 1, pos) \o <<c>> \o SubSeq(str, pos + 1, Len(str))
                     /\ pos' = pos + 1
                /\ slen' = IF Full THEN slen * 2 ELSE slen

(* ERR when no key comes, and keys that only beep.                           *)
KeyIgnored == Edits(str, pos)

Edit == \/ ClearLine \/ KeyLeft \/ KeyRight \/ KeyHome \/ KeyEnd \/ KeyDelete
        \/ KeyBackspace \/ KeyEraseWord \/ KeyPrintable \/ KeyIgnored

(* KEY_ENTER or \r return the text; ESC and ^G return NULL.                  *)
Return == /\ state' \in {"accepted", "cancelled"}
          /\ UNCHANGED <<str, slen, pos>>

Done == state # "editing" /\ UNCHANGED vars

Next == \/ state = "editing" /\ Edit /\ state' = state
        \/ state = "editing" /\ Return
        \/ Done

Spec == Init /\ [][Next]_vars

(* What the prompt leaves of the line, nothing or less on a narrow terminal. *)
room == COLS - xstart - 1

(* The first character shown.                                                *)
off == IF pos > room THEN pos - room ELSE 0

(* The number of characters shown.                                           *)
shown == IF Len(str) - off < room THEN Len(str) - off ELSE room

-----------------------------------------------------------------------------
TypeOK == /\ str \in Seq(Char)
          /\ slen \in Nat
          /\ pos \in 0 .. Len(str)
          /\ state \in {"editing", "accepted", "cancelled"}

(* The buffer always has room for the text and its NUL, whatever the initial *)
(* text was, an empty one included, and however often the buffer is doubled, *)
(* on a terminal of any width.  If the terminal is wide enough for the       *)
(* prompt, the cursor stays on the line and the window does not start past   *)
(* the end of the text, however long that gets; and if there is room for one *)
(* character of the text, the one just left of the cursor, which the user    *)
(* typed last, is on the screen.  edline() does not look whether there is    *)
(* room: on a narrower terminal the window starts past the cursor and may    *)
(* start past the text (edline.c:123-130).                                   *)
TextFits ==
  /\ TypeOK
  /\ Len(str) + 1 <= slen
  /\ room >= 0 => off <= Len(str) /\ xstart + pos - off \in xstart .. COLS - 1
  /\ room >= 1 /\ pos > 0 => pos - 1 \in off .. off + shown - 1

Text == INSTANCE LineEditor WITH before <- SubSeq(str, 1, pos),
                                 after <- SubSeq(str, pos + 1, Len(str))

(* Buffer, indices and memmoves amount to an editor of the text around the   *)
(* cursor: no key changes text it is not next to, and ^W takes one word.     *)
EditsTheLine == Text!Spec
=============================================================================
