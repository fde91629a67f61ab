----------------------------- MODULE LineEditor -----------------------------
(* What a one-line editor promises its user: there is the text before the    *)
(* cursor and the text after it, and each key touches only the text next to  *)
(* the cursor.  There is no buffer, no capacity and no screen here.  Edline  *)
(* is shown to implement it.                                                 *)
EXTENDS Naturals, Sequences

CONSTANTS Char,          \* the printable characters
          Space          \* the ones that separate words

VARIABLES before, after, \* the text on either side of the cursor
          state          \* "editing", "accepted" or "cancelled"

vars == <<before, after, state>>

Init == /\ before \in Seq(Char)
        /\ after = << >>
        /\ state = "editing"

Type == \E c \in Char : before' = Append(before, c) /\ after' = after

ButLast(s) == SubSeq(s, 1, Len(s) - 1)

Backspace == before # << >> /\ before' = ButLast(before) /\ after' = after

Delete == after # << >> /\ after' = Tail(after) /\ before' = before

Left == /\ before # << >>
        /\ before' = ButLast(before)
        /\ after' = <<before[Len(before)]>> \o after

Right == /\ after # << >>
         /\ before' = Append(before, Head(after))
         /\ after' = Tail(after)

Home == before' = << >> /\ after' = before \o after

End == before' = before \o after /\ after' = << >>

Clear == before' = << >> /\ after' = << >>

AtMostOneWord(s) ==
  ~ \E a, b, c \in DOMAIN s :
       a < b /\ b < c /\ s[a] \notin Space /\ s[b] \in Space /\ s[c] \notin Space

(* Erasing a word takes something away, never cuts a word in two on the      *)
(* left, and never takes a second word with it.                              *)
EraseWord ==
  /\ before # << >>
  /\ \E n \in 0 .. Len(before) - 1 :
        /\ n = 0 \/ before[n + 1] \in Space
        /\ AtMostOneWord(SubSeq(before, n + 1, Len(before)))
        /\ before' = SubSeq(before, 1, n)
  /\ after' = after

Edit == Type \/ Backspace \/ Delete \/ Left \/ Right \/ Home \/ End \/ Clear \/ EraseWord

Leave == state' \in {"accepted", "cancelled"} /\ UNCHANGED <<before, after>>

Next == /\ state = "editing"
        /\ \/ Edit /\ state' = state
           \/ Leave

Spec == Init /\ [][Next]_vars
=============================================================================
