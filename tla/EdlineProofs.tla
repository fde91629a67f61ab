----------------------------- MODULE EdlineProofs -----------------------------
(* Proofs about Edline for any characters, any initial texts and any width   *)
(* of the terminal: the text fits its buffer, the cursor is on the line if   *)
(* there is room behind the prompt, and the keys are those of LineEditor.    *)
EXTENDS Edline, SequenceTheorems, WellFoundedInduction, TLAPS

IInv == TypeOK /\ Len(str) + 1 <= slen

Before(s, p) == SubSeq(s, 1, p)

After(s, p) == SubSeq(s, p + 1, Len(s))

-----------------------------------------------------------------------------
(* Cutting a text at the cursor *)

(* The two parts of a text.                                                  *)
LEMMA Parts ==
    ASSUME NEW s \in Seq(Char), NEW p \in 0 .. Len(s)
    PROVE  /\ Before(s, p) \in Seq(Char) /\ Len(Before(s, p)) = p
           /\ \A i \in 1 .. p : Before(s, p)[i] = s[i]
           /\ After(s, p) \in Seq(Char) /\ Len(After(s, p)) = Len(s) - p
           /\ \A i \in 1 .. Len(s) - p : After(s, p)[i] = s[p + i]
  <1>1. /\ p \in Int /\ Len(s) \in Nat /\ p + 1 \in Int
        /\ \A i \in 1 .. Len(s) : s[i] \in Char
    BY LenProperties, ElementOfSeq
  <1>2. /\ Before(s, p) \in Seq(Char) /\ Len(Before(s, p)) = p
        /\ \A i \in 1 .. p : Before(s, p)[i] = s[i]
    BY <1>1 DEF Before
  <1>3. /\ After(s, p) \in Seq(Char) /\ Len(After(s, p)) = Len(s) - p
        /\ \A i \in 1 .. Len(s) - p : After(s, p)[i] = s[p + i]
    BY <1>1 DEF After
  <1> QED
    BY <1>2, <1>3

(* Two texts put together come apart at the same place.                      *)
LEMMA Joined ==
    ASSUME NEW b \in Seq(Char), NEW a \in Seq(Char)
    PROVE  /\ b \o a \in Seq(Char) /\ Len(b \o a) = Len(b) + Len(a)
           /\ Before(b \o a, Len(b)) = b
           /\ After(b \o a, Len(b)) = a
  <1> DEFINE s == b \o a
             p == Len(b)
  <1>1. /\ s \in Seq(Char) /\ Len(s) = Len(b) + Len(a)
        /\ \A i \in 1 .. Len(b) + Len(a) : s[i] = IF i <= Len(b) THEN b[i] ELSE a[i - Len(b)]
    BY ConcatProperties
  <1>2. Len(b) \in Nat /\ Len(a) \in Nat
    BY LenProperties
  <1> HIDE DEF s
  <1>3. p \in 0 .. Len(s)
    BY <1>1, <1>2
  <1>4. Before(s, p) = b
    <2>1. /\ Before(s, p) \in Seq(Char) /\ Len(Before(s, p)) = Len(b)
          /\ \A i \in 1 .. p : Before(s, p)[i] = s[i]
      BY <1>1, <1>3, Parts
    <2>2. \A i \in 1 .. Len(Before(s, p)) : Before(s, p)[i] = b[i]
      BY <1>1, <1>2, <2>1
    <2> QED
      BY <2>1, <2>2, SeqEqual
  <1>5. After(s, p) = a
    <2>1. /\ After(s, p) \in Seq(Char) /\ Len(After(s, p)) = Len(s) - p
          /\ \A i \in 1 .. Len(s) - p : After(s, p)[i] = s[p + i]
      BY <1>1, <1>3, Parts
    <2>3. Len(s) - p = Len(a)
      BY <1>1, <1>2
    <2>2. \A i \in 1 .. Len(After(s, p)) : After(s, p)[i] = a[i]
      <3> SUFFICES ASSUME NEW i \in 1 .. Len(a) PROVE After(s, p)[i] = a[i]
        BY <2>1, <2>3
      <3>1. p + i \in 1 .. Len(b) + Len(a) /\ ~ (p + i <= Len(b)) /\ (p + i) - Len(b) = i
        BY <1>2
      <3> QED
        BY <1>1, <2>1, <2>3, <3>1
    <2> QED
      BY <2>1, <2>2, <2>3, SeqEqual
  <1> QED
    BY <1>1, <1>4, <1>5 DEF s

(* A text is its two parts put together.                                     *)
LEMMA Whole ==
    ASSUME NEW s \in Seq(Char), NEW p \in 0 .. Len(s)
    PROVE  s = Before(s, p) \o After(s, p)
  <1>1. /\ Len(s) \in Nat /\ 1 \in 1 .. Len(s) + 1
        /\ p \in 1 - 1 .. Len(s) /\ Len(s) \in p .. Len(s)
    BY LenProperties
  <1>2. SubSeq(s, 1, p) \o SubSeq(s, p + 1, Len(s)) = SubSeq(s, 1, Len(s))
    BY <1>1, ConcatAdjacentSubSeq
  <1> QED
    BY <1>2, SubSeqFull DEF Before, After

(* The start of the start.                                                   *)
LEMMA BeforeBefore ==
    ASSUME NEW s \in Seq(Char), NEW p \in 0 .. Len(s), NEW w \in 0 .. p
    PROVE  SubSeq(Before(s, p), 1, w) = Before(s, w)
  <1> DEFINE b == Before(s, p)
  <1>1. Len(s) \in Nat /\ w \in 0 .. Len(s)
    BY LenProperties
  <1>2. b \in Seq(Char) /\ Len(b) = p /\ \A i \in 1 .. p : b[i] = s[i]
    BY Parts
  <1>3. /\ Before(s, w) \in Seq(Char) /\ Len(Before(s, w)) = w
        /\ \A i \in 1 .. w : Before(s, w)[i] = s[i]
    BY <1>1, Parts
  <1> HIDE DEF b
  <1>4. /\ Before(b, w) \in Seq(Char) /\ Len(Before(b, w)) = w
        /\ \A i \in 1 .. w : Before(b, w)[i] = b[i]
    BY <1>2, Parts
  <1>5. \A i \in 1 .. w : Before(b, w)[i] = Before(s, w)[i]
    BY <1>1, <1>2, <1>3, <1>4
  <1>6. Before(b, w) = Before(s, w)
    BY <1>3, <1>4, <1>5, SeqEqual
  <1> QED
    BY <1>6 DEF b, Before

(* Moving the cut by one character.                                          *)
LEMMA OneFurther ==
    ASSUME NEW s \in Seq(Char), NEW p \in 0 .. Len(s) - 1
    PROVE  /\ After(s, p) # << >>
           /\ Tail(After(s, p)) = After(s, p + 1)
           /\ After(s, p) = <<s[p + 1]>> \o After(s, p + 1)
           /\ Head(After(s, p)) = s[p + 1] /\ s[p + 1] \in Char
           /\ Before(s, p + 1) # << >>
           /\ Text!ButLast(Before(s, p + 1)) = Before(s, p)
           /\ Before(s, p + 1)[p + 1] = s[p + 1]
           /\ Before(s, p + 1) = Append(Before(s, p), s[p + 1])
  <1>1. /\ Len(s) \in Nat /\ p \in 0 .. Len(s) /\ p + 1 \in 0 .. Len(s)
        /\ p + 1 \in 1 .. Len(s) /\ Len(s) \in p + 1 .. Len(s)
        /\ 1 \in 1 .. Len(s) /\ p + 1 \in 1 .. Len(s)
    BY LenProperties
  <1>2. s[p + 1] \in Char
    BY <1>1, ElementOfSeq
  <1>3. /\ Head(After(s, p)) = s[p + 1] /\ Tail(After(s, p)) = After(s, p + 1)
        /\ After(s, p) = <<s[p + 1]>> \o After(s, p + 1)
    BY <1>1, HeadTailOfSubSeq, SubSeqRecursiveFirst, Zenon DEF After
  <1>4. After(s, p) # << >> /\ Before(s, p + 1) # << >>
    <2>1. Len(After(s, p)) = Len(s) - p /\ Len(Before(s, p + 1)) = p + 1
      BY <1>1, Parts
    <2> QED
      BY <1>1, <2>1, EmptySeq
  <1>5. Before(s, p + 1) = Before(s, p) \o <<s[p + 1]>>
    <2>1. SubSeq(s, 1, p + 1) = SubSeq(s, 1, (p + 1) - 1) \o <<s[p + 1]>>
      BY <1>1, SubSeqRecursiveSecond, Zenon
    <2>2. (p + 1) - 1 = p
      BY <1>1
    <2> QED
      BY <2>1, <2>2 DEF Before
  <1>6. Before(s, p) \in Seq(Char) /\ Len(Before(s, p)) = p /\ Len(Before(s, p + 1)) = p + 1
    BY <1>1, Parts
  <1>7. Before(s, p + 1) = Append(Before(s, p), s[p + 1])
    BY <1>2, <1>5, <1>6, AppendIsConcat
  <1>8. Before(s, p + 1)[p + 1] = s[p + 1]
    <2>1. \A i \in 1 .. p + 1 : Before(s, p + 1)[i] = s[i]
      BY <1>1, Parts
    <2> QED
      BY <1>1, <1>6, <2>1
  <1>9. Text!ButLast(Before(s, p + 1)) = Before(s, p)
    <2>1. <<s[p + 1]>> \in Seq(Char)
      BY <1>2
    <2>2. SubSeq(Before(s, p) \o <<s[p + 1]>>, 1, p) = Before(s, p)
      BY <1>6, <2>1, Joined DEF Before
    <2>3. Len(Before(s, p + 1)) - 1 = p
      BY <1>1, <1>6
    <2> QED
      BY <1>5, <2>2, <2>3 DEF Text!ButLast
  <1> QED
    BY <1>2, <1>3, <1>4, <1>7, <1>8, <1>9

-----------------------------------------------------------------------------
(* Words *)

(* The loop that walks left stops, at the first place it is told to.         *)
LEMMA WalkStops ==
    ASSUME NEW i \in Nat, NEW stops
    PROVE  /\ WalkLeft(i, stops) \in 0 .. i
           /\ WalkLeft(i, stops) = 0 \/ WalkLeft(i, stops) \in stops
           /\ \A k \in WalkLeft(i, stops) + 1 .. i : k \notin stops
  <1> DEFINE R == OpToRel(<, Nat)
             Steps == {d \in 0 .. i : i - d = 0 \/ i - d \in stops}
  <1>1. \A x, y \in Nat : x < y => <<x, y>> \in R
    BY DEF OpToRel
  <1>2. IsWellFoundedOn(R, Nat)
    BY NatLessThanWellFounded
  <1>3. Steps \subseteq Nat /\ i \in Steps
    OBVIOUS
  <1> HIDE DEF R, Steps
  <1>4. PICK d \in Steps : \A e \in Steps : ~ (<<e, d>> \in R)
    <2>1. Steps # {}
      BY <1>3
    <2> QED
      BY <1>2, <1>3, <2>1, WFMin
  <1>5. /\ i - d \in 0 .. i /\ (i - d = 0 \/ i - d \in stops)
        /\ d \in 0 .. i
    BY <1>4 DEF Steps
  <1>6. ASSUME NEW k \in (i - d) + 1 .. i, k \in stops
        PROVE  FALSE
    <2>1. i - k \in 0 .. i /\ i - (i - k) = k /\ i - k < d
      BY <1>5, <1>6
    <2>2. i - k \in Steps
      BY <1>6, <2>1 DEF Steps
    <2>3. i - k \in Nat /\ d \in Nat
      BY <1>5, <2>1
    <2>4. <<i - k, d>> \in R
      BY <1>1, <2>1, <2>3
    <2> QED
      BY <1>4, <2>2, <2>4
  <1>7. \E j \in 0 .. i : (j = 0 \/ j \in stops) /\ \A k \in j + 1 .. i : k \notin stops
    BY <1>5, <1>6
  <1> QED
    BY <1>7 DEF WalkLeft

(* ^W takes blanks and one word, and cuts no word on its left.               *)
LEMMA WordTaken ==
    ASSUME TypeOK
    PROVE  /\ WordStart \in 0 .. pos
           /\ pos > 0 =>
                 /\ WordStart < pos
                 /\ WordStart = 0 \/ str[WordStart + 1] \in Space
                 /\ ~ \E a, b, c \in WordStart + 1 .. pos :
                        /\ a < b /\ b < c
                        /\ str[a] \notin Space /\ str[b] \in Space /\ str[c] \notin Space
  <1> DEFINE j == WalkLeft(pos, (1 .. pos) \ Blanks)
             w == WordStart
  <1>1. pos \in Nat /\ Len(str) \in Nat /\ pos <= Len(str)
    BY LenProperties DEF TypeOK
  <1>2. /\ j \in 0 .. pos /\ (j = 0 \/ j \in (1 .. pos) \ Blanks)
        /\ \A k \in j + 1 .. pos : k \notin (1 .. pos) \ Blanks
    BY <1>1, WalkStops
  <1>3. j \in Nat
    BY <1>1, <1>2
  <1>4. /\ w \in 0 .. j /\ (w = 0 \/ w \in Blanks)
        /\ \A k \in w + 1 .. j : k \notin Blanks
    BY <1>3, WalkStops DEF WordStart
  <1>5. \A k \in 1 .. pos : k # Len(str) => (k \in Blanks <=> str[k + 1] \in Space)
    BY DEF Blanks, At
  <1> HIDE DEF j, w
  <1>6. w \in 0 .. pos /\ (pos > 0 => w < pos)
    BY <1>1, <1>2, <1>4
  <1>7. ASSUME pos > 0
        PROVE  w = 0 \/ str[w + 1] \in Space
    BY <1>1, <1>4, <1>5, <1>6, <1>7
  <1>8. ASSUME NEW a \in w + 1 .. pos, NEW b \in w + 1 .. pos, NEW c \in w + 1 .. pos,
               a < b, b < c, str[b] \in Space, str[c] \notin Space
        PROVE  FALSE
    <2>1. /\ b - 1 \in 1 .. pos /\ b - 1 # Len(str) /\ (b - 1) + 1 = b /\ b - 1 > w
          /\ c - 1 \in 1 .. pos /\ c - 1 # Len(str) /\ (c - 1) + 1 = c
      BY <1>1, <1>6, <1>8
    <2>2. b - 1 \in Blanks /\ c - 1 \notin Blanks
      BY <1>5, <1>8, <2>1
    <2>3. b - 1 > j
      BY <1>1, <1>3, <1>4, <2>1, <2>2
    <2>4. c - 1 \in j + 1 .. pos
      BY <1>3, <1>8, <2>1, <2>3
    <2> QED
      BY <1>2, <2>1, <2>2, <2>4
  <1> QED
    BY <1>6, <1>7, <1>8 DEF w

-----------------------------------------------------------------------------
(* The buffer *)

(* The text a cut leaves.                                                    *)
LEMMA CutLeaves ==
    ASSUME TypeOK, NEW to \in 0 .. Len(str), NEW from \in to .. Len(str)
    PROVE  /\ Cut(to, from) = Before(str, to) \o After(str, from)
           /\ Cut(to, from) \in Seq(Char) /\ Len(Cut(to, from)) = to + (Len(str) - from)
           /\ Before(Cut(to, from), to) = Before(str, to)
           /\ After(Cut(to, from), to) = After(str, from)
  <1>1. str \in Seq(Char) /\ from \in 0 .. Len(str) /\ Len(str) \in Nat
    BY LenProperties DEF TypeOK
  <1>2. /\ Before(str, to) \in Seq(Char) /\ Len(Before(str, to)) = to
        /\ After(str, from) \in Seq(Char) /\ Len(After(str, from)) = Len(str) - from
    BY <1>1, Parts
  <1>3. Cut(to, from) = Before(str, to) \o After(str, from)
    BY DEF Cut, Before, After
  <1> QED
    BY <1>2, <1>3, Joined

(* The text with a character put in at the cursor.                           *)
LEMMA TypedIn ==
    ASSUME TypeOK, NEW c \in Char
    PROVE  LET s == SubSeq(str, 1, pos) \o <<c>> \o SubSeq(str, pos + 1, Len(str))
           IN  /\ s \in Seq(Char) /\ Len(s) = Len(str) + 1
               /\ Before(s, pos + 1) = Append(Before(str, pos), c)
               /\ After(s, pos + 1) = After(str, pos)
  <1>1. str \in Seq(Char) /\ pos \in 0 .. Len(str) /\ Len(str) \in Nat
    BY LenProperties DEF TypeOK
  <1>2. /\ Before(str, pos) \in Seq(Char) /\ Len(Before(str, pos)) = pos
        /\ After(str, pos) \in Seq(Char) /\ Len(After(str, pos)) = Len(str) - pos
    BY <1>1, Parts
  <1> DEFINE b == Append(Before(str, pos), c)
             a == After(str, pos)
  <1>3. b \in Seq(Char) /\ Len(b) = pos + 1 /\ b = Before(str, pos) \o <<c>>
    <2>1. /\ b \in Seq(Char) /\ Len(b) = Len(Before(str, pos)) + 1
          /\ b = Before(str, pos) \o <<c>>
      BY <1>2, AppendProperties, AppendIsConcat, Zenon
    <2> QED
      BY <1>2, <2>1
  <1> HIDE DEF b, a
  <1>4. SubSeq(str, 1, pos) \o <<c>> \o SubSeq(str, pos + 1, Len(str)) = b \o a
    BY <1>3 DEF Before, After, a
  <1>5. a \in Seq(Char) /\ Len(a) = Len(str) - pos
    BY <1>2 DEF a
  <1>6. /\ b \o a \in Seq(Char) /\ Len(b \o a) = Len(b) + Len(a)
        /\ Before(b \o a, Len(b)) = b /\ After(b \o a, Len(b)) = a
    BY <1>3, <1>5, Joined
  <1>7. Len(b) + Len(a) = Len(str) + 1
    BY <1>1, <1>3, <1>5
  <1> QED
    BY <1>3, <1>4, <1>6, <1>7 DEF a, b

-----------------------------------------------------------------------------
(* The invariant *)

(* The first buffer has room for the first text, an empty one included.      *)
LEMMA InitInv == Init => IInv
  <1> SUFFICES ASSUME Init PROVE IInv
    OBVIOUS
  <1>1. str \in Seq(Char) /\ slen \in Nat /\ Len(str) + 1 <= slen
    <2>1. PICK initial \in Initials : IF initial = NULL
                                      THEN str = << >> /\ slen = 256
                                      ELSE str = initial /\ slen = Len(initial) * 2 + 1
      BY DEF Init
    <2>2. CASE initial = NULL
      BY <2>1, <2>2, EmptySeq
    <2>3. CASE initial # NULL
      <3>1. str \in Seq(Char) /\ slen = Len(str) * 2 + 1
        BY <2>1, <2>3, EdlineAssumption
      <3>2. Len(str) \in Nat
        BY <3>1, LenProperties
      <3> QED
        BY <3>1, <3>2
    <2> QED
      BY <2>2, <2>3
  <1>2. Len(str) \in Nat
    BY <1>1, LenProperties
  <1> QED
    BY <1>1, <1>2 DEF Init, IInv, TypeOK

(* What a key other than a printable one leaves in the buffer is no longer   *)
(* than what was there.                                                      *)
LEMMA Shorter ==
    ASSUME IInv, state' = state, NEW s \in Seq(Char), NEW p \in 0 .. Len(s), Len(s) <= Len(str),
           Edits(s, p)
    PROVE  IInv'
  <1>1. Len(s) \in Nat /\ Len(str) \in Nat
    BY LenProperties DEF IInv, TypeOK
  <1> QED
    BY <1>1 DEF IInv, TypeOK, Edits

(* A full buffer is doubled before a character is put in.                    *)
LEMMA Longer ==
    ASSUME IInv, state' = state, KeyPrintable
    PROVE  IInv'
  <1>1. TypeOK /\ Len(str) \in Nat /\ Len(str) + 1 <= slen /\ slen \in Nat /\ pos \in 0 .. Len(str)
    BY LenProperties DEF IInv, TypeOK
  <1>2. PICK c \in Char :
           str' = SubSeq(str, 1, pos) \o <<c>> \o SubSeq(str, pos + 1, Len(str)) /\ pos' = pos + 1
    BY DEF KeyPrintable
  <1>3. str' \in Seq(Char) /\ Len(str') = Len(str) + 1
    BY <1>1, <1>2, TypedIn
  <1>4. slen' = IF Len(str) = slen - 1 THEN slen * 2 ELSE slen
    BY DEF KeyPrintable, Full
  <1>5. slen' \in Nat /\ Len(str') + 1 <= slen'
    BY <1>1, <1>3, <1>4
  <1>6. pos' \in 0 .. Len(str')
    <2>1. pos' = pos + 1
      BY <1>2
    <2> QED
      BY <1>1, <1>3, <2>1
  <1> QED
    BY <1>3, <1>5, <1>6 DEF IInv, TypeOK

(* Every key keeps the text in the buffer and the cursor in the text.        *)
LEMMA EditKeeps ==
    ASSUME IInv, state' = state, Edit
    PROVE  IInv'
  <1>1. /\ TypeOK /\ str \in Seq(Char) /\ Len(str) \in Nat /\ pos \in 0 .. Len(str)
    BY LenProperties DEF IInv, TypeOK
  <1>2. CASE ClearLine
    <2>1. << >> \in Seq(Char) /\ 0 \in 0 .. Len(<< >>) /\ Len(<< >>) <= Len(str)
      BY <1>1, EmptySeq
    <2> QED
      BY <1>2, <2>1, Shorter DEF ClearLine
  <1>3. CASE KeyLeft
    <2>1. (IF pos - 1 < 0 THEN 0 ELSE pos - 1) \in 0 .. Len(str)
      BY <1>1
    <2> QED
      BY <1>1, <1>3, <2>1, Shorter DEF KeyLeft
  <1>4. CASE KeyRight
    <2>1. (IF pos + 1 > Len(str) THEN Len(str) ELSE pos + 1) \in 0 .. Len(str)
      BY <1>1
    <2> QED
      BY <1>1, <1>4, <2>1, Shorter DEF KeyRight
  <1>5. CASE KeyHome \/ KeyEnd \/ KeyIgnored
    BY <1>1, <1>5, Shorter DEF KeyHome, KeyEnd, KeyIgnored
  <1>6. CASE KeyDelete
    <2>1. CASE pos = Len(str)
      BY <1>1, <1>6, <2>1, Shorter DEF KeyDelete
    <2>2. CASE pos # Len(str)
      <3>1. pos + 1 \in pos .. Len(str)
        BY <1>1, <2>2
      <3>2. Cut(pos, pos + 1) \in Seq(Char) /\ Len(Cut(pos, pos + 1)) = pos + (Len(str) - (pos + 1))
        BY <1>1, <3>1, CutLeaves
      <3>3. pos \in 0 .. Len(Cut(pos, pos + 1)) /\ Len(Cut(pos, pos + 1)) <= Len(str)
        BY <1>1, <2>2, <3>2
      <3> QED
        BY <1>6, <2>2, <3>2, <3>3, Shorter DEF KeyDelete
    <2> QED
      BY <2>1, <2>2
  <1>7. CASE KeyBackspace
    <2>1. CASE pos = 0
      BY <1>1, <1>7, <2>1, Shorter DEF KeyBackspace
    <2>2. CASE pos # 0
      <3>1. pos - 1 \in 0 .. Len(str) /\ pos \in pos - 1 .. Len(str)
        BY <1>1, <2>2
      <3>2. Cut(pos - 1, pos) \in Seq(Char) /\ Len(Cut(pos - 1, pos)) = (pos - 1) + (Len(str) - pos)
        BY <1>1, <3>1, CutLeaves
      <3>3. pos - 1 \in 0 .. Len(Cut(pos - 1, pos)) /\ Len(Cut(pos - 1, pos)) <= Len(str)
        BY <1>1, <2>2, <3>2
      <3> QED
        BY <1>7, <2>2, <3>2, <3>3, Shorter DEF KeyBackspace
    <2> QED
      BY <2>1, <2>2
  <1>8. CASE KeyEraseWord
    <2> DEFINE w == WordStart
    <2>1. w \in 0 .. pos
      BY <1>1, WordTaken
    <2> HIDE DEF w
    <2>2. w \in 0 .. Len(str) /\ pos \in w .. Len(str)
      BY <1>1, <2>1
    <2>3. Cut(w, pos) \in Seq(Char) /\ Len(Cut(w, pos)) = w + (Len(str) - pos)
      BY <1>1, <2>2, CutLeaves
    <2>4. w \in 0 .. Len(Cut(w, pos)) /\ Len(Cut(w, pos)) <= Len(str)
      BY <1>1, <2>1, <2>3
    <2> QED
      BY <1>8, <2>3, <2>4, Shorter DEF KeyEraseWord, w
  <1> QED
    BY <1>2, <1>3, <1>4, <1>5, <1>6, <1>7, <1>8, Longer DEF Edit

(* The invariant is inductive, for texts of any length.                      *)
THEOREM InvariantHolds == Spec => []IInv
  <1>1. IInv /\ [Next]_vars => IInv'
    <2> SUFFICES ASSUME IInv, [Next]_vars PROVE IInv'
      OBVIOUS
    <2>1. CASE Edit /\ state' = state
      BY <2>1, EditKeeps
    <2>2. CASE Return \/ UNCHANGED vars
      BY <2>2 DEF IInv, TypeOK, Return, vars
    <2> QED
      BY <2>1, <2>2 DEF Next, Done
  <1> QED
    BY <1>1, InitInv, PTL DEF Spec

(* The text and its NUL fit the buffer, on a terminal of any width.  If the  *)
(* prompt leaves room, the cursor is on the line, and so is the character it *)
(* follows if there is room for one (edline.c:103-130).                      *)
THEOREM TextAlwaysFits == Spec => []TextFits
  <1>1. IInv => TextFits
    <2> SUFFICES ASSUME IInv PROVE TextFits
      OBVIOUS
    <2> DEFINE len == Len(str)
    <2>1. /\ len \in Nat /\ pos \in 0 .. len /\ xstart \in Nat /\ room \in Int
          /\ COLS - 1 = xstart + room
      BY LenProperties, EdlineAssumption DEF IInv, TypeOK, xstart, room
    <2>2. /\ off = IF pos > room THEN pos - room ELSE 0
          /\ shown = IF len - off < room THEN len - off ELSE room
      BY DEF off, shown
    <2> HIDE DEF len
    <2>3. room >= 0 => off <= len /\ xstart + pos - off \in xstart .. COLS - 1
      BY <2>1, <2>2
    <2>4. room >= 1 /\ pos > 0 => pos - 1 \in off .. off + shown - 1
      BY <2>1, <2>2
    <2> QED
      BY <2>3, <2>4 DEF IInv, TextFits, len
  <1> QED
    BY <1>1, InvariantHolds, PTL

-----------------------------------------------------------------------------
(* The editor *)

(* The prompt starts with the cursor at the end.                             *)
LEMMA InitText == Init => Text!Init
  <1> SUFFICES ASSUME Init PROVE Text!Init
    OBVIOUS
  <1>1. str \in Seq(Char) /\ pos = Len(str) /\ Len(str) \in Nat
    BY InitInv, LenProperties DEF IInv, TypeOK, Init
  <1>2. SubSeq(str, 1, pos) \in Seq(Char)
    BY <1>1, Parts DEF Before
  <1>3. SubSeq(str, pos + 1, Len(str)) = << >>
    BY <1>1, SubSeqEmpty
  <1> QED
    BY <1>2, <1>3 DEF Init, Text!Init

(* ^W is the editor's, or does nothing at the start of the line.             *)
LEMMA EraseText ==
    ASSUME IInv, KeyEraseWord
    PROVE  \/ Text!Edit
           \/ Before(str, pos)' = Before(str, pos) /\ After(str, pos)' = After(str, pos)
  <1> DEFINE w == WordStart
             b == Before(str, pos)
             a == After(str, pos)
  <1>1. TypeOK /\ str \in Seq(Char) /\ Len(str) \in Nat /\ pos \in 0 .. Len(str)
    BY LenProperties DEF IInv, TypeOK
  <1>2. /\ w \in 0 .. pos
        /\ pos > 0 => /\ w < pos
                      /\ w = 0 \/ str[w + 1] \in Space
                      /\ ~ \E i, j, k \in w + 1 .. pos :
                             /\ i < j /\ j < k
                             /\ str[i] \notin Space /\ str[j] \in Space /\ str[k] \notin Space
    BY <1>1, WordTaken
  <1>3. str' = Cut(w, pos) /\ pos' = w
    BY DEF KeyEraseWord, Edits
  <1> HIDE DEF w
  <1>4. w \in 0 .. Len(str) /\ pos \in w .. Len(str)
    BY <1>1, <1>2
  <1>5. Before(Cut(w, pos), w) = Before(str, w) /\ After(Cut(w, pos), w) = a
    BY <1>1, <1>4, CutLeaves
  <1>6. /\ b \in Seq(Char) /\ Len(b) = pos /\ \A i \in 1 .. pos : b[i] = str[i]
    BY <1>1, Parts
  <1>7. CASE pos = 0
    BY <1>1, <1>2, <1>3, <1>5, <1>7
  <1>8. CASE pos # 0
    <2>1. w \in 0 .. Len(b) - 1 /\ pos > 0 /\ w + 1 \in 1 .. pos
      BY <1>1, <1>2, <1>6, <1>8
    <2>2. b # << >>
      BY <1>1, <1>6, <1>8, EmptySeq
    <2>3. w = 0 \/ b[w + 1] \in Space
      BY <1>2, <1>6, <2>1
    <2>4. SubSeq(b, 1, w) = Before(str, w)
      BY <1>1, <1>2, BeforeBefore
    <2>5. Text!AtMostOneWord(SubSeq(b, w + 1, Len(b)))
      <3> DEFINE s == SubSeq(b, w + 1, Len(b))
      <3>1. /\ DOMAIN s = 1 .. pos - w
            /\ \A i \in 1 .. pos - w : s[i] = str[w + i]
        <4>1. w \in 0 .. Len(b)
          BY <1>1, <1>6, <2>1
        <4>2. /\ s \in Seq(Char) /\ Len(s) = Len(b) - w
              /\ \A i \in 1 .. Len(b) - w : s[i] = b[w + i]
          BY <1>6, <4>1, Parts DEF After
        <4>3. \A i \in 1 .. pos - w : w + i \in 1 .. pos
          BY <1>1, <1>4
        <4> HIDE DEF s
        <4> QED
          BY <1>6, <4>2, <4>3, LenProperties
      <3> HIDE DEF s
      <3>2. ASSUME NEW i \in 1 .. pos - w, NEW j \in 1 .. pos - w, NEW k \in 1 .. pos - w,
                   i < j, j < k, s[i] \notin Space, s[j] \in Space, s[k] \notin Space
            PROVE  FALSE
        <4>1. /\ w + i \in w + 1 .. pos /\ w + j \in w + 1 .. pos /\ w + k \in w + 1 .. pos
              /\ w + i < w + j /\ w + j < w + k
          BY <1>1, <1>4, <3>2
        <4> QED
          BY <1>2, <2>1, <3>1, <3>2, <4>1
      <3> QED
        BY <3>1, <3>2 DEF Text!AtMostOneWord, s
    <2>6. b' = Before(str, w) /\ a' = a
      BY <1>3, <1>5
    <2>7. /\ b # << >>
          /\ \E n \in 0 .. Len(b) - 1 :
                /\ n = 0 \/ b[n + 1] \in Space
                /\ Text!AtMostOneWord(SubSeq(b, n + 1, Len(b)))
                /\ b' = SubSeq(b, 1, n)
          /\ a' = a
      BY <2>1, <2>2, <2>3, <2>4, <2>5, <2>6
    <2> QED
      BY <2>7 DEF Text!Edit, Text!EraseWord, Before, After
  <1> QED
    BY <1>7, <1>8

(* Every key is a key of the editor, or does nothing.                        *)
LEMMA EditText ==
    ASSUME IInv, Edit
    PROVE  \/ Text!Edit
           \/ Before(str, pos)' = Before(str, pos) /\ After(str, pos)' = After(str, pos)
  <1> DEFINE b == Before(str, pos)
             a == After(str, pos)
  <1>1. /\ TypeOK /\ str \in Seq(Char) /\ Len(str) \in Nat /\ pos \in 0 .. Len(str)
    BY LenProperties DEF IInv, TypeOK
  <1> USE DEF Edits
  <1>2. CASE ClearLine
    <2>1. b' = << >> /\ a' = << >>
      BY <1>2, SubSeqEmpty DEF ClearLine, Before, After
    <2> QED
      BY <2>1 DEF Text!Edit, Text!Clear, Before, After
  <1>3. CASE KeyLeft
    <2>1. CASE pos = 0
      BY <1>3, <2>1 DEF KeyLeft
    <2>2. CASE pos # 0
      <3> DEFINE p == pos - 1
      <3>1. p \in 0 .. Len(str) - 1 /\ p + 1 = pos
        BY <1>1, <2>2
      <3>2. str' = str /\ pos' = p
        BY <1>3, <3>1 DEF KeyLeft
      <3> HIDE DEF p
      <3>3. /\ b # << >> /\ Before(str, p) = Text!ButLast(b) /\ b[pos] = str[pos]
            /\ After(str, p) = <<str[pos]>> \o a /\ Len(b) = pos
        BY <1>1, <3>1, OneFurther, Parts
      <3> QED
        BY <3>2, <3>3 DEF Text!Edit, Text!Left, Before, After
    <2> QED
      BY <2>1, <2>2
  <1>4. CASE KeyRight
    <2>1. CASE pos = Len(str)
      BY <1>1, <1>4, <2>1 DEF KeyRight
    <2>2. CASE pos # Len(str)
      <3>1. pos \in 0 .. Len(str) - 1 /\ str' = str /\ pos' = pos + 1
        BY <1>1, <1>4, <2>2 DEF KeyRight
      <3>2. /\ a # << >> /\ Before(str, pos + 1) = Append(b, Head(a))
            /\ After(str, pos + 1) = Tail(a)
        BY <1>1, <3>1, OneFurther
      <3> QED
        BY <3>1, <3>2 DEF Text!Edit, Text!Right, Before, After
    <2> QED
      BY <2>1, <2>2
  <1>5. CASE KeyHome
    <2>1. str' = str /\ pos' = 0
      BY <1>5 DEF KeyHome
    <2>2. Before(str, 0) = << >> /\ After(str, 0) = str
      BY <1>1, SubSeqEmpty, SubSeqFull DEF Before, After
    <2>3. str = b \o a
      BY <1>1, Whole
    <2> QED
      BY <2>1, <2>2, <2>3 DEF Text!Edit, Text!Home, Before, After
  <1>6. CASE KeyEnd
    <2>1. str' = str /\ pos' = Len(str)
      BY <1>6 DEF KeyEnd
    <2>2. Before(str, Len(str)) = str /\ After(str, Len(str)) = << >>
      BY <1>1, SubSeqEmpty, SubSeqFull DEF Before, After
    <2>3. str = b \o a
      BY <1>1, Whole
    <2> QED
      BY <2>1, <2>2, <2>3 DEF Text!Edit, Text!End, Before, After
  <1>7. CASE KeyDelete
    <2>1. CASE pos = Len(str)
      BY <1>7, <2>1 DEF KeyDelete
    <2>2. CASE pos # Len(str)
      <3>1. pos \in 0 .. Len(str) - 1 /\ pos + 1 \in pos .. Len(str)
        BY <1>1, <2>2
      <3>2. str' = Cut(pos, pos + 1) /\ pos' = pos
        BY <1>7, <2>2 DEF KeyDelete
      <3>3. Before(Cut(pos, pos + 1), pos) = b /\ After(Cut(pos, pos + 1), pos) = After(str, pos + 1)
        BY <1>1, <3>1, CutLeaves
      <3>4. a # << >> /\ Tail(a) = After(str, pos + 1)
        BY <1>1, <3>1, OneFurther
      <3> QED
        BY <3>2, <3>3, <3>4 DEF Text!Edit, Text!Delete, Before, After
    <2> QED
      BY <2>1, <2>2
  <1>8. CASE KeyBackspace
    <2>1. CASE pos = 0
      BY <1>8, <2>1 DEF KeyBackspace
    <2>2. CASE pos # 0
      <3> DEFINE p == pos - 1
      <3>1. p \in 0 .. Len(str) /\ p \in 0 .. Len(str) - 1 /\ p + 1 = pos /\ pos \in p .. Len(str)
        BY <1>1, <2>2
      <3>2. str' = Cut(p, pos) /\ pos' = p
        BY <1>8, <2>2 DEF KeyBackspace
      <3> HIDE DEF p
      <3>3. Before(Cut(p, pos), p) = Before(str, p) /\ After(Cut(p, pos), p) = a
        BY <1>1, <3>1, CutLeaves
      <3>4. b # << >> /\ Before(str, p) = Text!ButLast(b)
        BY <1>1, <3>1, OneFurther
      <3> QED
        BY <3>2, <3>3, <3>4 DEF Text!Edit, Text!Backspace, Before, After
    <2> QED
      BY <2>1, <2>2
  <1>9. CASE KeyPrintable
    <2>1. PICK c \in Char :
             str' = SubSeq(str, 1, pos) \o <<c>> \o SubSeq(str, pos + 1, Len(str)) /\ pos' = pos + 1
      BY <1>9 DEF KeyPrintable
    <2>2. b' = Append(b, c) /\ a' = a
      BY <1>1, <2>1, TypedIn
    <2> QED
      BY <2>2 DEF Text!Edit, Text!Type, Before, After
  <1>10. CASE KeyIgnored
    BY <1>10 DEF KeyIgnored
  <1>11. CASE KeyEraseWord
    BY <1>1, <1>11, EraseText
  <1> QED
    BY <1>2, <1>3, <1>4, <1>5, <1>6, <1>7, <1>8, <1>9, <1>10, <1>11 DEF Edit

(* Buffer, cursor and copies implement the editor of LineEditor, for any     *)
(* characters, texts and terminals.                                          *)
THEOREM Refinement == Spec => EditsTheLine
  <1>1. IInv /\ [Next]_vars => [Text!Next]_Text!vars
    <2> SUFFICES ASSUME IInv, [Next]_vars PROVE [Text!Next]_Text!vars
      OBVIOUS
    <2>1. CASE state = "editing" /\ Edit /\ state' = state
      BY <2>1, EditText DEF Text!Next, Text!vars, Before, After
    <2>2. CASE state = "editing" /\ Return
      BY <2>2 DEF Return, Text!Next, Text!Leave
    <2>3. CASE UNCHANGED vars
      BY <2>3 DEF vars, Text!vars
    <2> QED
      BY <2>1, <2>2, <2>3 DEF Next, Done
  <1> QED
    BY <1>1, InitText, InvariantHolds, PTL DEF Spec, EditsTheLine, Text!Spec
===============================================================================
