------------------------------- MODULE Colors -------------------------------
(* getColors() of ui.c, which reads the colours of the display from the file *)
(* ~/.iftopcolors: when curses starts, after a shell command, and on SIGQUIT. *)
(* The file is the sequence of its words and line ends, in lower case where  *)
(* the code compares without case.  What is read is the state of one         *)
(* iteration of the loop, which fscanf() carries on to the next.             *)
EXTENDS Integers, Sequences

CONSTANTS
  NoWord,           \* fscanf() at the end of the file
  Comments,         \* the words that begin with #
  Longest           \* how much of a line one fgets() takes, in words

NewLine == "\n"

Elements ==
  {"RECEIVE_BAR_COLOR", "SENT_BAR_COLOR", "BOTH_BAR_COLOR", "SCALE_BAR_COLOR",
   "SCALE_MARKERS_COLOR", "DL_UL_INDICATOR_COLOR", "HOST1_COLOR", "HOST2_COLOR",
   "TWO_SECOND_TRANSFER_COLUMN_COLOR", "TEN_SECOND_TRANSFER_COLUMN_COLOR",
   "FOURTY_SECOND_TRANSFER_COLUMN_COLOR", "BOTTOM_BAR_COLOR", "CUM_LABEL_COLOR",
   "PEAK_LABEL_COLOR", "RATES_LABEL_COLOR", "TOTAL_LABEL_COLOR", "CUM_TRANSFER_COLUMN_COLOR",
   "PEAK_TRANSFER_COLUMN_COLOR", "PROC_NAME_COLOR"}

(* The arrays as the program starts.                                         *)
InitialColors ==
  [e \in Elements |->
     [color |-> CASE e \in {"RECEIVE_BAR_COLOR", "PROC_NAME_COLOR"} -> "green"
                  [] e = "BOTH_BAR_COLOR" -> "red"
                  [] e \in {"HOST1_COLOR", "TEN_SECOND_TRANSFER_COLUMN_COLOR"} -> "cyan"
                  [] e \in {"HOST2_COLOR", "PEAK_LABEL_COLOR", "RATES_LABEL_COLOR"} -> "magenta"
                  [] e \in {"CUM_LABEL_COLOR", "CUM_TRANSFER_COLUMN_COLOR",
                            "PEAK_TRANSFER_COLUMN_COLOR"} -> "yellow"
                  [] OTHER -> "blue",
      bold |-> e \notin {"TWO_SECOND_TRANSFER_COLUMN_COLOR", "CUM_LABEL_COLOR"}]]

(* The words getColors() starts from, for a file that ends after a name.     *)
DefaultWords ==
  [e \in Elements |->
     CASE e \in {"RECEIVE_BAR_COLOR", "PROC_NAME_COLOR"} -> "green"
       [] e \in {"BOTH_BAR_COLOR", "SCALE_BAR_COLOR", "HOST2_COLOR"} -> "magenta"
       [] e = "HOST1_COLOR" -> "cyan"
       [] e \in {"SENT_BAR_COLOR", "SCALE_MARKERS_COLOR", "DL_UL_INDICATOR_COLOR",
                 "TWO_SECOND_TRANSFER_COLUMN_COLOR", "BOTTOM_BAR_COLOR",
                 "TOTAL_LABEL_COLOR"} -> "blue"
       [] OTHER -> "yellow"]

convertColorToInt(word, old) ==
  IF word \in {"green", "red", "blue", "yellow", "magenta", "cyan", "black", "white"}
  THEN word ELSE old

convertBoldToInt(word) == word = "bold"

(* fscanf("%s") from a position: the next word, over any line ends.          *)
Scan(text, pos) ==
  LET words == {j \in pos .. Len(text) : text[j] # NewLine}
      at == CHOOSE j \in words : \A k \in words : j <= k
  IN  IF words = {} THEN [word |-> NoWord, pos |-> Len(text) + 1]
      ELSE [word |-> text[at], pos |-> at + 1]

(* Behind the end of this line.                                              *)
LineEnd(text, pos) ==
  LET ends == {j \in pos .. Len(text) : text[j] = NewLine}
  IN  IF ends = {} THEN Len(text) + 1 ELSE 1 + CHOOSE j \in ends : \A k \in ends : j <= k

(* fgets() of the rest of a line, or of as much of it as the buffer holds.   *)
SkipLine(text, pos) ==
  IF LineEnd(text, pos) > pos + Longest THEN pos + Longest ELSE LineEnd(text, pos)

(* A buffer that fscanf() does not fill keeps what it holds.                 *)
Filled(scan, buffer) == IF scan.word = NoWord THEN buffer ELSE scan.word

(* One of the blocks that set an element.                                    *)
SetElement(r, text, e, pos) ==
  LET first == Scan(text, pos)
      second == Scan(text, first.pos)
      word == Filled(first, r.words[e])
      boldBuffer == Filled(second, r.boldBuffer)
  IN  [pos |-> second.pos, buffer |-> e, boldBuffer |-> boldBuffer,
       words |-> [r.words EXCEPT ![e] = word],
       colors |-> [r.colors EXCEPT ![e] = [color |-> convertColorToInt(word, @.color),
                                           bold |-> convertBoldToInt(boldBuffer)]]]

MutantReadElement(r, text) ==
  LET name == Scan(text, r.pos)
      buffer == Filled(name, r.buffer)
  IN  IF buffer \in Comments THEN [r EXCEPT !.pos = name.pos, !.buffer = NewLine]
      ELSE IF buffer \in Elements THEN SetElement(r, text, buffer, name.pos)
      ELSE [r EXCEPT !.pos = name.pos, !.buffer = buffer]

(* One turn of the loop: a comment, an element, or a word nobody knows, of   *)
(* which only the word itself is consumed.  What fgets() leaves in the       *)
(* buffer is no name.                                                        *)
ReadElement(r, text) ==
  LET name == Scan(text, r.pos)
      buffer == Filled(name, r.buffer)
  IN  IF buffer \in Comments THEN [r EXCEPT !.pos = SkipLine(text, name.pos), !.buffer = NewLine]
      ELSE IF buffer \in Elements THEN SetElement(r, text, buffer, name.pos)
      ELSE [r EXCEPT !.pos = name.pos, !.buffer = buffer]

lineCount(text) == Len(SelectSeq(text, LAMBDA w : w = NewLine))

(* As many turns as the file has line ends; junk is what boldBuffer holds    *)
(* before anything is read into it.                                          *)
getColors(colors, text, junk) ==
  LET start == [pos |-> 1, buffer |-> NewLine, boldBuffer |-> junk, words |-> DefaultWords,
                colors |-> colors]
      turn[i \in 0 .. lineCount(text)] == IF i = 0 THEN start ELSE ReadElement(turn[i - 1], text)
  IN  turn[lineCount(text)].colors
=============================================================================
