------------------------------- MODULE Export -------------------------------
(* export.c: what an export prints for each snapshot of the flows.  A flow is *)
(* the name of its process; its other fields, which are numbers, addresses    *)
(* and fixed names, print as one plain token.                                 *)
EXTENDS Integers, Sequences, SequencesExt, FiniteSetsExt

CONSTANTS Interfaces, ProcessNames,   \* strings, as sequences of characters
          MaxFlows, MaxSnapshots

VARIABLES export_mode, show_processes, interface,  \* options
          csv_header_printed,
          snapshots,     \* the lists of flows printed so far
          output         \* what was printed for each of them

vars == <<export_mode, show_processes, interface, csv_header_printed, snapshots, output>>

Init == /\ export_mode \in {"json", "csv"}
        /\ show_processes \in BOOLEAN
        /\ interface \in Interfaces
        /\ csv_header_printed = FALSE
        /\ snapshots = << >>
        /\ output = << >>

-----------------------------------------------------------------------------
(* JSON *)

Quote == "\""
Backslash == "\\"

MutantEscape(c) == IF c = Quote THEN <<Backslash, c>> ELSE <<c>>

Escape(c) == IF c \in {Quote, Backslash} THEN <<Backslash, c>> ELSE <<c>>

json_escape_string(s) ==
  <<Quote>> \o FlattenSeq([i \in 1 .. Len(s) |-> Escape(s[i])]) \o <<Quote>>

(* Members with plain values, and the comma behind them: those in a row are  *)
(* one here.                                                                 *)
Members == <<"key", "value", ",">>

FlowObject(name) ==
  <<"{">> \o Members
  \o (IF show_processes THEN Members \o <<"key">> \o json_escape_string(name) \o <<",">>
                        ELSE << >>)
  \o Members \o <<"key", "value", "}">>

(* The loop over screen_list, with its flag for the first flow.              *)
FlowObjects(flows) ==
  FlattenSeq([i \in 1 .. Len(flows) |-> (IF i = 1 THEN << >> ELSE <<",">>) \o FlowObject(flows[i])])

export_print_json(flows) ==
  <<"{">> \o Members \o <<"key">> \o json_escape_string(interface) \o <<",", "key", "[">>
  \o FlowObjects(flows)
  \o <<"]", ",", "key", "{">> \o Members \o <<"key", "value", "}", "}">>

-----------------------------------------------------------------------------
(* CSV *)

EndOfLine == "\n"

Cells(n) == FlattenSeq([i \in 1 .. n |-> <<"value", ",">>])

Header ==
  Cells(6) \o (IF show_processes THEN Cells(2) ELSE << >>) \o Cells(7) \o <<"value", EndOfLine>>

Row(name) ==
  Cells(6) \o (IF show_processes THEN Cells(1) \o name \o <<",">> ELSE << >>)
  \o Cells(7) \o <<"value", EndOfLine>>

export_print_csv(flows) ==
  (IF csv_header_printed THEN << >> ELSE Header)
  \o FlattenSeq([i \in 1 .. Len(flows) |-> Row(flows[i])])

-----------------------------------------------------------------------------
export_print ==
  /\ Len(snapshots) < MaxSnapshots
  /\ \E n \in 0 .. MaxFlows : \E flows \in [1 .. n -> ProcessNames] :
       /\ snapshots' = Append(snapshots, flows)
       /\ output' = Append(output, IF export_mode = "json" THEN export_print_json(flows)
                                                        ELSE export_print_csv(flows))
  /\ csv_header_printed' = (csv_header_printed \/ export_mode = "csv")
  /\ UNCHANGED <<export_mode, show_processes, interface>>

Next == export_print

Spec == Init /\ [][Next]_vars

-----------------------------------------------------------------------------
(* How JSON is read.  A character is escaped when the backslashes before it  *)
(* are odd in number, a quote that is not begins or ends a string, and what  *)
(* is not in a string is a token, a string as a whole included.              *)
Escaped(text, i) ==
  \E n \in 0 .. i - 1 : /\ n % 2 = 1
                        /\ \A j \in i - n .. i - 1 : text[j] = Backslash
                        /\ text[i - n - 1] # Backslash

Quotes(text) == {i \in DOMAIN text : text[i] = Quote /\ ~ Escaped(text, i)}

InString(quotes, i) == Cardinality({j \in quotes : j < i}) % 2 = 1

Token(c) == IF c = Quote THEN "value" ELSE c

(* Which token may come behind which.                                        *)
MayFollow == {<<"{", "key">>, <<"key", "value">>, <<"key", "{">>, <<"key", "[">>,
              <<"value", ",">>, <<"value", "}">>, <<"}", ",">>, <<"}", "}">>, <<"}", "]">>,
              <<"[", "{">>, <<"[", "]">>, <<"]", ",">>, <<",", "key">>, <<",", "{">>}

(* The n-th of a set of positions.                                           *)
Nth(positions, n) == CHOOSE i \in positions : Cardinality({j \in positions : j < i}) = n - 1

(* The characters of the strings, with the quote that ends each.             *)
Strings(names) == FlattenSeq([i \in 1 .. Len(names) |-> names[i] \o <<"end">>])

JsonReadsBack ==
  \A n \in DOMAIN output :
     LET text == output[n]
         quotes == Quotes(text)
         tokens == {i \in DOMAIN text : ~ InString(quotes, i)}
         chars == {i \in DOMAIN text \ tokens : text[i] = Backslash => Escaped(text, i)}
         names == Strings(<<interface>> \o IF show_processes THEN snapshots[n] ELSE << >>)
     IN  /\ \A i, j \in tokens : i < j /\ (\A k \in i + 1 .. j - 1 : k \notin tokens) =>
                                    <<Token(text[i]), Token(text[j])>> \in MayFollow
         /\ Cardinality(chars) = Len(names)
         /\ \A k \in 1 .. Len(names) :
              LET i == Nth(chars, k) IN names[k] = IF i \in quotes THEN "end" ELSE text[i]

(* The lines of what was printed, by their ends, and the fields of a line.   *)
Ends(text) == {i \in DOMAIN text : text[i] = EndOfLine}

Fields(text, end) ==
  LET start == Max({0} \union {i \in Ends(text) : i < end})
  IN  1 + Cardinality({i \in start + 1 .. end : text[i] = ","})

(* "CSV output prints a header row on first tick, then one row per flow per  *)
(* tick with the same fields." (README.md:173)                               *)
CsvReadsBack ==
  export_mode = "csv" =>
     \A i \in DOMAIN output :
        /\ Cardinality(Ends(output[i])) = Len(snapshots[i]) + IF i = 1 THEN 1 ELSE 0
        /\ \A end \in Ends(output[i]) : Fields(output[i], end) = Fields(output[1], Min(Ends(output[1])))

(* An export can be read back.  In JSON, each snapshot is a document with    *)
(* commas between the flows and nowhere else, and the names of the interface *)
(* and of the processes come back as they were, with the quotes and          *)
(* backslashes in them; in CSV, the header comes once and every row has its  *)
(* fields.                                                                   *)
ExportReadsBack == (export_mode = "json" => JsonReadsBack) /\ CsvReadsBack
=============================================================================
