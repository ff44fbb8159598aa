------------------------------- MODULE OmmCsv -------------------------------
(***************************************************************************)
(* parse_omm_csv (omm_csv.py): the body of a gp.php response, delivered    *)
(* token by token, is read by the strict csv reader of Python and turned   *)
(* into records.  The connection may end after any token; what the parser  *)
(* makes of the part that came is Parsed, in every state.                  *)
(*                                                                         *)
(* A token is a character: the five that the reader looks at, and letters, *)
(* digits and names of columns that it does not.                           *)
(***************************************************************************)
EXTENDS Integers, Sequences, SequencesExt

CONSTANTS
  Headers,     \* the columns CelesTrak may send, in their order
  Tables,      \* the records it may send
  LineEnds,    \* how it may end a record: CR LF, or LF
  Required,    \* REQUIRED_FIELDS
  Numeric,     \* _NUMERIC_FIELDS
  Letters,     \* the tokens that the reader does not look at
  Digits,      \* characters of a number
  MaxLength,   \* digits of the largest integer that can be serialized
  MaxDigits,   \* digits of the longest text that int() takes, zeros in front too
  Refused,     \* OmmValidationError
  Uncaught     \* the ValueError of int(), which nothing on the way catches

Comma == ","
Quote == "quote"
CR    == "CR"
LF    == "LF"
Special == {Comma, Quote, CR, LF}
Tokens  == Letters \cup Special

\* More than one column is required, so a line without a field is no record.
ASSUME CsvAssumption ==
  /\ Headers \subseteq Seq(Letters) \ {<<>>}
  /\ \A records \in Tables : \A i \in 1 .. Len(records), columns \in Headers :
       \A f \in ToSet(columns) : records[i][f] \in Seq(Tokens)
  /\ \A records \in Tables : records \in Seq(ToSet(records))
  /\ LineEnds \subseteq {<<CR, LF>>, <<LF>>}
  /\ \E f, g \in Required : f # g
  /\ Letters \cap Special = {} /\ Refused \notin Tokens /\ Uncaught # Refused

VARIABLES
  header, table, lineEnd,  \* what CelesTrak sends
  line,                    \* lines sent, the header among them
  column,                  \* the column whose field is next, or under way
  place,                   \* characters sent of that field
  phase,                   \* of the field or the end of the line
  last,                    \* the last token that came
  reader                   \* the csv reader

sent == <<line, column, place, phase>>
vars == <<header, table, lineEnd, sent, last, reader>>

-----------------------------------------------------------------------------
(* csv.reader with strict=True.  `at' is "record" at the start of a line,  *)
(* "field" at the start of a field, "plain" or "quoted" inside one,        *)
(* "closing" after a quote in a quoted one, "cr" after a carriage return.  *)

NewReader == [at |-> "record", field |-> <<>>, row |-> <<>>, rows |-> <<>>]

Go(r, at) == [r EXCEPT !.at = at]

Add(r, token) == [r EXCEPT !.field = Append(r.field, token)]

EndField(r) ==
  [at |-> "field", field |-> <<>>, row |-> Append(r.row, r.field), rows |-> r.rows]

\* Faulty variant: the row is not cleared for the next one.
EndRow_Kept(r) ==
  [at |-> "record", field |-> r.field, row |-> r.row, rows |-> Append(r.rows, r.row)]

EndRow(r) ==
  [at |-> "record", field |-> r.field, row |-> <<>>, rows |-> Append(r.rows, r.row)]

\* A blank line is a row without fields.
EndLine(r) == IF r.at = "record" THEN r ELSE EndField(r)

\* Faulty variant: a quote inside a quoted field ends it.
Read_Single(r, token) ==
  CASE r.at = "error" -> r
    [] r.at = "quoted" /\ token # Quote -> Add(r, token)
    [] r.at = "quoted" /\ token = Quote -> Go(r, "plain")
    [] r.at # "quoted" /\ token = CR -> Go(EndLine(r), "cr")
    [] r.at # "quoted" /\ token = LF -> EndRow(EndLine(r))
    [] r.at # "quoted" /\ token = Comma -> EndField(r)
    [] r.at \in {"record", "field"} /\ token = Quote -> Go(r, "quoted")
    [] OTHER -> Go(Add(r, token), "plain")

Read(r, token) ==
  CASE r.at = "error" -> r
    [] r.at = "quoted" /\ token # Quote -> Add(r, token)
    [] r.at = "quoted" /\ token = Quote -> Go(r, "closing")
    [] r.at = "closing" /\ token = Quote -> Go(Add(r, token), "quoted")
    [] r.at = "closing" /\ token \notin Special -> Go(r, "error")
    [] r.at \notin {"error", "quoted"} /\ token = CR -> Go(EndLine(r), "cr")
    [] r.at \notin {"error", "quoted"} /\ token = LF -> EndRow(EndLine(r))
    [] r.at \notin {"error", "quoted"} /\ token = Comma -> EndField(r)
    [] r.at \in {"record", "field"} /\ token = Quote -> Go(r, "quoted")
    [] OTHER -> Go(Add(r, token), "plain")

\* A carriage return ends the line, with the line feed that may follow.
Feed(r, token) ==
  CASE r.at = "cr" /\ token = LF -> EndRow(r)
    [] r.at = "cr" /\ token # LF -> Read(EndRow(r), token)
    [] OTHER -> Read(r, token)

\* The end of the body ends the line, and is an error inside quotes.
Ended(r) ==
  CASE r.at \in {"error", "quoted"} -> Go(r, "error")
    [] r.at = "record" -> r
    [] r.at = "cr" -> EndRow(r)
    [] OTHER -> EndRow(EndField(r))

-----------------------------------------------------------------------------
(* parse_omm_csv on what came.                                             *)

\* Faulty variant: a body that stops anywhere is read.
Terminated_Anywhere == last # Refused

Terminated == last = LF

\* The number that the digits stand for: zeros in front do not count.
Coerced(field, value) ==
  LET significant == {i \in DOMAIN value : value[i] # "0"} \cup {Len(value)}
  IN  IF field \in Numeric THEN SubSeq(value, Min(significant), Len(value)) ELSE value

Integral(field, value) == field \in Numeric /\ value # <<>> /\ ToSet(value) \subseteq Digits

\* More digits than int() takes: its ValueError is raised outside of the try.
Overlong(field, value) == Integral(field, value) /\ Len(value) > MaxDigits

\* _coerce gives a value: of a number that is one, and that can be serialized.
Coercible(field, value) ==
  field \in Numeric =>
    /\ Integral(field, value) /\ ~ Overlong(field, value)
    /\ Len(Coerced(field, value)) <= MaxLength

Record(columns, row) ==
  [f \in ToSet(columns) |-> Coerced(f, row[CHOOSE c \in DOMAIN columns : columns[c] = f])]

\* The name of a column, which is one token if it is there at all.
Column(cell) == IF cell = <<>> THEN "" ELSE Head(cell)

\* Every cell of the row has a value, and there is one for each column.
Sound(columns, row) ==
  /\ Len(row) = Len(columns)
  /\ \A c \in DOMAIN columns : Coercible(columns[c], row[c])

\* The first cell of the row without a value is the one that int() does not take.
Escapes(columns, row) ==
  /\ Len(row) = Len(columns)
  /\ \E c \in DOMAIN columns :
       /\ Overlong(columns[c], row[c])
       /\ \A b \in 1 .. c - 1 : Coercible(columns[b], row[b])

\* The rows are read one by one, and the first fault counts: one of the reader
\* comes after those of the rows that it returned.
Parsed ==
  LET rows    == Ended(reader).rows
      columns == [c \in DOMAIN rows[1] |-> Column(rows[1][c])]
      Headed  == Terminated /\ rows # <<>> /\ Required \subseteq ToSet(columns)
      Escaped == \E i \in 2 .. Len(rows) :
                   /\ Escapes(columns, rows[i])
                   /\ \A j \in 2 .. i - 1 : Sound(columns, rows[j])
      Whole   == /\ Ended(reader).at # "error"
                 /\ \A i \in 2 .. Len(rows) : Sound(columns, rows[i])
  IN  CASE Headed /\ Whole -> [i \in 1 .. Len(rows) - 1 |-> Record(columns, rows[i + 1])]
        [] Headed /\ Escaped -> Uncaught
        [] OTHER -> Refused

-----------------------------------------------------------------------------
(* CelesTrak: line by line, the header first, field by field.  A field with *)
(* a special character is quoted, a quote in it is doubled.                *)

\* The fields of a line.
Fields(i) ==
  [c \in DOMAIN header |-> IF i = 0 THEN <<header[c]>> ELSE table[i][header[c]]]

Value == Fields(line)[column]

Quoted == ToSet(Value) \cap Special # {}

Sending == line <= Len(table)

\* Nothing is sent of the line yet.
AtLine == column = 1 /\ place = 0 /\ phase = "open"

Init ==
  /\ header \in Headers
  /\ table \in Tables
  /\ lineEnd \in LineEnds
  /\ line = 0 /\ AtLine
  /\ last = Refused
  /\ reader = NewReader

Deliver(token) ==
  /\ last' = token
  /\ reader' = Feed(reader, token)
  /\ UNCHANGED <<header, table, lineEnd>>

OpenQuote ==
  /\ Sending /\ phase = "open" /\ Quoted
  /\ Deliver(Quote)
  /\ phase' = "quoted" /\ UNCHANGED <<line, column, place>>

\* The next character of the field; of a quote the first half.
Character ==
  /\ Sending /\ place < Len(Value)
  /\ phase = IF Quoted THEN "quoted" ELSE "open"
  /\ Deliver(Value[place + 1])
  /\ IF Value[place + 1] = Quote
     THEN phase' = "doubling" /\ UNCHANGED place
     ELSE place' = place + 1 /\ UNCHANGED phase
  /\ UNCHANGED <<line, column>>

DoubleQuote ==
  /\ phase = "doubling"
  /\ Deliver(Quote)
  /\ phase' = "quoted" /\ place' = place + 1 /\ UNCHANGED <<line, column>>

CloseQuote ==
  /\ phase = "quoted" /\ place = Len(Value)
  /\ Deliver(Quote)
  /\ phase' = "closed" /\ UNCHANGED <<line, column, place>>

\* The field is sent.
Complete ==
  /\ Sending
  /\ phase = "closed" \/ (phase = "open" /\ ~ Quoted /\ place = Len(Value))

NextField ==
  /\ Complete /\ column < Len(header)
  /\ Deliver(Comma)
  /\ column' = column + 1 /\ place' = 0 /\ phase' = "open" /\ UNCHANGED line

Return ==
  /\ Complete /\ column = Len(header) /\ lineEnd = <<CR, LF>>
  /\ Deliver(CR)
  /\ phase' = "return" /\ UNCHANGED <<line, column, place>>

NextLine ==
  /\ \/ Complete /\ column = Len(header) /\ lineEnd = <<LF>>
     \/ phase = "return"
  /\ Deliver(LF)
  /\ line' = line + 1 /\ column' = 1 /\ place' = 0 /\ phase' = "open"

Next ==
  \/ OpenQuote \/ Character \/ DoubleQuote \/ CloseQuote
  \/ NextField \/ Return \/ NextLine

Spec == Init /\ [][Next]_vars

-----------------------------------------------------------------------------
(* Properties.                                                             *)

\* The type invariant; a record starts with nothing left of the one before.
TypeOK ==
  LET Field == Seq(Tokens)
  IN  /\ header \in Headers /\ table \in Tables /\ lineEnd \in LineEnds
      /\ line \in 0 .. Len(table) + 1 /\ column \in 1 .. Len(header)
      /\ Sending => place \in 0 .. Len(Value)
      /\ phase \in {"open", "quoted", "doubling", "closed", "return"}
      /\ last \in Tokens \cup {Refused}
      /\ reader.at \in {"record", "field", "plain", "quoted", "closing", "cr", "error"}
      /\ reader.field \in Field /\ reader.row \in Seq(Field) /\ reader.rows \in Seq(Seq(Field))
      /\ reader.at = "record" => reader.row = <<>> /\ reader.field = <<>>

\* Each of the records can be read, and no required column is missing.
Readable(records) ==
  /\ Required \subseteq ToSet(header)
  /\ \A i \in DOMAIN records, f \in ToSet(header) : Coercible(f, records[i][f])

\* What CelesTrak means by them: its values by the names of their columns.
Meant(records) ==
  [i \in DOMAIN records |-> [f \in ToSet(header) |-> Coerced(f, records[i][f])]]

\* A whole body is read as it was meant (parse_omm_csv, _coerce): whatever the
\* order of its columns, with delimiters, quotes and line ends inside a name.
\* If one of its values cannot be read there is no record of it at all, and only
\* a number with more digits than int() takes is a fault of another kind.
WholeIsRead ==
  ~ Sending =>
    IF Readable(table) THEN Parsed = Meant(table)
    ELSE \/ Parsed = Refused
         \/ /\ Parsed = Uncaught
            /\ \E i \in DOMAIN table, f \in ToSet(header) : Overlong(f, table[i][f])

\* A body cut anywhere fails closed (the module's docstring): there are no
\* records, unless it was cut exactly at the end of one; then it is the records
\* before, and none of them differs from what was meant.
CutFailsClosed ==
  Sending /\ Parsed \notin {Refused, Uncaught} =>
    /\ line > 0 /\ AtLine
    /\ Parsed = Meant(SubSeq(table, 1, line - 1))

\* "Records, or OmmValidationError, never a third thing" (the comment at the
\* bounds of an integer).  False: int() itself fails on a number of more digits
\* than it takes, before the bounds are looked at.
RecordsOrRefused == Parsed # Uncaught

=============================================================================
