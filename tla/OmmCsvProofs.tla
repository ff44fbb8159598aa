---------------------------- MODULE OmmCsvProofs ----------------------------
(***************************************************************************)
(* What the reader of CSV makes of a response of any number of records and *)
(* columns, with any characters in its fields, cut after any token.        *)
(*                                                                         *)
(* The invariant gives the whole state of the reader as a function of what *)
(* was sent, so no induction over the tokens is needed.                    *)
(***************************************************************************)
EXTENDS OmmCsv, SequenceTheorems, TLAPS

Texts == Seq(Tokens)

-----------------------------------------------------------------------------
(* The reader: what a token makes of each of its states.                   *)

Reader(at, field, row, rows) == [at |-> at, field |-> field, row |-> row, rows |-> rows]

LEMMA ReaderParts ==
  ASSUME NEW at, NEW f, NEW w, NEW v
  PROVE  /\ Reader(at, f, w, v).at = at
         /\ \A t : Add(Reader(at, f, w, v), t) = Reader(at, Append(f, t), w, v)
         /\ \A b : Go(Reader(at, f, w, v), b) = Reader(b, f, w, v)
         /\ EndField(Reader(at, f, w, v)) = Reader("field", <<>>, Append(w, f), v)
         /\ EndRow(Reader(at, f, w, v)) = Reader("record", f, <<>>, Append(v, w))
<1>1. \A t : Add(Reader(at, f, w, v), t) = Reader(at, Append(f, t), w, v)
  BY SMTT(30) DEF Reader, Add
<1> QED
  BY <1>1 DEF Reader, Go, EndField, EndRow

\* Which branch of the automaton a token takes.
LEMMA Branch ==
  ASSUME NEW r, NEW t
  PROVE  /\ r.at \in {"record", "field"} /\ t = Quote => Feed(r, t) = Go(r, "quoted")
         /\ r.at \in {"record", "field", "plain"} /\ t \notin Special =>
              Feed(r, t) = Go(Add(r, t), "plain")
         /\ r.at = "quoted" /\ t # Quote => Feed(r, t) = Add(r, t)
         /\ r.at = "quoted" /\ t = Quote => Feed(r, t) = Go(r, "closing")
         /\ r.at = "closing" /\ t = Quote => Feed(r, t) = Go(Add(r, t), "quoted")
         /\ r.at \in {"record", "field", "plain", "closing"} /\ t = Comma =>
              Feed(r, t) = EndField(r)
         /\ r.at \in {"record", "field", "plain", "closing"} /\ t = CR =>
              Feed(r, t) = Go(EndLine(r), "cr")
         /\ r.at \in {"record", "field", "plain", "closing"} /\ t = LF =>
              Feed(r, t) = EndRow(EndLine(r))
         /\ r.at = "cr" /\ t = LF => Feed(r, t) = EndRow(r)
BY DEF Feed, Read, Special, Comma, Quote, CR, LF

LEMMA Fed ==
  ASSUME NEW at, NEW f, NEW w, NEW v, NEW t
  PROVE  LET r == Reader(at, f, w, v)
         IN  /\ at \in {"record", "field"} /\ t = Quote => Feed(r, t) = Reader("quoted", f, w, v)
             /\ at \in {"record", "field", "plain"} /\ t \notin Special =>
                  Feed(r, t) = Reader("plain", Append(f, t), w, v)
             /\ at = "quoted" /\ t # Quote => Feed(r, t) = Reader("quoted", Append(f, t), w, v)
             /\ at = "quoted" /\ t = Quote => Feed(r, t) = Reader("closing", f, w, v)
             /\ at = "closing" /\ t = Quote => Feed(r, t) = Reader("quoted", Append(f, t), w, v)
             /\ at \in {"record", "field", "plain", "closing"} /\ t = Comma =>
                  Feed(r, t) = Reader("field", <<>>, Append(w, f), v)
<1> DEFINE r == Reader(at, f, w, v)
           s == Reader(at, Append(f, t), w, v)
<1>1. r.at = at /\ EndField(r) = Reader("field", <<>>, Append(w, f), v)
  BY ReaderParts
<1>2. Add(r, t) = s
  BY ReaderParts
<1>3. Go(r, "quoted") = Reader("quoted", f, w, v) /\ Go(r, "closing") = Reader("closing", f, w, v)
  BY ReaderParts
<1>4. /\ Go(s, "plain") = Reader("plain", Append(f, t), w, v)
      /\ Go(s, "quoted") = Reader("quoted", Append(f, t), w, v)
  BY ReaderParts
<1>5. at = "quoted" => s = Reader("quoted", Append(f, t), w, v)
  OBVIOUS
<1> HIDE DEF r, s
<1>6. /\ at \in {"record", "field"} /\ t = Quote => Feed(r, t) = Reader("quoted", f, w, v)
      /\ at \in {"record", "field", "plain"} /\ t \notin Special =>
           Feed(r, t) = Reader("plain", Append(f, t), w, v)
      /\ at = "quoted" /\ t # Quote => Feed(r, t) = Reader("quoted", Append(f, t), w, v)
      /\ at = "quoted" /\ t = Quote => Feed(r, t) = Reader("closing", f, w, v)
      /\ at = "closing" /\ t = Quote => Feed(r, t) = Reader("quoted", Append(f, t), w, v)
      /\ at \in {"record", "field", "plain", "closing"} /\ t = Comma =>
           Feed(r, t) = Reader("field", <<>>, Append(w, f), v)
  BY <1>1, <1>2, <1>3, <1>4, <1>5, Branch
<1> QED
  BY <1>6 DEF r

\* The ends of a line; one without a field is a row without fields.
LEMMA FedLineEnd ==
  ASSUME NEW at, NEW f, NEW w, NEW v
  PROVE  LET r == Reader(at, f, w, v)
         IN  /\ at \in {"field", "plain", "closing"} =>
                  /\ Feed(r, CR) = Reader("cr", <<>>, Append(w, f), v)
                  /\ Feed(r, LF) = Reader("record", <<>>, <<>>, Append(v, Append(w, f)))
             /\ at = "record" =>
                  /\ Feed(r, CR) = Reader("cr", f, w, v)
                  /\ Feed(r, LF) = Reader("record", f, <<>>, Append(v, w))
             /\ at = "cr" => Feed(r, LF) = Reader("record", f, <<>>, Append(v, w))
<1> DEFINE r == Reader(at, f, w, v)
           s == Reader("field", <<>>, Append(w, f), v)
<1>1. r.at = at /\ EndField(r) = s
  BY ReaderParts
<1>2. EndRow(r) = Reader("record", f, <<>>, Append(v, w))
  BY ReaderParts
<1>3. /\ Go(s, "cr") = Reader("cr", <<>>, Append(w, f), v)
      /\ EndRow(s) = Reader("record", <<>>, <<>>, Append(v, Append(w, f)))
  BY ReaderParts
<1>4. Go(r, "cr") = Reader("cr", f, w, v)
  BY ReaderParts
<1> HIDE DEF r, s
<1>5. EndLine(r) = IF at = "record" THEN r ELSE s
  BY <1>1 DEF EndLine
<1>6. /\ at \in {"field", "plain", "closing"} =>
           /\ Feed(r, CR) = Reader("cr", <<>>, Append(w, f), v)
           /\ Feed(r, LF) = Reader("record", <<>>, <<>>, Append(v, Append(w, f)))
      /\ at = "record" =>
           /\ Feed(r, CR) = Reader("cr", f, w, v)
           /\ Feed(r, LF) = Reader("record", f, <<>>, Append(v, w))
      /\ at = "cr" => Feed(r, LF) = Reader("record", f, <<>>, Append(v, w))
  BY <1>1, <1>2, <1>3, <1>4, <1>5, Branch
<1> QED
  BY <1>6 DEF r

-----------------------------------------------------------------------------
(* Sequences that grow.                                                    *)

LEMMA Grows ==
  ASSUME NEW S, NEW s \in Seq(S), NEW k \in Nat, k < Len(s)
  PROVE  Append(SubSeq(s, 1, k), s[k + 1]) = SubSeq(s, 1, k + 1)
<1>1. Len(s) \in Nat
  BY LenProperties
<1>2. k + 1 \in 1 .. Len(s) /\ k + 1 \in 1 .. k + 1 /\ 1 \in 1 .. Len(s) /\ k + 1 \in 1 .. Len(s)
  BY <1>1
<1>3. SubSeq(s, 1, k + 1) = SubSeq(s, 1, (k + 1) - 1) \o <<s[k + 1]>>
  BY <1>2, SubSeqRecursiveSecond
<1>4. (k + 1) - 1 = k
  OBVIOUS
<1>5. SubSeq(s, 1, k) \in Seq(S) /\ s[k + 1] \in S
  <2>1. \A i \in 1 .. k : s[i] \in S
    BY <1>1, ElementOfSeq
  <2> QED
    BY <1>1, <1>2, <2>1, ElementOfSeq, SubSeqProperties
<1> QED
  BY <1>3, <1>4, <1>5, AppendIsConcat

LEMMA NothingSent == \A s : SubSeq(s, 1, 0) = <<>>
BY SubSeqEmpty

LEMMA AllSent == ASSUME NEW S, NEW s \in Seq(S) PROVE SubSeq(s, 1, Len(s)) = s
BY SubSeqFull

-----------------------------------------------------------------------------
(* What is sent.                                                           *)

LEMMA Columns ==
  ASSUME header \in Headers
  PROVE  /\ header \in Seq(Letters) /\ Len(header) \in Nat \ {0}
         /\ DOMAIN header = 1 .. Len(header)
         /\ \A c \in 1 .. Len(header) : header[c] \in Letters /\ header[c] \in ToSet(header)
<1>1. header \in Seq(Letters) /\ header # <<>>
  BY CsvAssumption
<1>2. Len(header) \in Nat \ {0} /\ DOMAIN header = 1 .. Len(header)
  BY <1>1, EmptySeq, LenProperties
<1>3. \A c \in 1 .. Len(header) : header[c] \in Letters
  BY <1>1, ElementOfSeq
<1> QED
  BY <1>1, <1>2, <1>3 DEF ToSet

LEMMA Records ==
  ASSUME table \in Tables
  PROVE  /\ Len(table) \in Nat /\ table \in Seq(ToSet(table))
BY CsvAssumption, LenProperties

LEMMA FieldsOf ==
  ASSUME header \in Headers, table \in Tables, NEW i \in 0 .. Len(table)
  PROVE  /\ Fields(i) \in Seq(Texts) /\ Len(Fields(i)) = Len(header)
         /\ \A c \in 1 .. Len(header) : Fields(i)[c] \in Texts
<1>1. Len(table) \in Nat
  BY Records
<1>2. ASSUME NEW c \in 1 .. Len(header)
      PROVE  (IF i = 0 THEN <<header[c]>> ELSE table[i][header[c]]) \in Texts
  <2>1. CASE i = 0
    <3>1. header[c] \in Tokens
      BY Columns DEF Tokens
    <3> QED
      BY <2>1, <3>1 DEF Texts
  <2>2. CASE i # 0
    <3>1. i \in 1 .. Len(table) /\ header[c] \in ToSet(header)
      BY <1>1, <2>2, Columns
    <3> QED
      BY <2>2, <3>1, CsvAssumption DEF Texts
  <2> QED
    BY <2>1, <2>2
<1>3. Fields(i) \in [1 .. Len(header) -> Texts]
  BY <1>2, Columns DEF Fields
<1>4. Len(header) \in Nat
  BY Columns
<1> HIDE DEF Texts
<1>5. Fields(i) \in Seq(Texts) /\ Len(Fields(i)) = Len(header)
  BY <1>3, <1>4
<1> QED
  BY <1>3, <1>5

-----------------------------------------------------------------------------
(* The invariant.                                                          *)

\* What the reader makes of a line: with a single column and nothing in it, the
\* line is empty.
ReadFields(i) == IF Fields(i) = << <<>> >> THEN <<>> ELSE Fields(i)

RowsRead(k) == [i \in 1 .. k |-> ReadFields(i - 1)]

At ==
  CASE phase = "quoted" -> "quoted"
    [] phase \in {"doubling", "closed"} -> "closing"
    [] phase = "return" -> "cr"
    [] phase = "open" /\ place > 0 -> "plain"
    [] phase = "open" /\ place = 0 /\ column > 1 -> "field"
    [] phase = "open" /\ place = 0 /\ column = 1 -> "record"

Following ==
  reader =
    CASE phase = "return" -> Reader(At, <<>>, ReadFields(line), RowsRead(line))
      [] phase # "return" /\ Sending ->
           Reader(At, SubSeq(Value, 1, place), SubSeq(Fields(line), 1, column - 1), RowsRead(line))
      [] phase # "return" /\ ~ Sending -> Reader(At, <<>>, <<>>, RowsRead(line))

SentInv ==
  /\ header \in Headers /\ table \in Tables /\ lineEnd \in LineEnds
  /\ line \in 0 .. Len(table) + 1 /\ column \in 1 .. Len(header) /\ place \in Nat
  /\ phase \in {"open", "quoted", "doubling", "closed", "return"}
  /\ IF Sending THEN place <= Len(Value) ELSE AtLine
  /\ phase = "open" /\ place > 0 => ~ Quoted
  /\ phase \in {"quoted", "doubling", "closed"} => Quoted
  /\ phase = "doubling" => place < Len(Value) /\ Value[place + 1] = Quote
  /\ phase = "closed" => place = Len(Value)
  /\ phase = "return" => column = Len(header) /\ lineEnd = <<CR, LF>>

LastInv ==
  /\ last \in Tokens \cup {Refused}
  /\ last = LF => phase = "quoted" \/ (AtLine /\ line > 0)
  /\ AtLine /\ line > 0 => last = LF

CsvInv == SentInv /\ LastInv /\ Following

LEMMA RowsGrow ==
  ASSUME NEW k \in Nat, \A i \in 0 .. k : ReadFields(i) \in Seq(Texts)
  PROVE  /\ RowsRead(0) = <<>>
         /\ RowsRead(k) \in Seq(Seq(Texts)) /\ Len(RowsRead(k)) = k
         /\ RowsRead(k + 1) = Append(RowsRead(k), ReadFields(k))
<1>1. RowsRead(k) \in [1 .. k -> Seq(Texts)]
  <2>1. \A i \in 1 .. k : i - 1 \in 0 .. k
    OBVIOUS
  <2> QED
    BY <2>1 DEF RowsRead
<1>2. RowsRead(k + 1) \in [1 .. k + 1 -> Seq(Texts)]
  <2>1. \A i \in 1 .. k + 1 : i - 1 \in 0 .. k
    OBVIOUS
  <2> QED
    BY <2>1 DEF RowsRead
<1>3. RowsRead(k) \in Seq(Seq(Texts)) /\ Len(RowsRead(k)) = k
  BY <1>1
<1>4. RowsRead(k + 1) \in Seq(Seq(Texts)) /\ Len(RowsRead(k + 1)) = k + 1
  BY <1>2
<1>5. RowsRead(k + 1) = Append(RowsRead(k), ReadFields(k))
  <2> DEFINE a == Append(RowsRead(k), ReadFields(k))
  <2>1. k \in 0 .. k
    OBVIOUS
  <2>2. /\ a \in Seq(Seq(Texts)) /\ Len(a) = k + 1
        /\ \A i \in 1 .. k : a[i] = RowsRead(k)[i]
        /\ a[k + 1] = ReadFields(k)
    BY <1>3, <2>1, AppendProperties
  <2> HIDE DEF a
  <2>3. \A i \in 1 .. k : RowsRead(k + 1)[i] = RowsRead(k)[i]
    BY DEF RowsRead
  <2>4. RowsRead(k + 1)[k + 1] = ReadFields(k)
    <3>1. k + 1 \in 1 .. k + 1 /\ (k + 1) - 1 = k
      OBVIOUS
    <3> QED
      BY <3>1 DEF RowsRead
  <2>5. \A i \in 1 .. k + 1 : RowsRead(k + 1)[i] = a[i]
    BY <2>2, <2>3, <2>4
  <2>6. RowsRead(k + 1) = a
    BY <1>4, <2>2, <2>5, SeqEqual
  <2> QED
    BY <2>6 DEF a
<1>6. RowsRead(0) = <<>>
  BY DEF RowsRead
<1> QED
  BY <1>3, <1>5, <1>6

LEMMA ReadFieldsOf ==
  ASSUME header \in Headers, table \in Tables, NEW i \in 0 .. Len(table)
  PROVE  ReadFields(i) \in Seq(Texts)
BY FieldsOf, EmptySeq DEF ReadFields

\* Where the sender is, while it is sending.
LEMMA Underway ==
  ASSUME SentInv, Sending
  PROVE  /\ line \in 0 .. Len(table) /\ Len(table) \in Nat /\ Len(header) \in Nat
         /\ Fields(line) \in Seq(Texts) /\ Len(Fields(line)) = Len(header)
         /\ Value \in Seq(Tokens) /\ Len(Value) \in Nat /\ place \in 0 .. Len(Value)
         /\ ~ Quoted => \A k \in 1 .. Len(Value) : Value[k] \notin Special
         /\ Quoted => Value # <<>>
         /\ RowsRead(line + 1) = Append(RowsRead(line), ReadFields(line))
<1>0. /\ header \in Headers /\ table \in Tables /\ line \in 0 .. Len(table) + 1
      /\ line <= Len(table) /\ place \in Nat /\ place <= Len(Value)
  BY DEF SentInv, Sending
<1>1. line \in 0 .. Len(table) /\ Len(table) \in Nat /\ Len(header) \in Nat
  <2>1. Len(table) \in Nat /\ Len(header) \in Nat
    BY <1>0, Records, Columns
  <2> QED
    BY <1>0, <2>1
<1>2. Fields(line) \in Seq(Texts) /\ Len(Fields(line)) = Len(header) /\ Value \in Texts
  BY <1>1, FieldsOf DEF SentInv, Value
<1>3. Value \in Seq(Tokens) /\ Len(Value) \in Nat /\ DOMAIN Value = 1 .. Len(Value)
  BY <1>2, LenProperties DEF Texts
<1>4. ToSet(Value) = {Value[k] : k \in 1 .. Len(Value)}
  BY <1>3 DEF ToSet
<1>5. ~ Quoted => \A k \in 1 .. Len(Value) : Value[k] \notin Special
  BY <1>4 DEF Quoted
<1>6. Quoted => Value # <<>>
  <2>1. Value = <<>> => 1 .. Len(Value) = {}
    BY <1>3
  <2> QED
    BY <1>4, <2>1 DEF Quoted
<1>7. \A i \in 0 .. line : i \in 0 .. Len(table)
  BY <1>1
<1>8. RowsRead(line + 1) = Append(RowsRead(line), ReadFields(line))
  BY <1>1, <1>7, ReadFieldsOf, RowsGrow DEF SentInv
<1> QED
  BY <1>0, <1>1, <1>2, <1>3, <1>5, <1>6, <1>8

LEMMA Same ==
  ASSUME UNCHANGED <<header, table>>
  PROVE  /\ \A i : Fields(i)' = Fields(i) /\ ReadFields(i)' = ReadFields(i)
         /\ \A k : RowsRead(k)' = RowsRead(k)
<1>1. \A i : Fields(i)' = Fields(i)
  BY DEF Fields
<1>2. \A i : ReadFields(i)' = ReadFields(i)
  BY <1>1 DEF ReadFields
<1> QED
  BY <1>1, <1>2 DEF RowsRead

\* The field, while it is under way, and what has to be shown of the reader.
LEMMA SameField ==
  ASSUME UNCHANGED <<header, table, line, column>>
  PROVE  Value' = Value /\ Quoted' = Quoted /\ Sending' = Sending
BY Same DEF Value, Quoted, Sending

LEMMA FollowingSending ==
  ASSUME Following, Sending, phase # "return"
  PROVE  reader = Reader(At, SubSeq(Value, 1, place), SubSeq(Fields(line), 1, column - 1),
                         RowsRead(line))
BY DEF Following

LEMMA FollowingOf ==
  ASSUME UNCHANGED <<header, table>>, Sending', phase' # "return",
         reader' = Reader(At', SubSeq(Value', 1, place'), SubSeq(Fields(line'), 1, column' - 1),
                          RowsRead(line'))
  PROVE  Following'
<1>1. Fields(line)' = Fields(line') /\ RowsRead(line)' = RowsRead(line')
  BY Same
<1> QED
  BY <1>1 DEF Following

-----------------------------------------------------------------------------
(* The invariant holds, token by token.                                    *)

LEMMA CsvInit == Init => CsvInv
<1> SUFFICES ASSUME Init PROVE CsvInv
  OBVIOUS
<1>1. /\ header \in Headers /\ table \in Tables /\ lineEnd \in LineEnds
      /\ line = 0 /\ column = 1 /\ place = 0 /\ phase = "open" /\ last = Refused
      /\ reader = NewReader
  BY DEF Init, AtLine
<1>2. /\ Len(table) \in Nat /\ Len(header) \in Nat \ {0}
  BY <1>1, Records, Columns
<1>3. Fields(0) \in Seq(Texts) /\ Fields(0)[1] \in Texts /\ 0 \in 0 .. Len(table)
  BY <1>1, <1>2, FieldsOf
<1>4. Sending /\ Value = Fields(0)[1]
  BY <1>1, <1>2 DEF Sending, Value
<1>5. Len(Value) \in Nat
  BY <1>3, <1>4, LenProperties DEF Texts
<1>6. SentInv
  BY <1>1, <1>2, <1>4, <1>5 DEF SentInv, Quoted
<1>7. LastInv
  BY <1>1, CsvAssumption DEF LastInv, AtLine, Tokens, Special
<1>8. RowsRead(0) = <<>>
  BY DEF RowsRead
<1>9. NewReader = Reader("record", <<>>, <<>>, <<>>)
  BY DEF NewReader, Reader
<1>10. At = "record"
  BY <1>1 DEF At
<1>11. SubSeq(Value, 1, place) = <<>> /\ SubSeq(Fields(line), 1, column - 1) = <<>>
  <2>1. column - 1 = 0
    BY <1>1
  <2> QED
    BY <1>1, <2>1, NothingSent
<1>12. phase # "return"
  BY <1>1
<1>13. Following
  BY <1>1, <1>4, <1>8, <1>9, <1>10, <1>11, <1>12 DEF Following
<1> QED
  BY <1>6, <1>7, <1>13 DEF CsvInv

LEMMA OpenQuoteStep == ASSUME CsvInv, OpenQuote PROVE CsvInv'
<1> DEFINE w == SubSeq(Fields(line), 1, column - 1)
           v == RowsRead(line)
<1>1. /\ Sending /\ phase = "open" /\ Quoted /\ place = 0
      /\ last' = Quote /\ reader' = Feed(reader, Quote)
      /\ phase' = "quoted" /\ line' = line /\ column' = column /\ place' = place
      /\ UNCHANGED <<header, table, lineEnd>>
  BY DEF OpenQuote, Deliver, CsvInv, SentInv
<1>2. Value' = Value /\ Quoted' = Quoted /\ Sending' = Sending
  BY <1>1, SameField
<1>3. SentInv'
  BY <1>1, <1>2 DEF CsvInv, SentInv
<1>4. LastInv'
  BY <1>1 DEF LastInv, AtLine, Tokens, Special, Quote, LF
<1>5. reader = Reader(At, <<>>, w, v) /\ At \in {"record", "field"}
  <2>1. At \in {"record", "field"}
    BY <1>1 DEF At, CsvInv, SentInv
  <2>2. SubSeq(Value, 1, place) = <<>>
    BY <1>1, NothingSent
  <2> QED
    BY <1>1, <2>1, <2>2, FollowingSending DEF CsvInv
<1>6. reader' = Reader("quoted", <<>>, w, v)
  BY <1>1, <1>5, Fed
<1>7. At' = "quoted" /\ SubSeq(Value', 1, place') = <<>>
  BY <1>1, <1>2, NothingSent DEF At
<1>8. Fields(line') = Fields(line) /\ RowsRead(line') = RowsRead(line) /\ column' - 1 = column - 1
  BY <1>1
<1>9. Following'
  BY <1>1, <1>2, <1>6, <1>7, <1>8, FollowingOf
<1> QED
  BY <1>3, <1>4, <1>9 DEF CsvInv

\* A character of the field that is no quote, or the second half of one.
LEMMA OneMore ==
  ASSUME CsvInv, Sending, place < Len(Value), NEW t, t = Value[place + 1],
         UNCHANGED <<header, table, lineEnd, line, column>>, place' = place + 1,
         phase' \in {"open", "quoted"}, phase' = IF Quoted THEN "quoted" ELSE "open",
         last' = t, reader' = Reader(At', Append(SubSeq(Value, 1, place), t),
                                     SubSeq(Fields(line), 1, column - 1), RowsRead(line))
  PROVE  CsvInv'
<1>1. Value' = Value /\ Quoted' = Quoted /\ Sending' = Sending
  BY SameField
<1>2. /\ Value \in Seq(Tokens) /\ Len(Value) \in Nat /\ place \in Nat
      /\ ~ Quoted => \A k \in 1 .. Len(Value) : Value[k] \notin Special
  BY Underway DEF CsvInv
<1>3. place' > 0 /\ place' <= Len(Value) /\ place' \in Nat /\ place + 1 \in 1 .. Len(Value)
  BY <1>2
<1>4. SentInv'
  BY <1>1, <1>3 DEF CsvInv, SentInv
<1>5. t \in Tokens /\ (t = LF => Quoted)
  <2>1. t \in Tokens
    BY <1>2, <1>3, ElementOfSeq
  <2>2. t = LF => t \in Special
    BY DEF Special
  <2> QED
    BY <1>2, <1>3, <2>1, <2>2
<1>6. LastInv'
  BY <1>3, <1>5 DEF LastInv, AtLine
<1>7. Append(SubSeq(Value, 1, place), t) = SubSeq(Value', 1, place')
  BY <1>1, <1>2, Grows
<1>8. Fields(line') = Fields(line) /\ RowsRead(line') = RowsRead(line) /\ column' - 1 = column - 1
  OBVIOUS
<1>9. Following'
  BY <1>1, <1>7, <1>8, FollowingOf
<1> QED
  BY <1>4, <1>6, <1>9 DEF CsvInv

LEMMA CharacterStep == ASSUME CsvInv, Character PROVE CsvInv'
<1> DEFINE t == Value[place + 1]
           f == SubSeq(Value, 1, place)
           w == SubSeq(Fields(line), 1, column - 1)
           v == RowsRead(line)
<1>1. /\ Sending /\ place < Len(Value) /\ phase = IF Quoted THEN "quoted" ELSE "open"
      /\ last' = t /\ reader' = Feed(reader, t)
      /\ UNCHANGED <<header, table, lineEnd, line, column>>
      /\ IF t = Quote THEN phase' = "doubling" /\ place' = place
         ELSE place' = place + 1 /\ phase' = phase
  BY DEF Character, Deliver
<1>2. /\ phase \in {"open", "quoted"} /\ phase # "return"
      /\ reader = Reader(At, f, w, v)
  BY <1>1, FollowingSending DEF CsvInv
<1>3. /\ Value \in Seq(Tokens) /\ place + 1 \in 1 .. Len(Value)
      /\ place \in Nat /\ column \in 1 .. Len(header) /\ Len(header) \in Nat
      /\ ~ Quoted => t \notin Special
  BY <1>1, Underway DEF CsvInv, SentInv
<1>4. CASE ~ Quoted
  <2>1. t # Quote /\ phase = "open"
    BY <1>1, <1>3, <1>4 DEF Special
  <2>2. place' = place + 1 /\ phase' = "open"
    BY <1>1, <2>1
  <2>3. At \in {"record", "field", "plain"} /\ At' = "plain"
    <3>1. column > 1 \/ column = 1
      BY <1>3
    <3>2. place > 0 \/ place = 0
      BY <1>3
    <3>3. place' > 0
      BY <1>3, <2>2
    <3> QED
      BY <2>1, <2>2, <3>1, <3>2, <3>3 DEF At
  <2> HIDE DEF f, w, v, t
  <2>4. reader' = Reader(At', Append(f, t), w, v)
    BY <1>1, <1>2, <1>3, <1>4, <2>3, Fed
  <2> QED
    BY <1>1, <1>4, <2>2, <2>4, OneMore DEF f, w, v, t
<1>5. CASE Quoted /\ t # Quote
  <2>1. phase = "quoted" /\ place' = place + 1 /\ phase' = "quoted"
    BY <1>1, <1>5
  <2>2. At = "quoted" /\ At' = "quoted"
    BY <2>1 DEF At
  <2> HIDE DEF f, w, v, t
  <2>3. reader' = Reader(At', Append(f, t), w, v)
    BY <1>1, <1>2, <1>5, <2>2, Fed
  <2> QED
    BY <1>1, <1>5, <2>1, <2>3, OneMore DEF f, w, v, t
<1>6. CASE Quoted /\ t = Quote
  <2>1. phase = "quoted" /\ place' = place /\ phase' = "doubling"
    BY <1>1, <1>6
  <2>2. At = "quoted" /\ At' = "closing"
    BY <2>1 DEF At
  <2>3. Value' = Value /\ Quoted' = Quoted /\ Sending' = Sending
    BY <1>1, SameField
  <2>4. SentInv'
    BY <1>1, <1>6, <2>1, <2>3 DEF CsvInv, SentInv
  <2>5. LastInv'
    BY <1>1, <1>6, <2>1 DEF LastInv, AtLine, Tokens, Special, Quote, LF
  <2>6. /\ Fields(line') = Fields(line) /\ RowsRead(line') = RowsRead(line)
        /\ column' - 1 = column - 1 /\ SubSeq(Value', 1, place') = f
    BY <1>1, <2>1, <2>3
  <2> HIDE DEF f, w, v, t
  <2>7. reader' = Reader("closing", f, w, v)
    BY <1>1, <1>2, <1>6, <2>2, Fed
  <2>8. Following'
    BY <1>1, <2>1, <2>2, <2>3, <2>6, <2>7, FollowingOf DEF w, v
  <2> QED
    BY <2>4, <2>5, <2>8 DEF CsvInv
<1> QED
  BY <1>4, <1>5, <1>6

LEMMA DoubleQuoteStep == ASSUME CsvInv, DoubleQuote PROVE CsvInv'
<1> DEFINE f == SubSeq(Value, 1, place)
           w == SubSeq(Fields(line), 1, column - 1)
           v == RowsRead(line)
<1>1. /\ phase = "doubling" /\ last' = Quote /\ reader' = Feed(reader, Quote)
      /\ UNCHANGED <<header, table, lineEnd, line, column>>
      /\ phase' = "quoted" /\ place' = place + 1
  BY DEF DoubleQuote, Deliver
<1>2. Sending /\ Quoted /\ place < Len(Value) /\ Value[place + 1] = Quote
  BY <1>1 DEF CsvInv, SentInv, AtLine
<1>3. At = "closing" /\ At' = "quoted" /\ phase # "return"
  BY <1>1 DEF At
<1>4. reader = Reader(At, f, w, v)
  BY <1>2, <1>3, FollowingSending DEF CsvInv
<1> HIDE DEF f, w, v
<1>5. reader' = Reader(At', Append(f, Quote), w, v)
  BY <1>1, <1>3, <1>4, Fed
<1> QED
  BY <1>1, <1>2, <1>5, OneMore DEF f, w, v

LEMMA CloseQuoteStep == ASSUME CsvInv, CloseQuote PROVE CsvInv'
<1> DEFINE f == SubSeq(Value, 1, place)
           w == SubSeq(Fields(line), 1, column - 1)
           v == RowsRead(line)
<1>1. /\ phase = "quoted" /\ place = Len(Value)
      /\ last' = Quote /\ reader' = Feed(reader, Quote)
      /\ UNCHANGED <<header, table, lineEnd, line, column, place>> /\ phase' = "closed"
  BY DEF CloseQuote, Deliver
<1>2. Sending /\ Quoted
  BY <1>1 DEF CsvInv, SentInv, AtLine
<1>3. At = "quoted" /\ At' = "closing" /\ phase # "return"
  BY <1>1 DEF At
<1>4. reader = Reader(At, f, w, v)
  BY <1>2, <1>3, FollowingSending DEF CsvInv
<1>5. Value' = Value /\ Quoted' = Quoted /\ Sending' = Sending
  BY <1>1, SameField
<1>6. SentInv'
  BY <1>1, <1>2, <1>5 DEF CsvInv, SentInv
<1>7. LastInv'
  BY <1>1 DEF LastInv, AtLine, Tokens, Special, Quote, LF
<1>8. /\ Fields(line') = Fields(line) /\ RowsRead(line') = RowsRead(line)
      /\ column' - 1 = column - 1 /\ SubSeq(Value', 1, place') = f
  BY <1>1, <1>5
<1> HIDE DEF f, w, v
<1>9. reader' = Reader("closing", f, w, v)
  BY <1>1, <1>3, <1>4, Fed
<1>10. Following'
  BY <1>1, <1>2, <1>3, <1>5, <1>8, <1>9, FollowingOf DEF w, v
<1> QED
  BY <1>6, <1>7, <1>10 DEF CsvInv

\* The field is in the reader, whole.
LEMMA WholeField ==
  ASSUME CsvInv, Complete
  PROVE  /\ Sending /\ phase # "return"
         /\ At \in {"record", "field", "plain", "closing"}
         /\ reader = Reader(At, Value, SubSeq(Fields(line), 1, column - 1), RowsRead(line))
         /\ Append(SubSeq(Fields(line), 1, column - 1), Value) = SubSeq(Fields(line), 1, column)
         /\ At = "record" => column = 1 /\ Value = <<>>
         /\ Value = <<>> => phase = "open"
<1>1. /\ Sending /\ phase \in {"open", "closed"} /\ phase # "return" /\ place = Len(Value)
      /\ phase = "closed" => Quoted
      /\ column \in 1 .. Len(header) /\ place \in Nat
  BY DEF Complete, CsvInv, SentInv
<1>2. /\ Fields(line) \in Seq(Texts) /\ Len(Fields(line)) = Len(header) /\ Len(header) \in Nat
      /\ Value \in Seq(Tokens) /\ Len(Value) \in Nat
      /\ Quoted => Value # <<>>
  BY <1>1, Underway DEF CsvInv
<1>3. /\ At \in {"record", "field", "plain", "closing"}
      /\ At = "record" => column = 1 /\ place = 0
  <2>1. (column > 1 \/ column = 1) /\ (place > 0 \/ place = 0)
    BY <1>1, <1>2
  <2> QED
    BY <1>1, <2>1 DEF At
<1>4. SubSeq(Value, 1, place) = Value
  BY <1>1, <1>2, AllSent
<1>5. place = 0 => Value = <<>>
  BY <1>1, <1>4, NothingSent
<1>6. reader = Reader(At, Value, SubSeq(Fields(line), 1, column - 1), RowsRead(line))
  BY <1>1, <1>4, FollowingSending DEF CsvInv
<1>7. Append(SubSeq(Fields(line), 1, column - 1), Value) = SubSeq(Fields(line), 1, column)
  <2>1. column - 1 \in Nat /\ column - 1 < Len(Fields(line)) /\ (column - 1) + 1 = column
    BY <1>1, <1>2
  <2>2. Append(SubSeq(Fields(line), 1, column - 1), Fields(line)[(column - 1) + 1])
          = SubSeq(Fields(line), 1, (column - 1) + 1)
    BY <1>2, <2>1, Grows
  <2> QED
    BY <2>1, <2>2 DEF Value
<1>8. Value = <<>> => phase = "open"
  BY <1>1, <1>2
<1> QED
  BY <1>1, <1>3, <1>5, <1>6, <1>7, <1>8

\* What is read of a line at its end.
LEMMA WholeLine ==
  ASSUME CsvInv, Complete, column = Len(header)
  PROVE  IF At = "record"
         THEN /\ Value = <<>> /\ SubSeq(Fields(line), 1, column - 1) = <<>>
              /\ ReadFields(line) = <<>>
         ELSE Append(SubSeq(Fields(line), 1, column - 1), Value) = ReadFields(line)
<1>1. /\ Fields(line) \in Seq(Texts) /\ Len(Fields(line)) = Len(header) /\ Len(header) \in Nat
      /\ column \in 1 .. Len(header)
  BY WholeField, Underway DEF CsvInv, SentInv
<1>2. Append(SubSeq(Fields(line), 1, column - 1), Value) = Fields(line)
  BY <1>1, WholeField, AllSent
<1>3. CASE At = "record"
  <2>0. column = 1 /\ Value = <<>>
    <3>1. At = "record" => column = 1 /\ Value = <<>>
      BY WholeField
    <3> QED
      BY <1>3, <3>1
  <2>1. column = 1 /\ Value = <<>> /\ column - 1 = 0
    BY <2>0
  <2>2. SubSeq(Fields(line), 1, column - 1) = <<>>
    BY <2>1, NothingSent
  <2>3. Fields(line) = << <<>> >>
    BY <1>2, <2>1, <2>2
  <2> QED
    BY <1>3, <2>1, <2>2, <2>3 DEF ReadFields
<1>4. CASE At # "record"
  <2>1. Fields(line) # << <<>> >>
    <3>1. SUFFICES ASSUME Fields(line) = << <<>> >> PROVE FALSE
      OBVIOUS
    <3>2. Len(Fields(line)) = 1 /\ Fields(line)[1] = <<>>
      BY <3>1
    <3>3. column = 1 /\ Value = <<>>
      BY <1>1, <3>2 DEF Value
    <3>4. phase = "open" /\ place = 0
      <4>1. phase = "open"
        BY <3>3, WholeField
      <4>2. place = Len(Value) /\ Len(<<>>) = 0
        BY <4>1 DEF Complete
      <4> QED
        BY <3>3, <4>1, <4>2
    <3>5. At = "record"
      BY <3>3, <3>4 DEF At
    <3> QED
      BY <1>4, <3>5
  <2> QED
    BY <1>2, <1>4, <2>1 DEF ReadFields
<1> QED
  BY <1>3, <1>4

LEMMA NextFieldStep == ASSUME CsvInv, NextField PROVE CsvInv'
<1> DEFINE f == Value
           w == SubSeq(Fields(line), 1, column - 1)
           v == RowsRead(line)
<1>1. /\ Complete /\ column < Len(header)
      /\ last' = Comma /\ reader' = Feed(reader, Comma)
      /\ UNCHANGED <<header, table, lineEnd, line>>
      /\ column' = column + 1 /\ place' = 0 /\ phase' = "open"
  BY DEF NextField, Deliver
<1>2. /\ header \in Headers /\ table \in Tables /\ lineEnd \in LineEnds
      /\ line \in 0 .. Len(table) + 1 /\ line \in 0 .. Len(table)
      /\ column \in 1 .. Len(header) /\ Len(header) \in Nat /\ Len(table) \in Nat
  BY <1>1, WholeField, Underway DEF CsvInv, SentInv
<1>3. column' \in 1 .. Len(header) /\ column' > 1 /\ column' - 1 = column
  BY <1>1, <1>2
<1>4. Sending' /\ Value' = Fields(line)[column']
  <2>1. Sending' = Sending /\ Fields(line)' = Fields(line)
    BY <1>1, Same DEF Sending
  <2>2. Value' = Fields(line)'[column']
    BY <1>1, Same DEF Value
  <2> QED
    BY <1>1, <2>1, <2>2, WholeField
<1>5. Len(Value') \in Nat
  BY <1>2, <1>3, <1>4, FieldsOf, LenProperties DEF Texts
<1>6. SentInv'
  BY <1>1, <1>2, <1>3, <1>4, <1>5 DEF SentInv
<1>7. LastInv'
  <2>1. Comma \in Tokens /\ Comma # LF
    BY DEF Tokens, Special, Comma, LF
  <2>2. ~ AtLine'
    <3>1. column' # 1
      BY <1>2, <1>3
    <3> QED
      BY <3>1 DEF AtLine
  <2> QED
    BY <1>1, <2>1, <2>2 DEF LastInv
<1>8. At' = "field"
  BY <1>1, <1>3 DEF At
<1>9. /\ reader = Reader(At, f, w, v) /\ At \in {"record", "field", "plain", "closing"}
      /\ Append(w, f) = SubSeq(Fields(line'), 1, column' - 1) /\ RowsRead(line') = v
  BY <1>1, <1>3, WholeField
<1>10. SubSeq(Value', 1, place') = <<>>
  BY <1>1, NothingSent
<1> HIDE DEF f, w, v
<1>11. reader' = Reader("field", <<>>, Append(w, f), v)
  <2>1. \A a : a \in {"record", "field", "plain", "closing"} =>
          Feed(Reader(a, f, w, v), Comma) = Reader("field", <<>>, Append(w, f), v)
    BY Fed
  <2>2. Feed(Reader(At, f, w, v), Comma) = Reader("field", <<>>, Append(w, f), v)
    BY <1>9, <2>1
  <2> QED
    BY <1>1, <1>9, <2>2
<1>12. Following'
  BY <1>1, <1>4, <1>8, <1>9, <1>10, <1>11, FollowingOf
<1> QED
  BY <1>6, <1>7, <1>12 DEF CsvInv

LEMMA ReturnStep == ASSUME CsvInv, Return PROVE CsvInv'
<1> DEFINE f == Value
           w == SubSeq(Fields(line), 1, column - 1)
           v == RowsRead(line)
<1>1. /\ Complete /\ column = Len(header) /\ lineEnd = <<CR, LF>>
      /\ last' = CR /\ reader' = Feed(reader, CR)
      /\ UNCHANGED <<header, table, lineEnd, line, column, place>> /\ phase' = "return"
  BY DEF Return, Deliver
<1>2. /\ Sending /\ reader = Reader(At, f, w, v)
      /\ At \in {"record", "field", "plain", "closing"}
  BY <1>1, WholeField
<1>3. IF At = "record" THEN f = <<>> /\ w = <<>> /\ ReadFields(line) = <<>>
      ELSE Append(w, f) = ReadFields(line)
  BY <1>1, WholeLine
<1>4. Value' = Value /\ Quoted' = Quoted /\ Sending' = Sending
  BY <1>1, SameField
<1>5. SentInv'
  BY <1>1, <1>2, <1>4 DEF CsvInv, SentInv
<1>6. LastInv'
  BY <1>1 DEF LastInv, AtLine, Tokens, Special, CR, LF
<1>7. At' = "cr"
  BY <1>1 DEF At
<1>8. ReadFields(line)' = ReadFields(line) /\ RowsRead(line)' = v
  BY <1>1, Same
<1> HIDE DEF f, w, v
<1>9. reader' = Reader("cr", <<>>, ReadFields(line), v)
  <2>1. CASE At = "record"
    BY <1>1, <1>2, <1>3, <2>1, FedLineEnd
  <2>2. CASE At # "record"
    <3>1. Feed(reader, CR) = Reader("cr", <<>>, Append(w, f), v)
      BY <1>2, <2>2, FedLineEnd
    <3> QED
      BY <1>1, <1>3, <2>2, <3>1
  <2> QED
    BY <2>1, <2>2
<1>10. Following'
  BY <1>1, <1>7, <1>8, <1>9 DEF Following
<1> QED
  BY <1>5, <1>6, <1>10 DEF CsvInv

LEMMA NextLineStep == ASSUME CsvInv, NextLine PROVE CsvInv'
<1> DEFINE f == Value
           w == SubSeq(Fields(line), 1, column - 1)
           v == RowsRead(line)
<1>1. /\ \/ Complete /\ column = Len(header)
         \/ phase = "return"
      /\ last' = LF /\ reader' = Feed(reader, LF)
      /\ UNCHANGED <<header, table, lineEnd>>
      /\ line' = line + 1 /\ column' = 1 /\ place' = 0 /\ phase' = "open"
  BY DEF NextLine, Deliver
<1>2. Sending
  BY <1>1, WholeField DEF CsvInv, SentInv, AtLine
<1>3. /\ header \in Headers /\ table \in Tables /\ lineEnd \in LineEnds
      /\ line \in 0 .. Len(table) /\ Len(table) \in Nat /\ Len(header) \in Nat \ {0}
      /\ RowsRead(line + 1) = Append(RowsRead(line), ReadFields(line))
  BY <1>2, Underway, Columns DEF CsvInv, SentInv
<1>4. /\ line' \in 0 .. Len(table) + 1 /\ line' > 0 /\ column' \in 1 .. Len(header)
      /\ column' - 1 = 0
  BY <1>1, <1>3
<1>5. Sending' => Len(Value') \in Nat
  <2>1. SUFFICES ASSUME Sending' PROVE Len(Value') \in Nat
    OBVIOUS
  <2>2. line' \in 0 .. Len(table)
    BY <1>1, <1>3, <1>4, <2>1 DEF Sending
  <2>3. Value' = Fields(line')[column']
    BY <1>1, Same DEF Value
  <2> QED
    BY <1>3, <1>4, <2>2, <2>3, FieldsOf, LenProperties DEF Texts
<1>6. SentInv'
  BY <1>1, <1>3, <1>4, <1>5 DEF SentInv, AtLine
<1>7. LastInv'
  BY <1>1, <1>4 DEF LastInv, AtLine, Tokens, Special
<1>8. At' = "record"
  BY <1>1 DEF At
<1>9. reader' = Reader("record", <<>>, <<>>, Append(v, ReadFields(line)))
  <2>1. CASE phase = "return"
    <3>1. reader = Reader("cr", <<>>, ReadFields(line), v)
      BY <2>1 DEF CsvInv, Following, At
    <3> HIDE DEF v
    <3> QED
      BY <1>1, <3>1, FedLineEnd
  <2>2. CASE Complete /\ column = Len(header)
    <3>1. /\ reader = Reader(At, f, w, v) /\ At \in {"record", "field", "plain", "closing"}
      BY <2>2, WholeField
    <3>2. IF At = "record" THEN f = <<>> /\ w = <<>> /\ ReadFields(line) = <<>>
          ELSE Append(w, f) = ReadFields(line)
      BY <2>2, WholeLine
    <3> HIDE DEF f, w, v
    <3>3. CASE At = "record"
      BY <1>1, <3>1, <3>2, <3>3, FedLineEnd
    <3>4. CASE At # "record"
      <4>1. Feed(reader, LF) = Reader("record", <<>>, <<>>, Append(v, Append(w, f)))
        BY <3>1, <3>4, FedLineEnd
      <4> QED
        BY <1>1, <3>2, <3>4, <4>1
    <3> QED
      BY <3>3, <3>4
  <2> QED
    BY <1>1, <2>1, <2>2
<1>10. reader' = Reader(At', <<>>, <<>>, RowsRead(line'))
  BY <1>1, <1>3, <1>8, <1>9
<1>11. CASE Sending'
  <2>1. /\ SubSeq(Value', 1, place') = <<>>
        /\ SubSeq(Fields(line'), 1, column' - 1) = <<>>
    BY <1>1, <1>4, NothingSent
  <2>2. Following'
    BY <1>1, <1>10, <1>11, <2>1, FollowingOf
  <2> QED
    BY <1>6, <1>7, <2>2 DEF CsvInv
<1>12. CASE ~ Sending'
  <2>1. RowsRead(line)' = RowsRead(line')
    BY <1>1, Same
  <2>2. Following'
    BY <1>1, <1>10, <1>12, <2>1 DEF Following
  <2> QED
    BY <1>6, <1>7, <2>2 DEF CsvInv
<1> QED
  BY <1>11, <1>12

LEMMA CsvStep == CsvInv /\ [Next]_vars => CsvInv'
<1>1. ASSUME CsvInv, UNCHANGED vars
      PROVE  CsvInv'
  <2>1. UNCHANGED <<header, table, lineEnd, line, column, place, phase, last, reader>>
    BY <1>1 DEF vars, sent
  <2>2. Value' = Value /\ Quoted' = Quoted /\ Sending' = Sending /\ At' = At
    BY <2>1, SameField DEF At
  <2>3. /\ ReadFields(line)' = ReadFields(line) /\ RowsRead(line)' = RowsRead(line)
        /\ Fields(line)' = Fields(line)
    BY <2>1, Same
  <2>4. SentInv' /\ LastInv'
    BY <1>1, <2>1, <2>2 DEF CsvInv, SentInv, LastInv, AtLine
  <2>5. Following'
    BY <1>1, <2>1, <2>2, <2>3 DEF CsvInv, Following
  <2> QED
    BY <2>4, <2>5 DEF CsvInv
<1> QED
  BY <1>1, OpenQuoteStep, CharacterStep, DoubleQuoteStep, CloseQuoteStep, NextFieldStep,
     ReturnStep, NextLineStep DEF Next


-----------------------------------------------------------------------------
(* The type invariant.                                                     *)

\* The rows are those of the lines before; a field and a row may be under way.
LEMMA ReaderNow ==
  ASSUME CsvInv
  PROVE  /\ RowsRead(line) \in Seq(Seq(Texts)) /\ Len(RowsRead(line)) = line
         /\ At \in {"record", "field", "plain", "quoted", "closing", "cr"}
         /\ \E f \in Texts, w \in Seq(Texts) :
              /\ reader = Reader(At, f, w, RowsRead(line))
              /\ At = "record" => f = <<>> /\ w = <<>>
<1>1. /\ header \in Headers /\ table \in Tables /\ line \in 0 .. Len(table) + 1
      /\ column \in 1 .. Len(header) /\ place \in Nat
      /\ phase \in {"open", "quoted", "doubling", "closed", "return"}
  BY DEF CsvInv, SentInv
<1>2. Len(table) \in Nat /\ Len(header) \in Nat
  BY <1>1, Records, Columns
<1>3. RowsRead(line) \in Seq(Seq(Texts)) /\ Len(RowsRead(line)) = line
  <2>1. CASE line = 0
    <3>1. RowsRead(line) = <<>>
      BY <2>1 DEF RowsRead
    <3>2. <<>> \in Seq(Seq(Texts)) /\ Len(<<>>) = 0
      BY EmptySeq
    <3> QED
      BY <2>1, <3>1, <3>2
  <2>2. CASE line # 0
    <3> DEFINE k == line - 1
    <3>1. k \in Nat /\ k + 1 = line /\ \A i \in 0 .. k : i \in 0 .. Len(table)
      BY <1>1, <1>2, <2>2
    <3>2. \A i \in 0 .. k : ReadFields(i) \in Seq(Texts)
      BY <1>1, <3>1, ReadFieldsOf
    <3> HIDE DEF k
    <3>3. /\ RowsRead(k) \in Seq(Seq(Texts)) /\ Len(RowsRead(k)) = k
          /\ RowsRead(k + 1) = Append(RowsRead(k), ReadFields(k))
          /\ ReadFields(k) \in Seq(Texts)
      <4>1. k \in 0 .. k
        BY <3>1
      <4> QED
        BY <3>1, <3>2, <4>1, RowsGrow
    <3>4. RowsRead(k + 1) \in Seq(Seq(Texts)) /\ Len(RowsRead(k + 1)) = k + 1
      <4> DEFINE S == Seq(Texts)
                 a == Append(RowsRead(k), ReadFields(k))
      <4>1. RowsRead(k) \in Seq(S) /\ ReadFields(k) \in S
        BY <3>3
      <4> HIDE DEF S
      <4>2. a \in Seq(S) /\ Len(a) = Len(RowsRead(k)) + 1
        BY <4>1, AppendProperties
      <4> QED
        BY <3>3, <4>2 DEF S
    <3> QED
      BY <3>1, <3>4
  <2> QED
    BY <2>1, <2>2
<1>4. /\ At \in {"record", "field", "plain", "quoted", "closing", "cr"}
      /\ At = "record" => phase = "open" /\ place = 0 /\ column = 1
  <2>1. (column > 1 \/ column = 1) /\ (place > 0 \/ place = 0)
    BY <1>1, <1>2
  <2> QED
    BY <1>1, <2>1 DEF At
<1>5. <<>> \in Texts /\ <<>> \in Seq(Texts)
  BY EmptySeq DEF Texts
<1>6. CASE phase = "return"
  <2>1. reader = Reader(At, <<>>, ReadFields(line), RowsRead(line)) /\ At # "record"
    BY <1>4, <1>6 DEF CsvInv, Following
  <2>2. Sending
    BY <1>6 DEF CsvInv, SentInv, AtLine
  <2>3. ReadFields(line) \in Seq(Texts)
    BY <1>1, <2>2, Underway, ReadFieldsOf DEF CsvInv
  <2> QED
    BY <1>3, <1>4, <1>5, <2>1, <2>3
<1>7. CASE phase # "return" /\ Sending
  <2> DEFINE f == SubSeq(Value, 1, place)
             w == SubSeq(Fields(line), 1, column - 1)
  <2>1. reader = Reader(At, f, w, RowsRead(line))
    BY <1>7, FollowingSending DEF CsvInv
  <2>2. /\ Fields(line) \in Seq(Texts) /\ Len(Fields(line)) = Len(header)
        /\ Value \in Seq(Tokens) /\ Len(Value) \in Nat /\ place \in 0 .. Len(Value)
    BY <1>7, Underway DEF CsvInv
  <2>3. f \in Texts
    <3>1. \A i \in 1 .. place : Value[i] \in Tokens
      BY <2>2, ElementOfSeq
    <3> QED
      BY <1>1, <2>2, <3>1, SubSeqProperties DEF Texts
  <2>4. w \in Seq(Texts)
    <3>1. \A i \in 1 .. column - 1 : Fields(line)[i] \in Texts
      BY <1>1, <1>2, <2>2, ElementOfSeq
    <3>2. column - 1 \in 0 .. Len(Fields(line))
      BY <1>1, <1>2, <2>2
    <3> QED
      BY <2>2, <3>1, <3>2, SubSeqProperties
  <2>5. At = "record" => f = <<>> /\ w = <<>>
    <3>1. column = 1 => column - 1 = 0
      OBVIOUS
    <3> QED
      BY <1>4, <3>1, NothingSent
  <2> HIDE DEF f, w
  <2> QED
    BY <1>3, <1>4, <2>1, <2>3, <2>4, <2>5
<1>8. CASE phase # "return" /\ ~ Sending
  <2>1. reader = Reader(At, <<>>, <<>>, RowsRead(line))
    BY <1>8 DEF CsvInv, Following
  <2> QED
    BY <1>3, <1>4, <1>5, <2>1
<1> QED
  BY <1>6, <1>7, <1>8

LEMMA CsvTypes == CsvInv => TypeOK
<1> SUFFICES ASSUME CsvInv PROVE TypeOK
  OBVIOUS
<1>1. PICK f \in Texts, w \in Seq(Texts) :
        /\ reader = Reader(At, f, w, RowsRead(line))
        /\ At = "record" => f = <<>> /\ w = <<>>
  BY ReaderNow
<1>2. RowsRead(line) \in Seq(Seq(Texts))
  BY ReaderNow
<1>3. At \in {"record", "field", "plain", "quoted", "closing", "cr"}
  BY ReaderNow
<1>4. /\ reader.at = At /\ reader.field = f /\ reader.row = w
      /\ reader.rows = RowsRead(line)
  BY <1>1 DEF Reader
<1>5. Sending => place \in 0 .. Len(Value)
  BY Underway DEF CsvInv
<1>6. /\ header \in Headers /\ table \in Tables /\ lineEnd \in LineEnds
      /\ line \in 0 .. Len(table) + 1 /\ column \in 1 .. Len(header)
      /\ phase \in {"open", "quoted", "doubling", "closed", "return"}
      /\ last \in Tokens \cup {Refused}
  BY DEF CsvInv, SentInv, LastInv
<1> QED
  BY <1>1, <1>2, <1>3, <1>4, <1>5, <1>6 DEF TypeOK, Texts

\* Every field, row and table that the reader holds is one of tokens, and a
\* record starts with nothing left of the one before (csv.reader, strict).
THEOREM TypeCorrect == Spec => []TypeOK
<1>1. Init => CsvInv
  BY CsvInit
<1>2. CsvInv /\ [Next]_vars => CsvInv'
  BY CsvStep
<1>3. CsvInv => TypeOK
  BY CsvTypes
<1> QED
  BY <1>1, <1>2, <1>3, PTL DEF Spec

-----------------------------------------------------------------------------
(* What the parser makes of it.                                            *)

\* At the start of a line the reader holds the lines before, and no more.
LEMMA ReaderAtLine ==
  ASSUME CsvInv, AtLine
  PROVE  /\ Ended(reader).rows = RowsRead(line) /\ Ended(reader).at = "record"
         /\ Len(RowsRead(line)) = line
<1>1. At = "record"
  BY DEF At, AtLine
<1>2. PICK f, w : reader = Reader(At, f, w, RowsRead(line))
  BY ReaderNow
<1>3. reader.at = "record" /\ reader.rows = RowsRead(line)
  BY <1>1, <1>2 DEF Reader
<1> QED
  BY <1>3, ReaderNow DEF Ended

\* The first row is the header, by its names.
LEMMA HeaderRead ==
  ASSUME CsvInv, line > 0
  PROVE  [c \in DOMAIN RowsRead(line)[1] |-> Column(RowsRead(line)[1][c])] = header
<1>1. /\ header \in Headers /\ table \in Tables /\ line \in Nat
      /\ Len(table) \in Nat /\ header \in Seq(Letters) /\ Len(header) \in Nat \ {0}
      /\ DOMAIN header = 1 .. Len(header)
  <2>1. header \in Headers /\ table \in Tables /\ line \in 0 .. Len(table) + 1
    BY DEF CsvInv, SentInv
  <2>2. Len(table) \in Nat
    BY <2>1, Records
  <2> QED
    BY <2>1, <2>2, Columns
<1>2. Fields(0) = [c \in 1 .. Len(header) |-> <<header[c]>>]
  BY <1>1 DEF Fields
<1>3. Fields(0) # << <<>> >>
  <2>1. 1 \in 1 .. Len(header)
    BY <1>1
  <2>2. Fields(0)[1] = <<header[1]>>
    BY <1>2, <2>1
  <2>3. <<header[1]>> # <<>>
    OBVIOUS
  <2>4. << <<>> >>[1] = <<>>
    OBVIOUS
  <2> QED
    BY <2>2, <2>3, <2>4
<1>4. RowsRead(line)[1] = Fields(0)
  <2>1. 1 \in 1 .. line /\ 1 - 1 = 0
    BY <1>1
  <2>2. RowsRead(line)[1] = ReadFields(0)
    BY <2>1 DEF RowsRead
  <2> QED
    BY <1>3, <2>2 DEF ReadFields
<1>5. \A c \in 1 .. Len(header) : Column(Fields(0)[c]) = header[c]
  <2> TAKE c \in 1 .. Len(header)
  <2>1. Fields(0)[c] = <<header[c]>>
    BY <1>2
  <2>2. <<header[c]>> # <<>> /\ Head(<<header[c]>>) = header[c]
    OBVIOUS
  <2> QED
    BY <2>1, <2>2 DEF Column
<1>6. [c \in 1 .. Len(header) |-> Column(Fields(0)[c])] = header
  <2>1. header = [c \in 1 .. Len(header) |-> header[c]]
    BY <1>1
  <2> QED
    BY <1>5, <2>1
<1>7. DOMAIN Fields(0) = 1 .. Len(header)
  BY <1>2
<1> QED
  BY <1>4, <1>6, <1>7

\* With the required columns there is more than one, and each row is a record.
LEMMA RowsAreRecords ==
  ASSUME CsvInv, line > 0, Required \subseteq ToSet(header)
  PROVE  \A i \in 1 .. line - 1 :
           RowsRead(line)[i + 1] = [c \in 1 .. Len(header) |-> table[i][header[c]]]
<1>1. /\ header \in Headers /\ table \in Tables /\ line \in 0 .. Len(table) + 1
      /\ Len(table) \in Nat /\ Len(header) \in Nat \ {0}
      /\ DOMAIN header = 1 .. Len(header)
  BY Records, Columns DEF CsvInv, SentInv
<1>2. Len(header) # 1
  <2>1. PICK f \in Required, g \in Required : f # g
    BY CsvAssumption
  <2>2. f \in ToSet(header) /\ g \in ToSet(header)
    BY <2>1
  <2>3. PICK c \in 1 .. Len(header), d \in 1 .. Len(header) : header[c] = f /\ header[d] = g
    BY <1>1, <2>2 DEF ToSet
  <2> QED
    BY <1>1, <2>1, <2>3
<1>3. \A i \in 0 .. Len(table) : ReadFields(i) = Fields(i)
  <2>1. \A i \in 0 .. Len(table) : Len(Fields(i)) = Len(header)
    BY <1>1, FieldsOf
  <2>2. Len(<< <<>> >>) = 1
    OBVIOUS
  <2> QED
    BY <1>2, <2>1, <2>2 DEF ReadFields
<1>4. ASSUME NEW i \in 1 .. line - 1
      PROVE  RowsRead(line)[i + 1] = [c \in 1 .. Len(header) |-> table[i][header[c]]]
  <2>1. i + 1 \in 1 .. line /\ (i + 1) - 1 = i /\ i \in 0 .. Len(table) /\ i # 0
    BY <1>1
  <2>2. RowsRead(line)[i + 1] = ReadFields(i)
    BY <2>1 DEF RowsRead
  <2> QED
    BY <1>1, <1>3, <2>1, <2>2 DEF Fields
<1> QED
  BY <1>4

\* The records of the lines before, or none if one of their values is not read.
LEMMA ParsedAtLine ==
  ASSUME CsvInv, AtLine, line > 0
  PROVE  LET records == SubSeq(table, 1, line - 1)
         IN  IF Readable(records) THEN Parsed = Meant(records)
             ELSE \/ Parsed = Refused
                  \/ /\ Parsed = Uncaught
                     /\ \E i \in DOMAIN records, f \in ToSet(header) :
                          Overlong(f, records[i][f])
<1> DEFINE rows    == RowsRead(line)
           records == SubSeq(table, 1, line - 1)
           columns == [c \in DOMAIN rows[1] |-> Column(rows[1][c])]
           headed  == Required \subseteq ToSet(header)
           whole   == \A i \in 2 .. Len(rows) : Sound(header, rows[i])
           escaped == \E i \in 2 .. Len(rows) :
                        /\ Escapes(header, rows[i])
                        /\ \A j \in 2 .. i - 1 : Sound(header, rows[j])
           read    == [i \in 1 .. Len(rows) - 1 |-> Record(header, rows[i + 1])]
<1>1. /\ header \in Headers /\ table \in Tables /\ line \in 1 .. Len(table) + 1
      /\ Len(table) \in Nat /\ table \in Seq(ToSet(table)) /\ Len(header) \in Nat \ {0}
      /\ DOMAIN header = 1 .. Len(header)
  <2>1. header \in Headers /\ table \in Tables /\ line \in 0 .. Len(table) + 1
    BY DEF CsvInv, SentInv
  <2>2. Len(table) \in Nat
    BY <2>1, Records
  <2> QED
    BY <2>1, <2>2, Records, Columns
<1>2. Terminated
  BY DEF CsvInv, LastInv, Terminated
<1>3. /\ Ended(reader).rows = rows /\ Ended(reader).at # "error" /\ Len(rows) = line
      /\ rows # <<>>
  <2>1. Len(<<>>) = 0
    OBVIOUS
  <2> QED
    BY <1>1, <2>1, ReaderAtLine
<1>4. columns = header
  BY HeaderRead
<1>5. /\ headed /\ whole => Parsed = read
      /\ headed /\ ~ whole => Parsed = Refused \/ (Parsed = Uncaught /\ escaped)
      /\ ~ headed => Parsed = Refused
  <2> HIDE DEF rows
  <2>1. Parsed =
          CASE headed /\ whole -> read
            [] headed /\ escaped -> Uncaught
            [] OTHER -> Refused
    BY <1>2, <1>3, <1>4 DEF Parsed
  <2>2. whole => ~ escaped
    BY DEF Sound, Escapes, Coercible, Overlong, Integral
  <2> HIDE DEF headed, whole, escaped, read
  <2> QED
    BY <2>1, <2>2
<1>6. /\ DOMAIN records = 1 .. line - 1
      /\ \A i \in 1 .. line - 1 : records[i] = table[i]
  <2>1. line - 1 \in 0 .. Len(table)
    BY <1>1
  <2>2. \A i \in 1 .. line - 1 : table[i] \in ToSet(table)
    BY <1>1, ElementOfSeq
  <2>3. records \in Seq(ToSet(table)) /\ Len(records) = line - 1
    BY <1>1, <2>1, <2>2, SubSeqProperties
  <2>4. \A i \in 1 .. line - 1 : records[i] = table[i]
    BY <1>1, <2>1, <2>2, SubSeqProperties
  <2> HIDE DEF records
  <2> QED
    BY <2>3, <2>4, LenProperties
<1>7. CASE ~ headed
  BY <1>5, <1>7 DEF Readable
<1>8. CASE headed
  <2>1. \A i \in 1 .. line - 1 :
          rows[i + 1] = [c \in 1 .. Len(header) |-> table[i][header[c]]]
    BY <1>1, <1>8, RowsAreRecords
  <2> HIDE DEF rows, records, columns
  <2>2. \A i \in 1 .. line - 1 :
          /\ Len(rows[i + 1]) = Len(header)
          /\ \A c \in 1 .. Len(header) : rows[i + 1][c] = records[i][header[c]]
    <3> TAKE i \in 1 .. line - 1
    <3>1. /\ rows[i + 1] = [c \in 1 .. Len(header) |-> table[i][header[c]]]
          /\ records[i] = table[i]
      BY <1>6, <2>1
    <3>2. Len(rows[i + 1]) = Len(header)
      BY <1>1, <3>1
    <3>3. \A c \in 1 .. Len(header) : rows[i + 1][c] = records[i][header[c]]
      BY <3>1
    <3> QED
      BY <3>2, <3>3
  <2>3. ToSet(header) = {header[c] : c \in 1 .. Len(header)}
    BY <1>1 DEF ToSet
  <2>4. \A i \in 1 .. line - 1 :
          /\ Sound(header, rows[i + 1])
               <=> \A f \in ToSet(header) : Coercible(f, records[i][f])
          /\ Escapes(header, rows[i + 1])
               => \E f \in ToSet(header) : Overlong(f, records[i][f])
    <3> TAKE i \in 1 .. line - 1
    <3>1. /\ Len(rows[i + 1]) = Len(header)
          /\ \A c \in 1 .. Len(header) : rows[i + 1][c] = records[i][header[c]]
      BY <2>2
    <3>2. Sound(header, rows[i + 1])
            <=> \A f \in ToSet(header) : Coercible(f, records[i][f])
      BY <1>1, <2>3, <3>1 DEF Sound
    <3>3. ASSUME Escapes(header, rows[i + 1])
          PROVE  \E f \in ToSet(header) : Overlong(f, records[i][f])
      <4>1. PICK c \in 1 .. Len(header) : Overlong(header[c], rows[i + 1][c])
        BY <1>1, <3>3 DEF Escapes
      <4>2. Overlong(header[c], records[i][header[c]])
        BY <3>1, <4>1
      <4>3. header[c] \in ToSet(header)
        BY <2>3
      <4> QED
        BY <4>2, <4>3
    <3> QED
      BY <3>2, <3>3
  <2>5. /\ \A i \in 2 .. Len(rows) : i - 1 \in 1 .. line - 1 /\ (i - 1) + 1 = i
        /\ \A i \in 1 .. line - 1 : i + 1 \in 2 .. Len(rows)
    BY <1>1, <1>3
  <2>6. whole <=> Readable(records)
    <3>1. whole <=> \A i \in 1 .. line - 1 : Sound(header, rows[i + 1])
      <4>1. ASSUME \A i \in 1 .. line - 1 : Sound(header, rows[i + 1]),
                   NEW i \in 2 .. Len(rows)
            PROVE  Sound(header, rows[i])
        <5>1. Sound(header, rows[(i - 1) + 1])
          BY <2>5, <4>1
        <5> QED
          BY <2>5, <5>1
      <4> QED
        BY <2>5, <4>1
    <3> QED
      BY <1>6, <1>8, <2>4, <3>1 DEF Readable
  <2>7. ASSUME escaped
        PROVE  \E i \in DOMAIN records, f \in ToSet(header) : Overlong(f, records[i][f])
    <3>1. PICK i \in 2 .. Len(rows) : Escapes(header, rows[i])
      BY <2>7
    <3>2. Escapes(header, rows[(i - 1) + 1]) /\ i - 1 \in DOMAIN records
      BY <1>6, <2>5, <3>1
    <3> QED
      BY <1>6, <2>4, <3>2
  <2>8. \A i \in 1 .. line - 1 :
          Record(header, rows[i + 1])
            = [f \in ToSet(header) |-> Coerced(f, records[i][f])]
    <3> TAKE i \in 1 .. line - 1
    <3>1. ASSUME NEW f \in ToSet(header)
          PROVE  rows[i + 1][CHOOSE c \in DOMAIN header : header[c] = f] = records[i][f]
      <4> DEFINE d == CHOOSE c \in DOMAIN header : header[c] = f
      <4>1. \E c \in DOMAIN header : header[c] = f
        BY DEF ToSet
      <4>2. d \in DOMAIN header /\ header[d] = f
        BY <4>1
      <4> HIDE DEF d
      <4>3. rows[i + 1][d] = records[i][f]
        BY <1>1, <2>2, <4>2
      <4> QED
        BY <4>3 DEF d
    <3> QED
      BY <3>1 DEF Record
  <2>9. Len(rows) - 1 = line - 1
    BY <1>3
  <2>10. read = Meant(records)
    BY <1>6, <2>8, <2>9 DEF Meant
  <2>11. IF Readable(records) THEN Parsed = Meant(records)
         ELSE \/ Parsed = Refused
              \/ /\ Parsed = Uncaught
                 /\ \E i \in DOMAIN records, f \in ToSet(header) : Overlong(f, records[i][f])
    <3> HIDE DEF whole, escaped, read
    <3> QED
      BY <1>5, <1>8, <2>6, <2>7, <2>10
  <2> QED
    BY <2>11 DEF records
<1> QED
  BY <1>7, <1>8

\* A whole body of any length is read as it was meant, or not at all when one of
\* its values cannot be; what int() does not take is the one fault that is no
\* refusal (parse_omm_csv, _coerce).
THEOREM WholeHolds == Spec => []WholeIsRead
<1>1. CsvInv => WholeIsRead
  <2> SUFFICES ASSUME CsvInv, ~ Sending
               PROVE  IF Readable(table) THEN Parsed = Meant(table)
                      ELSE \/ Parsed = Refused
                           \/ /\ Parsed = Uncaught
                              /\ \E i \in DOMAIN table, f \in ToSet(header) :
                                   Overlong(f, table[i][f])
    BY DEF WholeIsRead
  <2>1. AtLine /\ table \in Tables /\ line \in 0 .. Len(table) + 1
    BY DEF CsvInv, SentInv
  <2>2. Len(table) \in Nat /\ table \in Seq(ToSet(table))
    BY <2>1, Records
  <2>3. line = Len(table) + 1 /\ line > 0 /\ line - 1 = Len(table)
    BY <2>1, <2>2 DEF Sending
  <2>4. SubSeq(table, 1, line - 1) = table
    BY <2>2, <2>3, AllSent
  <2> QED
    BY <2>1, <2>3, <2>4, ParsedAtLine
<1> QED
  BY <1>1, CsvInit, CsvStep, PTL DEF Spec

\* Of a body of any length, cut after any token, there are no records, or they are
\* those before the cut, none of them changed (the module's docstring).
THEOREM CutHolds == Spec => []CutFailsClosed
<1>1. CsvInv => CutFailsClosed
  <2> SUFFICES ASSUME CsvInv, Sending, Parsed \notin {Refused, Uncaught}
               PROVE  line > 0 /\ AtLine /\ Parsed = Meant(SubSeq(table, 1, line - 1))
    BY DEF CutFailsClosed
  <2>1. last = LF /\ Ended(reader).at # "error"
    BY DEF Parsed, Terminated
  <2>2. phase # "quoted"
    <3>1. SUFFICES ASSUME phase = "quoted" PROVE FALSE
      OBVIOUS
    <3>2. PICK f, w : reader = Reader("quoted", f, w, RowsRead(line))
      BY <3>1, ReaderNow DEF At
    <3>3. reader.at = "quoted"
      BY <3>2 DEF Reader
    <3>4. Go(reader, "error").at = "error"
      <4>1. Go(reader, "error") = Reader("error", f, w, RowsRead(line))
        BY <3>2, ReaderParts
      <4> QED
        BY <4>1 DEF Reader
    <3> QED
      BY <2>1, <3>3, <3>4 DEF Ended
  <2>3. AtLine /\ line > 0
    BY <2>1, <2>2 DEF CsvInv, LastInv
  <2> QED
    BY <2>3, ParsedAtLine
<1> QED
  BY <1>1, CsvInit, CsvStep, PTL DEF Spec

=============================================================================
