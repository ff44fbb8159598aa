------------------------------ MODULE MCOmmCsv ------------------------------
(* Responses of at most two records of two or three columns.               *)
EXTENDS OmmCsv

\* Names that need quoting for each of the reasons there are.
Names   == {<<"A">>, <<Quote>>, <<Comma, "A">>, <<"A", LF>>, <<CR>>, <<>>}
\* Numbers: one is too large, one has too many digits for int(),
\* the zeros in front counted; and what is none.
Numbers ==
  {<<"0", "1">>, <<"0", "1", "2">>, <<"1", "1", "2">>, <<"0", "0", "0", "1">>, <<"A">>, <<>>}
Notes   == {<<>>, <<"1">>}

MCRecord == [NAME : Names, ID : Numbers, NOTE : Notes]

MCTables == {<<>>} \cup {<<r>> : r \in MCRecord}
  \cup {<<r, [NAME |-> n, ID |-> <<"1", "2">>, NOTE |-> <<"1">>]>> : r \in MCRecord, n \in Names}
  \cup {<<r, [NAME |-> <<"A">>, ID |-> <<"1", "0", "0", "0">>, NOTE |-> <<>>]>> : r \in MCRecord}

MCHeaders ==
  {<<"NAME", "ID">>, <<"ID", "NAME">>, <<"NAME", "NOTE", "ID">>, <<"NAME">>}

MCLineEnds == {<<CR, LF>>, <<LF>>}
MCRequired == {"NAME", "ID"}

=============================================================================
