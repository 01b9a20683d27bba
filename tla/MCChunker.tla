----------------------------- MODULE MCChunker -----------------------------
(* Short documents for TLC, made of lines that cover the cases of the code. *)
EXTENDS Chunker

Word == <<"p", "a">>
Lines ==
  {<<>>, Word, <<"a", "a", "-">>, <<"-", " ", "p", "-">>, <<"#", " ", "a">>, <<"~">>,
   <<" ", " ", " ", " ", "a">>, <<"a", "a", "a", "a", " ", "a", "-", "a", "a", "a", "a">>}

Pages(n) == BoundedSeq(Lines, n)

Plain == [pages : {<<p>> : p \in Pages(4)}, pdf : {FALSE}, markdown : BOOLEAN]
Pdf == [pages : {<<p, <<>>, q>> : p, q \in Pages(2)}, pdf : {TRUE}, markdown : {FALSE}]

SomeDocuments == Plain \cup Pdf
=============================================================================
