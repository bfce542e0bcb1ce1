-------------------------- MODULE MCDataPreparation --------------------------
(***************************************************************************)
(* Small data sets for TLC.                                                *)
(***************************************************************************)
EXTENDS DataPreparation

CONSTANT hash

File(lines, terminated) ==
  [lines |-> lines, terminated |-> terminated,
   totalVertex |-> Cardinality(Ids(SelectSeq(lines, LAMBDA line : line # hash)))]

\* Every file of two lines over ids with gaps between them.
Edge == {1, 2, 4, 5} \X {1, 2, 5}
Pairs == { File(<< e, f >>, TRUE) : e, f \in Edge }

\* A star, whose parts are fewer than asked for; two paths, one so long that the sum of two
\* ids at its end wraps; a triangle with a repeated line,
\* a loop and a comment; a file whose last line does not end; an id out of the table.
Shapes == {
  File(<< << 3, 0 >>, << 3, 1 >>, << 3, 2 >>, << 3, 4 >> >>, TRUE),
  File(<< << 0, 1 >>, << 0, 2 >>, << 0, 3 >>, << 0, 4 >> >>, TRUE),
  File(<< << 4, 2 >>, << 2, 6 >>, << 6, 0 >>, << 0, 7 >> >>, TRUE),
  File(<< << 4, 2 >>, << 2, 6 >>, << 6, 0 >>, << 0, 7 >>, << 7, 8 >>, << 8, 9 >> >>, TRUE),
  File(<< hash, << 1, 2 >>, << 2, 3 >>, << 3, 1 >>, << 1, 2 >>, << 2, 2 >> >>, TRUE),
  File(<< hash, << 0, 1 >>, << 1, 2 >>, << 2, 3 >> >>, FALSE),
  File(<< << 9, 1 >>, << 1, 1 >> >>, TRUE) }

AllFiles == Pairs \cup Shapes
=============================================================================
