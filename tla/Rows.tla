--------------------------------- MODULE Rows ---------------------------------
(***************************************************************************)
(* Rows of a table, of a frame or of a form that a condition picks, in     *)
(* their order: a boolean mask, a WHERE clause, a comprehension.  It is a  *)
(* fold from left to right, like the loops of the code it stands for.      *)
(***************************************************************************)
EXTENDS SequencesExt

\* The rows that are among the picked ones.
Where(rows, picked) == FoldLeft(LAMBDA kept, r : IF r \in picked THEN Append(kept, r) ELSE kept, <<>>, rows)
=============================================================================
