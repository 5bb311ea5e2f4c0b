---------------------------- MODULE MCSoloBench ----------------------------
(* The functions on which TLC checks SoloBench.                               *)
EXTENDS SoloBench

\* The functions that keep within their arrays, and the one that does not.
Sound == {SingleArray, RowWise, ColumnWise, CacheLine, CacheWork}

Overrun == {OneDArrays}
=============================================================================
