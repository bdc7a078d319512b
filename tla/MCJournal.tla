----------------------------- MODULE MCJournal -----------------------------
(* Values for the constants of Journal. *)
EXTENDS Journal

\* One key of a feed without sequence ids (provisional and final rows of one
\* timestamp) and two trades with sequence ids that share a timestamp with it.
MixedRows ==
  {[seq |-> NoSeq, ts |-> 12, final |-> FALSE, val |-> "a"],
   [seq |-> NoSeq, ts |-> 12, final |-> TRUE, val |-> "b"],
   [seq |-> NoSeq, ts |-> 12, final |-> TRUE, val |-> "c"],
   [seq |-> 1, ts |-> 12, final |-> FALSE, val |-> "d"],
   [seq |-> 1, ts |-> 11, final |-> FALSE, val |-> "e"]}

=============================================================================
