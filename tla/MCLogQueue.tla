----------------------------- MODULE MCLogQueue -----------------------------
(* A ring of four slots instead of a hundred, and three kinds of entries.  *)
EXTENDS LogQueue

MCEntries == {"a", "b", "c"}
=============================================================================
