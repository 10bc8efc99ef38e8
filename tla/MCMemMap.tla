------------------------------ MODULE MCMemMap ------------------------------
(***************************************************************************)
(* MemMap with 14 addresses, pages of 2, and up to 3 rows: ranges that     *)
(* touch, overlap, nest, start or end inside a page, run to or over the    *)
(* top of memory, are empty, have an unknown type, or lie above 4 GB.      *)
(***************************************************************************)
EXTENDS MemMap

Row(b, n, t) == [high |-> FALSE, base |-> b, length |-> n, type |-> t]

MCE820 ==
    {Row(b, n, 1) : b \in {0, 3, 4, 8}, n \in {1, 4, 8}}
      \cup {Row(b, n, 2) : b \in {3, 4, 8}, n \in {2, 5}}
      \cup {Row(5, 3, 2), Row(4, 0, 1), Row(8, 99, 1), Row(13, 1, 3), Row(0, 4, 5)}
      \cup {[high |-> TRUE, base |-> 4, length |-> 4, type |-> 1]}
=============================================================================
