------------------------------ MODULE MCChunker ------------------------------
(***************************************************************************)
(* Every arrangement of words, spaces and other blanks up to a length, as  *)
(* one section, and every pair of sections of words and spaces up to a     *)
(* smaller one.                                                            *)
(***************************************************************************)
EXTENDS Chunker

CONSTANTS MaxLen, MaxPairLen

Text(n) ==
  UNION {{[len |-> n, blanks |-> b, spaces |-> s] : s \in SUBSET b} :
           b \in SUBSET (1 .. n - 2)}

MCSections == UNION {Text(n) : n \in 1 .. MaxLen}

Short ==
  UNION {{[len |-> n, blanks |-> b, spaces |-> b] : b \in SUBSET (1 .. n - 2)} :
           n \in 1 .. MaxPairLen}

MCDocument ==
  {<<t>> : t \in MCSections} \cup {<<t, u>> : t \in Short, u \in Short}
=============================================================================
