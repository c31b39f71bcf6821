------------------------- MODULE MCSequentialIngest -------------------------
(***************************************************************************)
(* The constants of MCKnowledgeService, for one upload per document.       *)
(***************************************************************************)
EXTENDS SequentialIngest, TLC

MCSha == [c \in Content |-> IF c = "b.txt" THEN "b" ELSE c]
MCPieces == [c \in Content |-> IF c = "b" THEN 2 ELSE 1]
MCScore(question, piece) == 2
MCOverlaps(question, piece) == TRUE

\* Requests, workspaces and collections differ in nothing but their names.
NamesAreAlike == Permutations(Ingests) \cup Permutations(Workspace) \cup Permutations(Name)
=============================================================================
