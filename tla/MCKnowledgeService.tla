------------------------- MODULE MCKnowledgeService -------------------------
(***************************************************************************)
(* Values of the constants for TLC: documents of one and two pieces, one   *)
(* the parser rejects, and the scores the stub embedder gives to their     *)
(* texts.  "mongolia" and "fermentation" share a ridge, "feeding" and      *)
(* "feeds" a stem, neither pair a token; a question may have no token.     *)
(***************************************************************************)
EXTENDS KnowledgeService, Functions, TLC

\* "b.txt" is the bytes of "b" read as plain text: it is not cut in two.
MCSha == [c \in Content |-> IF c = "b.txt" THEN "b" ELSE c]

MCPieces == [c \in Content |->
               CASE c = "bad" -> 0 [] c = "b" -> 2 [] OTHER -> 1]

MCStem == [w \in {"mongolia", "fermentation", "dog", "feeding", "feeds", "time"} |->
             IF w \in {"feeding", "feeds"} THEN "feed" ELSE w]

MCIndex == [s \in Range(MCStem) |->
              CASE s \in {"mongolia", "fermentation"} -> 3
                [] s = "dog" -> 10 [] s = "feed" -> 17 [] OTHER -> 24]

MCSign == [s \in Range(MCStem) |-> IF s = "time" THEN -1 ELSE 1]

Stub == INSTANCE StubEmbedding WITH
  Dim <- 28, Stopwords <- {"what"}, Stem <- MCStem, Index <- MCIndex, Sign <- MCSign

Asked == [q |-> <<"what", "mongolia", "dog", "feeding">>, void |-> <<"what">>]

\* Against q: 40 with a token in common, 0, and 81 with none.
PieceText == <<"a", 0>> :> <<"time", "dog">> @@
             <<"b", 0>> :> <<"time">> @@
             <<"b", 1>> :> <<"fermentation", "feeds">> @@
             <<"b.txt", 0>> :> <<"time", "fermentation", "feeds">>

\* Sets, which TLC computes once.
Scores ==
  {[question |-> q, piece |-> p, score |-> Stub!ScoreOfTexts(Asked[q], PieceText[p])] :
     q \in DOMAIN Asked, p \in DOMAIN PieceText}

Shared ==
  {r \in Scores : Stub!SharesToken(Asked[r.question], PieceText[r.piece])}

IsFor(row, question, piece) == row.question = question /\ row.piece = piece

MCScore(question, piece) == (CHOOSE r \in Scores : IsFor(r, question, piece)).score
MCOverlaps(question, piece) == \E r \in Shared : IsFor(r, question, piece)

\* Requests differ in nothing but their name.
RequestSymmetry == Permutations(Ingests)

\* Nor do workspaces, collections and files, as model values.
NamesAreAlike ==
  RequestSymmetry \cup Permutations(Workspace) \cup Permutations(Name)
    \cup Permutations(FileName)
=============================================================================
