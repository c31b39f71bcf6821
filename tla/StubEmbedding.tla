---------------------------- MODULE StubEmbedding ----------------------------
(***************************************************************************)
(* The local embedder (embeddings.py): a text is the sum of one ridge for  *)
(* each of its tokens.  Vectors are kept in integers, before the division  *)
(* by their norm; what the SELECT compares is the cosine, here in          *)
(* hundredths.                                                             *)
(***************************************************************************)
EXTENDS Integers, Sequences, FiniteSetsExt, Functions

CONSTANTS
  Dim,        (* the dimension of the vectors                              *)
  Stopwords,  (* the words that are no token: in _STOPWORDS or too short   *)
  Stem,       (* Stem[w]: _stem, what is left of a word without its ending *)
  Index,      (* Index[s]: the first four bytes of the hash, modulo Dim    *)
  Sign,       (* Sign[s]: 1 or -1, by the fifth byte                       *)
  NaN

\* A text is a sequence of words.
Tokenize(text) == SelectSeq(text, LAMBDA w : w \notin Stopwords)

\* Seven dimensions around the token's index, modulo Dim.
Ridge(s) == {(Index[s] + offset) % Dim : offset \in -3 .. 3}

Component(stems, d) ==
  MapThenSumSet(LAMBDA i : IF d \in Ridge(stems[i]) THEN Sign[stems[i]] ELSE 0,
                DOMAIN stems)

\* Inflected forms of a word have one stem.
Stems(text) ==
  LET tokens == Tokenize(text) IN [i \in DOMAIN tokens |-> Stem[tokens[i]]]

\* _deterministic_vector; the zero vector for a text without a token.
Vector(text) == [d \in 0 .. Dim - 1 |-> Component(Stems(text), d)]

Dot(u, v) == MapThenSumSet(LAMBDA d : u[d] * v[d], 0 .. Dim - 1)

\* 1 - (a <=> b) of pgvector: NaN for a zero vector.  Nothing here tells
\* negative cosines from 0.
Cosine(u, v) ==
  LET norms == Dot(u, u) * Dot(v, v)
      dot   == Dot(u, v)
  IN  IF norms = 0 THEN NaN
      ELSE IF dot <= 0 THEN 0
      ELSE CHOOSE s \in 0 .. 100 : /\ s * s * norms <= 10000 * dot * dot
                                   /\ (s + 1) * (s + 1) * norms > 10000 * dot * dot

ScoreOfTexts(a, b) == Cosine(Vector(a), Vector(b))

\* The token gate of filter_relevant compares whole tokens, not stems.
SharesToken(a, b) == Range(Tokenize(a)) \cap Range(Tokenize(b)) # {}
=============================================================================
