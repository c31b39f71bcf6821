---------------------------- MODULE ChunkerProofs ----------------------------
(***************************************************************************)
(* Proofs about the splitter, for every text, chunk size and overlap.      *)
(***************************************************************************)
EXTENDS Chunker, TLAPS

-----------------------------------------------------------------------------
(* Where a window ends *)

LEMMA HalfWindow ==
  ASSUME overlap \in Nat
  PROVE  /\ ChunkSize \div 2 \in Nat
         /\ ChunkSize \div 2 < ChunkSize
         /\ 2 * overlap <= ChunkSize => overlap <= ChunkSize \div 2
BY ChunkerAssumption

\* A window is not empty and stays in the text; unless it ends the text it
\* is longer than an overlap of at most half a window.
LEMMA CutBounds ==
  ASSUME overlap \in Nat, NEW t, IsSection(t), NEW s \in Nat, s < t.len,
         NEW end \in Int, IsCut(t, s, end)
  PROVE  /\ s < end /\ end <= t.len /\ end <= s + ChunkSize
         /\ end < t.len /\ 2 * overlap <= ChunkSize => s + overlap < end
<1>1. t.len \in Nat /\ t.spaces \subseteq Int
  BY DEF IsSection
<1>2. ChunkSize \in Nat \ {0} /\ overlap \in Nat
  BY ChunkerAssumption
<1>3. CASE s + ChunkSize >= t.len
  BY <1>1, <1>2, <1>3 DEF IsCut
<1>4. CASE s + ChunkSize < t.len /\ end = s + ChunkSize
  BY <1>1, <1>2, <1>4
<1>5. CASE s + ChunkSize < t.len /\ end \in Breaks(t, s)
  <2>1. s + (ChunkSize \div 2) < end /\ end < s + ChunkSize
    BY <1>5 DEF Breaks
  <2> HIDE DEF Breaks
  <2> QED
    BY <1>1, <1>2, <1>5, <2>1, HalfWindow
<1> QED
  BY <1>1, <1>2, <1>3, <1>4, <1>5 DEF IsCut

-----------------------------------------------------------------------------
(* The loop invariant *)

\* Everything before the window is in a chunk or blank.
CoveredSoFar ==
  \A i \in 1 .. Len(doc) : \A p \in 0 .. doc[i].len - 1 :
    i < sec \/ (i = sec /\ p < start) => p \in doc[i].blanks \/ InChunk(i, p)

\* The chunks already cut from the current section start before the window,
\* end at most an overlap after its start, and none reached the end.
CurrentChunksBehind ==
  \A k \in 1 .. Len(chunks) :
    chunks[k].sec = sec =>
      /\ chunks[k].char_start < start
      /\ chunks[k].char_end <= start + overlap
      /\ chunks[k].char_end < doc[sec].len

\* Chunks come from sections already reached.
ChunksAreBehind ==
  \A k \in 1 .. Len(chunks) : chunks[k].sec \in 1 .. Len(doc) /\ chunks[k].sec <= sec

\* The window starts inside its section, at its start when it fits.
StartInSection ==
  sec <= Len(doc) => /\ start < doc[sec].len
                     /\ doc[sec].len <= ChunkSize => start = 0

CInv ==
  /\ TypeOK
  /\ StartInSection
  /\ OrdinalsAreContiguous
  /\ WindowsAreBounded
  /\ ChunksAreBehind
  /\ CoveredSoFar
  /\ CurrentChunksBehind
  /\ ChunksAdvance

-----------------------------------------------------------------------------
(* One more chunk *)

LEMMA EmitAppends ==
  ASSUME TypeOK, NEW from \in Nat, NEW to \in Nat, Emit(from, to), UNCHANGED <<doc, overlap>>
  PROVE  /\ chunks' \in Seq(Chunk) /\ ordinal' \in Nat
         /\ Len(chunks') = Len(chunks) + 1
         /\ \A k \in 1 .. Len(chunks) : chunks'[k] = chunks[k]
         /\ chunks'[Len(chunks) + 1] = NewChunk(from, to)
         /\ \A i, p : InChunk(i, p) => InChunk(i, p)'
         /\ \A i, p : i = sec /\ from <= p /\ p < to => InChunk(i, p)'
<1>1. NewChunk(from, to) \in Chunk /\ Len(chunks) \in Nat
  <2>1. sec \in Nat /\ ordinal \in Nat /\ chunks \in Seq(Chunk)
    BY DEF TypeOK, IsDocument
  <2> QED
    BY <2>1 DEF NewChunk, Chunk
<1>2. /\ chunks' \in Seq(Chunk) /\ ordinal' \in Nat
      /\ Len(chunks') = Len(chunks) + 1
      /\ \A k \in 1 .. Len(chunks) : chunks'[k] = chunks[k]
      /\ chunks'[Len(chunks) + 1] = NewChunk(from, to)
  BY <1>1 DEF Emit, TypeOK
<1>3. \A i, p : InChunk(i, p) => InChunk(i, p)'
  BY <1>1, <1>2 DEF InChunk
<1>4. ASSUME NEW i, NEW p, i = sec, from <= p, p < to
      PROVE  InChunk(i, p)'
  <2> DEFINE k == Len(chunks) + 1
  <2>1. k \in 1 .. Len(chunks')
    BY <1>1, <1>2
  <2>2. /\ chunks'[k].sec = i
        /\ chunks'[k].char_start = from /\ chunks'[k].char_end = to
    BY <1>2, <1>4 DEF NewChunk
  <2> HIDE DEF k
  <2> QED
    BY <1>4, <2>1, <2>2 DEF InChunk
<1> QED
  BY <1>2, <1>3, <1>4

\* Emitting the window that starts at start keeps what is said of all the
\* chunks.
LEMMA EmitKeeps ==
  ASSUME CInv, sec <= Len(doc), UNCHANGED <<doc, overlap>>, NEW to \in Nat, Emit(start, to),
         start < to, to <= text.len, to - start <= ChunkSize,
         to < text.len /\ 2 * overlap <= ChunkSize => start + overlap < to
  PROVE  /\ OrdinalsAreContiguous'
         /\ WindowsAreBounded'
         /\ ChunksAdvance'
<1> USE DEF CInv
<1>1. start \in Nat /\ sec \in Nat /\ Len(chunks) \in Nat /\ text.len \in Nat
  BY DEF TypeOK, IsDocument, IsSection, text
<1>2. /\ chunks' \in Seq(Chunk)
      /\ Len(chunks') = Len(chunks) + 1
      /\ \A k \in 1 .. Len(chunks) : chunks'[k] = chunks[k]
      /\ chunks'[Len(chunks) + 1] = NewChunk(start, to)
  BY <1>1, EmitAppends
<1>3. \A k \in 1 .. Len(chunks') : k \in 1 .. Len(chunks) \/ k = Len(chunks) + 1
  BY <1>1, <1>2
<1>4. OrdinalsAreContiguous'
  <2>1. ordinal' = ordinal + 1 /\ NewChunk(start, to).ordinal = ordinal
    BY DEF Emit, NewChunk
  <2>2. ordinal = Len(chunks) /\ \A k \in 1 .. Len(chunks) : chunks[k].ordinal = k - 1
    BY DEF OrdinalsAreContiguous
  <2>3. \A k \in 1 .. Len(chunks') : chunks'[k].ordinal = k - 1
    BY <1>1, <1>2, <1>3, <2>1, <2>2
  <2> QED
    BY <1>1, <1>2, <2>1, <2>2, <2>3 DEF OrdinalsAreContiguous
<1>5. WindowsAreBounded'
  <2> SUFFICES ASSUME NEW k \in 1 .. Len(chunks')
               PROVE  /\ chunks'[k].char_start < chunks'[k].char_end
                      /\ chunks'[k].char_end <= doc[chunks'[k].sec].len
                      /\ chunks'[k].char_end - chunks'[k].char_start <= ChunkSize
    BY DEF WindowsAreBounded
  <2>1. CASE k \in 1 .. Len(chunks)
    BY <1>2, <2>1 DEF WindowsAreBounded
  <2>2. CASE k = Len(chunks) + 1
    BY <1>2, <2>2 DEF NewChunk, text
  <2> QED
    BY <1>3, <2>1, <2>2
<1>6. ChunksAdvance'
  <2> SUFFICES ASSUME 2 * overlap <= ChunkSize,
                      NEW k \in 1 .. Len(chunks),
                      chunks'[k].sec = chunks'[k + 1].sec
               PROVE  /\ chunks'[k].char_start < chunks'[k + 1].char_start
                      /\ chunks'[k].char_end < chunks'[k + 1].char_end
    BY <1>1, <1>2 DEF ChunksAdvance
  <2>1. CASE k \in 1 .. Len(chunks) - 1
    <3>1. k + 1 \in 1 .. Len(chunks)
      BY <1>1, <2>1
    <3> QED
      BY <1>2, <2>1, <3>1 DEF ChunksAdvance
  <2>2. CASE k = Len(chunks)
    <3>1. /\ chunks'[k] = chunks[k]
          /\ chunks'[k + 1] = NewChunk(start, to)
      BY <1>2, <2>2
    <3>2. chunks[k] \in Chunk
      BY <1>1 DEF TypeOK
    <3>3. chunks[k].sec = sec
      BY <3>1 DEF NewChunk
    <3>4. /\ chunks[k].char_start < start
          /\ chunks[k].char_end <= start + overlap
          /\ chunks[k].char_end < text.len
      BY <3>3 DEF CurrentChunksBehind, text
    <3>5. chunks[k].char_end \in Nat /\ overlap \in Nat
      BY <3>2, ChunkerAssumption DEF TypeOK, Chunk
    <3>6. chunks[k].char_end < to
      <4> HIDE DEF CInv
      <4>1. CASE to < text.len
        <5>1. start + overlap < to
          BY <4>1
        <5> QED
          BY <1>1, <3>4, <3>5, <5>1
      <4>2. CASE to = text.len
        BY <3>4, <4>2
      <4> QED
        BY <1>1, <4>1, <4>2
    <3> QED
      BY <3>1, <3>4, <3>6 DEF NewChunk
  <2> QED
    BY <1>1, <2>1, <2>2
<1> QED
  BY <1>4, <1>5, <1>6

-----------------------------------------------------------------------------
(* The invariant is inductive *)

LEMMA CInvInit == Init => CInv
<1> SUFFICES ASSUME Init
             PROVE  CInv
  OBVIOUS
<1>1. IsDocument(doc)
  BY ChunkerAssumption DEF Init
<1>2. TypeOK
  BY <1>1 DEF Init, TypeOK, IsDocument
<1>3. StartInSection
  BY <1>1 DEF Init, StartInSection, IsDocument, IsSection
<1>4. CoveredSoFar
  BY <1>1 DEF Init, CoveredSoFar, IsDocument, IsSection
<1>5. /\ Len(chunks) = 0 /\ ordinal = 0
      /\ \A k \in 1 .. Len(chunks) : FALSE
      /\ \A k \in 1 .. Len(chunks) - 1 : FALSE
  BY DEF Init
<1>6. /\ OrdinalsAreContiguous /\ WindowsAreBounded /\ ChunksAreBehind
      /\ CurrentChunksBehind /\ ChunksAdvance
  BY <1>5
     DEF OrdinalsAreContiguous, WindowsAreBounded, ChunksAreBehind,
         CurrentChunksBehind, ChunksAdvance
<1> QED
  BY <1>2, <1>3, <1>4, <1>6 DEF CInv

\* What a step that handles the window [start, to) of the current section
\* owes the invariant: coverage up to to, and nothing lost.
LEMMA WindowCovered ==
  ASSUME CInv, sec <= Len(doc), UNCHANGED <<doc, overlap>>, NEW to \in Nat,
         start < to, to <= text.len,
         \/ Emit(start, to)
         \/ Blank(text, start, to) /\ UNCHANGED <<chunks, ordinal>>
  PROVE  \A i \in 1 .. Len(doc) : \A p \in 0 .. doc[i].len - 1 :
           i < sec \/ (i = sec /\ p < to) => p \in doc[i].blanks \/ InChunk(i, p)'
<1> USE DEF CInv
<1>1. start \in Nat /\ sec \in Nat
  BY DEF TypeOK, IsDocument
<1> SUFFICES ASSUME NEW i \in 1 .. Len(doc), NEW p \in 0 .. doc[i].len - 1,
                    i < sec \/ (i = sec /\ p < to)
             PROVE  p \in doc[i].blanks \/ InChunk(i, p)'
  OBVIOUS
<1>2. i \in Nat /\ p \in Nat
  OBVIOUS
<1>3. InChunk(i, p) => InChunk(i, p)'
  BY <1>1, EmitAppends DEF InChunk
<1>4. CASE i < sec \/ p < start
  BY <1>1, <1>2, <1>3, <1>4 DEF CoveredSoFar
<1>5. CASE i = sec /\ start <= p /\ p < to
  <2>1. CASE Emit(start, to)
    BY <1>1, <1>5, <2>1, EmitAppends
  <2>2. CASE Blank(text, start, to)
    BY <1>1, <1>2, <1>5, <2>2 DEF Blank, text
  <2> QED
    BY <2>1, <2>2
<1> QED
  BY <1>1, <1>2, <1>4, <1>5

\* Everything a turn with the window [start, to) establishes, whether it
\* emitted the window or dropped it as blank.
LEMMA WindowStep ==
  ASSUME CInv, sec <= Len(doc), UNCHANGED <<doc, overlap>>, NEW to \in Nat,
         start < to, to <= text.len, to - start <= ChunkSize,
         to < text.len /\ 2 * overlap <= ChunkSize => start + overlap < to,
         \/ Emit(start, to)
         \/ Blank(text, start, to) /\ UNCHANGED <<chunks, ordinal>>
  PROVE  /\ chunks' \in Seq(Chunk) /\ ordinal' \in Nat
         /\ OrdinalsAreContiguous' /\ WindowsAreBounded' /\ ChunksAdvance'
         /\ \A k \in 1 .. Len(chunks') :
              /\ chunks'[k].sec \in 1 .. Len(doc) /\ chunks'[k].sec <= sec
              /\ chunks'[k].sec = sec =>
                   \/ /\ chunks'[k].char_start < start
                      /\ chunks'[k].char_end <= start + overlap
                      /\ chunks'[k].char_end < text.len
                   \/ chunks'[k].char_start = start /\ chunks'[k].char_end = to
<1> USE DEF CInv
<1>1. /\ start \in Nat /\ sec \in 1 .. Len(doc) /\ Len(doc) \in Nat
      /\ chunks \in Seq(Chunk) /\ ordinal \in Nat /\ Len(chunks) \in Nat
  BY DEF TypeOK, IsDocument
<1>2. CASE Emit(start, to)
  <2>1. /\ chunks' \in Seq(Chunk) /\ ordinal' \in Nat
        /\ Len(chunks') = Len(chunks) + 1
        /\ \A k \in 1 .. Len(chunks) : chunks'[k] = chunks[k]
        /\ chunks'[Len(chunks) + 1] = NewChunk(start, to)
    BY <1>1, <1>2, EmitAppends
  <2>2. OrdinalsAreContiguous' /\ WindowsAreBounded' /\ ChunksAdvance'
    BY <1>1, <1>2, EmitKeeps
  <2>3. ASSUME NEW k \in 1 .. Len(chunks')
        PROVE  /\ chunks'[k].sec \in 1 .. Len(doc) /\ chunks'[k].sec <= sec
               /\ chunks'[k].sec = sec =>
                    \/ /\ chunks'[k].char_start < start
                       /\ chunks'[k].char_end <= start + overlap
                       /\ chunks'[k].char_end < text.len
                    \/ chunks'[k].char_start = start /\ chunks'[k].char_end = to
    <3>1. CASE k \in 1 .. Len(chunks)
      BY <2>1, <3>1 DEF ChunksAreBehind, CurrentChunksBehind, text
    <3>2. CASE k = Len(chunks) + 1
      BY <1>1, <2>1, <3>2 DEF NewChunk
    <3> QED
      BY <1>1, <2>1, <3>1, <3>2
  <2> QED
    BY <2>1, <2>2, <2>3
<1>3. CASE UNCHANGED <<chunks, ordinal>>
  <2>1. OrdinalsAreContiguous' /\ WindowsAreBounded' /\ ChunksAdvance'
    BY <1>3 DEF OrdinalsAreContiguous, WindowsAreBounded, ChunksAdvance
  <2>2. \A k \in 1 .. Len(chunks') :
          /\ chunks'[k].sec \in 1 .. Len(doc) /\ chunks'[k].sec <= sec
          /\ chunks'[k].sec = sec => /\ chunks'[k].char_start < start
                                    /\ chunks'[k].char_end <= start + overlap
                                    /\ chunks'[k].char_end < text.len
    BY <1>3 DEF ChunksAreBehind, CurrentChunksBehind, text
  <2> QED
    BY <1>1, <1>3, <2>1, <2>2
<1> QED
  BY <1>2, <1>3

\* Leaving a section: no chunk comes from the next one yet.
LEMMA LeaveSection ==
  ASSUME CInv, sec <= Len(doc), UNCHANGED <<doc, overlap>>, NextSection,
         NEW to \in Nat, to = text.len, start < to, to - start <= ChunkSize,
         \/ Emit(start, to)
         \/ Blank(text, start, to) /\ UNCHANGED <<chunks, ordinal>>
  PROVE  CInv'
<1> USE DEF CInv
<1>1. /\ start \in Nat /\ sec \in 1 .. Len(doc) /\ Len(doc) \in Nat
      /\ sec' = sec + 1 /\ start' = 0 /\ text.len \in Nat
  BY DEF TypeOK, IsDocument, IsSection, text, NextSection
<1>2. /\ chunks' \in Seq(Chunk) /\ ordinal' \in Nat
      /\ OrdinalsAreContiguous' /\ WindowsAreBounded' /\ ChunksAdvance'
      /\ \A k \in 1 .. Len(chunks') :
           chunks'[k].sec \in 1 .. Len(doc) /\ chunks'[k].sec <= sec
  BY <1>1, WindowStep
<1>3. \A i \in 1 .. Len(doc) : \A p \in 0 .. doc[i].len - 1 :
        i < sec \/ (i = sec /\ p < to) => p \in doc[i].blanks \/ InChunk(i, p)'
  BY <1>1, WindowCovered
<1>4. TypeOK'
  BY <1>1, <1>2 DEF TypeOK, IsDocument
<1>5. StartInSection'
  BY <1>1 DEF StartInSection, TypeOK, IsDocument, IsSection
<1>6. ChunksAreBehind' /\ CurrentChunksBehind'
  BY <1>1, <1>2 DEF ChunksAreBehind, CurrentChunksBehind
<1>7. CoveredSoFar'
  <2> SUFFICES ASSUME NEW i \in 1 .. Len(doc), NEW p \in 0 .. doc[i].len - 1,
                      i < sec'
               PROVE  p \in doc[i].blanks \/ InChunk(i, p)'
    BY <1>1 DEF CoveredSoFar, TypeOK, IsDocument, IsSection
  <2>1. doc[i].len \in Nat
    BY DEF TypeOK, IsDocument, IsSection
  <2>2. i < sec \/ (i = sec /\ p < to)
    BY <1>1, <2>1 DEF text
  <2> QED
    BY <1>3, <2>2
<1> QED
  BY <1>2, <1>4, <1>5, <1>6, <1>7

\* Moving the window within the section.
LEMMA MoveWindow ==
  ASSUME CInv, sec <= Len(doc), text.len > ChunkSize, UNCHANGED <<doc, overlap, sec>>,
         NEW to \in Nat, start < to, to < text.len, to - start <= ChunkSize,
         2 * overlap <= ChunkSize => start + overlap < to,
         start' = NextStart(to),
         \/ Emit(start, to)
         \/ Blank(text, start, to) /\ UNCHANGED <<chunks, ordinal>>
  PROVE  CInv'
<1> USE DEF CInv
<1>1. /\ start \in Nat /\ sec \in 1 .. Len(doc) /\ Len(doc) \in Nat
      /\ text.len \in Nat /\ overlap \in Nat /\ ChunkSize \in Nat
  BY ChunkerAssumption DEF TypeOK, IsDocument, IsSection, text
<1>2. start' \in Nat /\ start < start' /\ to <= start' + overlap /\ start' <= to
  BY <1>1 DEF NextStart, AtLeast
<1>3. /\ chunks' \in Seq(Chunk) /\ ordinal' \in Nat
      /\ OrdinalsAreContiguous' /\ WindowsAreBounded' /\ ChunksAdvance'
      /\ \A k \in 1 .. Len(chunks') :
           /\ chunks'[k].sec \in 1 .. Len(doc) /\ chunks'[k].sec <= sec
           /\ chunks'[k].sec = sec =>
                \/ /\ chunks'[k].char_start < start
                   /\ chunks'[k].char_end <= start + overlap
                   /\ chunks'[k].char_end < text.len
                \/ chunks'[k].char_start = start /\ chunks'[k].char_end = to
  BY <1>1, WindowStep
<1>4. \A i \in 1 .. Len(doc) : \A p \in 0 .. doc[i].len - 1 :
        i < sec \/ (i = sec /\ p < to) => p \in doc[i].blanks \/ InChunk(i, p)'
  BY <1>1, WindowCovered
<1>5. TypeOK'
  BY <1>1, <1>2, <1>3 DEF TypeOK
<1>6. StartInSection'
  BY <1>1, <1>2 DEF StartInSection, text
<1>7. ChunksAreBehind'
  BY <1>3 DEF ChunksAreBehind
<1>8. CurrentChunksBehind'
  <2> SUFFICES ASSUME NEW k \in 1 .. Len(chunks'), chunks'[k].sec = sec
               PROVE  /\ chunks'[k].char_start < start'
                      /\ chunks'[k].char_end <= start' + overlap
                      /\ chunks'[k].char_end < text.len
    BY DEF CurrentChunksBehind, text
  <2>1. chunks'[k].char_start \in Nat /\ chunks'[k].char_end \in Nat
    <3>1. chunks'[k] \in Chunk
      BY <1>3
    <3> QED
      BY <3>1 DEF Chunk
  <2>2. \/ /\ chunks'[k].char_start < start
           /\ chunks'[k].char_end <= start + overlap
           /\ chunks'[k].char_end < text.len
        \/ chunks'[k].char_start = start /\ chunks'[k].char_end = to
    BY <1>3
  <2>3. chunks'[k].char_start < start'
    BY <1>1, <1>2, <2>1, <2>2
  <2>4. chunks'[k].char_end <= start' + overlap
    BY <1>1, <1>2, <2>1, <2>2
  <2>5. chunks'[k].char_end < text.len
    BY <1>1, <2>1, <2>2
  <2> QED
    BY <2>3, <2>4, <2>5
<1>9. CoveredSoFar'
  <2> SUFFICES ASSUME NEW i \in 1 .. Len(doc), NEW p \in 0 .. doc[i].len - 1,
                      i < sec \/ (i = sec /\ p < start')
               PROVE  p \in doc[i].blanks \/ InChunk(i, p)'
    BY DEF CoveredSoFar
  <2>1. i < sec \/ (i = sec /\ p < to)
    BY <1>1, <1>2
  <2> QED
    BY <1>4, <2>1
<1> QED
  BY <1>3, <1>5, <1>6, <1>7, <1>8, <1>9

LEMMA CInvNext == CInv /\ [Next]_vars => CInv'
<1> SUFFICES ASSUME CInv, [Next]_vars
             PROVE  CInv'
  OBVIOUS
<1>1. CASE TakeWhole
  <2>1. /\ sec <= Len(doc) /\ UNCHANGED <<doc, overlap>> /\ NextSection
        /\ text.len <= ChunkSize /\ Emit(0, text.len)
    BY <1>1 DEF TakeWhole
  <2>2. start = 0 /\ start < text.len
    BY <2>1 DEF CInv, StartInSection, text
  <2>3. text.len \in Nat /\ text.len - start <= ChunkSize
    BY <2>1, <2>2 DEF CInv, TypeOK, IsDocument, IsSection, text
  <2> QED
    BY <2>1, <2>2, <2>3, LeaveSection
<1>2. CASE Slide
  <2>1. sec <= Len(doc) /\ text.len > ChunkSize /\ UNCHANGED <<doc, overlap>>
    BY <1>2 DEF Slide
  <2>2. PICK end \in start .. AtMost(start + ChunkSize, text.len) :
          /\ IsCut(text, start, end)
          /\ KeepWindow(end)
          /\ \/ end >= text.len /\ NextSection
             \/ /\ end < text.len
                /\ start' = NextStart(end)
                /\ UNCHANGED sec
    BY <1>2 DEF Slide
  <2>3. /\ IsSection(text) /\ start \in Nat /\ start < text.len /\ overlap \in Nat
        /\ text.len \in Nat /\ sec \in 1 .. Len(doc) /\ Len(doc) \in Nat
    BY <2>1, ChunkerAssumption DEF CInv, TypeOK, StartInSection, IsDocument, IsSection, text
  <2>4. end \in Int
    BY <2>2
  <2>5. /\ start < end /\ end <= text.len /\ end <= start + ChunkSize
        /\ end < text.len /\ 2 * overlap <= ChunkSize => start + overlap < end
    <3> HIDE DEF IsCut
    <3> QED
      BY <2>2, <2>3, <2>4, CutBounds
  <2>6. end \in Nat /\ end - start <= ChunkSize
    BY <2>3, <2>4, <2>5, ChunkerAssumption
  <2>7. \/ Emit(start, end)
        \/ Blank(text, start, end) /\ UNCHANGED <<chunks, ordinal>>
    BY <2>2 DEF KeepWindow
  <2>8. CASE end >= text.len /\ NextSection
    <3>1. end = text.len
      BY <2>3, <2>5, <2>6, <2>8
    <3> QED
      BY <2>1, <2>5, <2>6, <2>7, <2>8, <3>1, LeaveSection
  <2>9. CASE /\ end < text.len
             /\ start' = NextStart(end)
             /\ UNCHANGED sec
    <3>1. 2 * overlap <= ChunkSize => start + overlap < end
      BY <2>5, <2>9
    <3> QED
      BY <2>1, <2>5, <2>6, <2>7, <2>9, <3>1, MoveWindow
  <2> QED
    BY <2>2, <2>8, <2>9
<1>3. CASE UNCHANGED vars
  <2>1. UNCHANGED <<doc, overlap, sec, start, ordinal, chunks>>
    BY <1>3 DEF vars
  <2>2. TypeOK' /\ StartInSection' /\ OrdinalsAreContiguous'
    BY <2>1 DEF CInv, TypeOK, StartInSection, OrdinalsAreContiguous
  <2>3. WindowsAreBounded' /\ ChunksAreBehind' /\ CurrentChunksBehind'
    BY <2>1 DEF CInv, WindowsAreBounded, ChunksAreBehind, CurrentChunksBehind
  <2>4. CoveredSoFar' /\ ChunksAdvance'
    BY <2>1 DEF CInv, CoveredSoFar, InChunk, ChunksAdvance
  <2> QED
    BY <2>2, <2>3, <2>4 DEF CInv
<1> QED
  BY <1>1, <1>2, <1>3 DEF Next

THEOREM ChunkerInvariance == Spec => []CInv
BY CInvInit, CInvNext, PTL DEF Spec

-----------------------------------------------------------------------------
(* The results *)

\* Every variable keeps its type.
THEOREM ChunkerTypes == Spec => []TypeOK
<1>1. CInv => TypeOK
  BY DEF CInv
<1> QED
  BY <1>1, ChunkerInvariance, PTL

\* No word character of a document is lost, whatever the sizes.
THEOREM NoTextIsLost == Spec => []AllTextIsChunked
<1>1. CInv => AllTextIsChunked
  BY DEF CInv, CoveredSoFar, AllTextIsChunked, Finished, TypeOK, IsDocument
<1> QED
  BY <1>1, ChunkerInvariance, PTL

\* Ordinals count the chunks from 0 with no gap.
THEOREM OrdinalsCount == Spec => []OrdinalsAreContiguous
<1>1. CInv => OrdinalsAreContiguous
  BY DEF CInv
<1> QED
  BY <1>1, ChunkerInvariance, PTL

\* Chunks are non-empty windows of at most ChunkSize characters.
THEOREM WindowsFit == Spec => []WindowsAreBounded
<1>1. CInv => WindowsAreBounded
  BY DEF CInv
<1> QED
  BY <1>1, ChunkerInvariance, PTL

\* With an overlap of at most half a window no chunk holds another.
THEOREM NoChunkHoldsAnother == Spec => []ChunksAdvance
<1>1. CInv => ChunksAdvance
  BY DEF CInv
<1> QED
  BY <1>1, ChunkerInvariance, PTL

\* Every turn moves the window or leaves the section, for any overlap.
THEOREM TheWindowMoves == Spec => WindowMoves
<1>1. CInv /\ [Next]_vars => [sec' > sec \/ start' > start]_vars
  <2> SUFFICES ASSUME CInv, Next
               PROVE  sec' > sec \/ start' > start
    OBVIOUS
  <2>1. sec \in Nat /\ start \in Nat
    BY DEF CInv, TypeOK, IsDocument
  <2>2. CASE NextSection
    BY <2>1, <2>2 DEF NextSection
  <2>3. ASSUME NEW end \in Int, start' = NextStart(end)
        PROVE  start' > start
    BY <2>1, <2>3, ChunkerAssumption DEF NextStart, AtLeast
  <2>4. CASE TakeWhole
    BY <2>2, <2>4 DEF TakeWhole
  <2>5. CASE Slide
    <3>1. PICK end \in start .. AtMost(start + ChunkSize, text.len) :
            NextSection \/ start' = NextStart(end)
      BY <2>5 DEF Slide
    <3>2. end \in Int
      BY <3>1
    <3> QED
      BY <2>2, <2>3, <3>1, <3>2
  <2> QED
    BY <2>4, <2>5 DEF Next
<1> QED
  BY <1>1, ChunkerInvariance, PTL DEF Spec, WindowMoves
=============================================================================
