------------------------------- MODULE Chunker -------------------------------
(***************************************************************************)
(* The sliding window of api/app/ingest.py, _split_into_chunks.  One step  *)
(* is one section that fits, or one turn of the inner while loop.          *)
(*                                                                         *)
(* Of a section's text only its length, the positions of its blanks (what  *)
(* strip() removes) and, among those, of its spaces (what rfind(" ")       *)
(* finds) matter.  The parsers strip every section and drop the empty      *)
(* ones, so a section begins and ends with a word character.               *)
(***************************************************************************)
EXTENDS Integers, Sequences

CONSTANTS
  Document,   (* the sequences of sections the parsers return              *)
  ChunkSize,  (* settings.chunk_size_chars                                 *)
  Overlaps    (* the values settings.chunk_overlap_chars may have          *)

IsSection(t) ==
  /\ t.len \in Nat \ {0}
  /\ t.blanks \subseteq 1 .. t.len - 2
  /\ t.spaces \subseteq t.blanks

IsDocument(d) ==
  /\ Len(d) \in Nat
  /\ \A i \in 1 .. Len(d) : IsSection(d[i])

\* The defaults are 2000 and 256.
ASSUME ChunkerAssumption ==
  /\ ChunkSize \in Nat \ {0}
  /\ Overlaps \subseteq Nat
  /\ \A d \in Document : IsDocument(d)

VARIABLES
  doc,      (* sections                                                    *)
  overlap,  (* overlap                                                     *)
  sec,      (* index of the current section                                *)
  start,    (* start of the window in it                                   *)
  ordinal,  (* ordinal of the next chunk                                   *)
  chunks    (* the chunks so far                                           *)

vars == <<doc, overlap, sec, start, ordinal, chunks>>

Chunk == [ordinal: Nat, sec: Nat, char_start: Nat, char_end: Nat]

TypeOK ==
  /\ IsDocument(doc)
  /\ overlap \in Overlaps
  /\ sec \in 1 .. Len(doc) + 1
  /\ start \in Nat
  /\ ordinal \in Nat
  /\ chunks \in Seq(Chunk)

Init ==
  /\ doc \in Document
  /\ overlap \in Overlaps
  /\ sec = 1
  /\ start = 0
  /\ ordinal = 0
  /\ chunks = <<>>

-----------------------------------------------------------------------------
text == doc[sec]

AtMost(a, b) == IF a < b THEN a ELSE b
AtLeast(a, b) == IF a > b THEN a ELSE b

\* Mutant: any space after the start will do.
Breaks_AnySpace(t, s) == {p \in t.spaces : s < p /\ p < s + ChunkSize}

\* The spaces rfind may return that leave more than half a window.
Breaks(t, s) ==
  {p \in t.spaces : s + (ChunkSize \div 2) < p /\ p < s + ChunkSize}

\* Where the window that starts at s ends: at the end of the text, at the
\* last good space, or after ChunkSize characters.
IsCut(t, s, end) ==
  IF s + ChunkSize >= t.len THEN end = t.len
  ELSE IF Breaks(t, s) = {} THEN end = s + ChunkSize
  ELSE end \in Breaks(t, s) /\ \A p \in Breaks(t, s) : p <= end

Blank(t, s, end) == s .. end - 1 \subseteq t.blanks

NewChunk(from, to) ==
  [ordinal |-> ordinal, sec |-> sec, char_start |-> from, char_end |-> to]

Emit(from, to) ==
  /\ chunks' = Append(chunks, NewChunk(from, to))
  /\ ordinal' = ordinal + 1

NextSection == sec' = sec + 1 /\ start' = 0

\* Mutant: a little more than a window fits.
TakeWhole_Slack ==
  /\ sec <= Len(doc)
  /\ text.len <= ChunkSize + overlap
  /\ Emit(0, text.len)
  /\ NextSection
  /\ UNCHANGED <<doc, overlap>>

\* A section that fits is one chunk.
TakeWhole ==
  /\ sec <= Len(doc)
  /\ text.len <= ChunkSize
  /\ Emit(0, text.len)
  /\ NextSection
  /\ UNCHANGED <<doc, overlap>>

\* Mutant: a dropped window takes an ordinal.
KeepWindow_CountsBlanks(end) ==
  \/ ~Blank(text, start, end) /\ Emit(start, end)
  \/ Blank(text, start, end) /\ ordinal' = ordinal + 1 /\ UNCHANGED chunks

\* if piece: the window is a chunk unless it is blank.
KeepWindow(end) ==
  \/ ~Blank(text, start, end) /\ Emit(start, end)
  \/ Blank(text, start, end) /\ UNCHANGED <<chunks, ordinal>>

\* Mutants: the cut is skipped as if it were a space; an overlap as large as
\* the window takes it back to where it was.
NextStart_SkipsCut(end) == end + 1

NextStart_NoFloor(end) == end - overlap

\* start = max(end - overlap, start + 1)
NextStart(end) == AtLeast(end - overlap, start + 1)

\* One turn of the loop: emit the window, then move on or leave.
Slide ==
  /\ sec <= Len(doc)
  /\ text.len > ChunkSize
  /\ \E end \in start .. AtMost(start + ChunkSize, text.len) :
       /\ IsCut(text, start, end)
       /\ KeepWindow(end)
       /\ \/ end >= text.len /\ NextSection
          \/ /\ end < text.len
             /\ start' = NextStart(end)
             /\ UNCHANGED sec
  /\ UNCHANGED <<doc, overlap>>

Next == TakeWhole \/ Slide

Spec == Init /\ [][Next]_vars

\* The loop is a plain computation: it runs on.
FairSpec == Spec /\ WF_vars(Next)

-----------------------------------------------------------------------------
Finished == sec = Len(doc) + 1

InChunk(i, p) ==
  \E k \in 1 .. Len(chunks) :
    chunks[k].sec = i /\ chunks[k].char_start <= p /\ p < chunks[k].char_end

\* No word character of the document is left out of the chunks, however
\* the windows were cut, moved back by the overlap or dropped as blank.
AllTextIsChunked ==
  Finished => \A i \in 1 .. Len(doc) : \A p \in 0 .. doc[i].len - 1 :
                p \in doc[i].blanks \/ InChunk(i, p)

\* Ordinals count the chunks from 0 with no gap, across sections and
\* dropped windows: chunks_created and the rows' ordinals agree.
OrdinalsAreContiguous ==
  /\ ordinal = Len(chunks)
  /\ \A k \in 1 .. Len(chunks) : chunks[k].ordinal = k - 1

\* A chunk is a non-empty window of its section, at most ChunkSize long:
\* what the embedding provider is sent is bounded.
WindowsAreBounded ==
  \A k \in 1 .. Len(chunks) :
    LET c == chunks[k]
    IN  /\ c.char_start < c.char_end
        /\ c.char_end <= doc[c.sec].len
        /\ c.char_end - c.char_start <= ChunkSize

\* Each chunk of a section reaches further than the one before it: no chunk
\* repeats text that another one holds entirely.  This is what the half
\* window in "ws > start + chunk_size // 2" is for; it takes an overlap of
\* at most half a window.
ChunksAdvance ==
  2 * overlap <= ChunkSize =>
    \A k \in 1 .. Len(chunks) - 1 :
      chunks[k].sec = chunks[k + 1].sec =>
        /\ chunks[k].char_start < chunks[k + 1].char_start
        /\ chunks[k].char_end < chunks[k + 1].char_end

\* Every turn of the loop moves the window, even when the overlap is as
\* large as the window.
WindowMoves == [][sec' > sec \/ start' > start]_vars

\* The loop ends for every text and overlap: with one as large as the window
\* only the floor of "max(end - overlap, start + 1)" moves it on.
Terminates == <>Finished

-----------------------------------------------------------------------------
\* "otherwise splits mid-section but always at a word boundary": where a
\* window begins or ends within a section and a space is less than half a
\* window away, it does not part two word characters.
SplitsAtWordBoundaries ==
  \A k \in 1 .. Len(chunks) :
    LET c == chunks[k]
        t == doc[c.sec]
        half == ChunkSize \div 2
    IN \A p \in {c.char_start, c.char_end} \cap 1 .. t.len - 1 :
         t.spaces \cap (p - half + 1 .. p + half - 1) # {} =>
           p \in t.blanks \/ p - 1 \in t.blanks
=============================================================================
