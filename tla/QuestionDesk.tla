---------------------------- MODULE QuestionDesk ----------------------------
(***************************************************************************)
(* What the page promises the person who asks: one question is awaited at  *)
(* a time, and the only thing that puts the outcome of a question in front *)
(* of the reader is the end of that question.  Requests, lists, tokens and *)
(* inputs are left out.                                                    *)
(***************************************************************************)
CONSTANTS
  Ask,      (* what can be asked: a question of a collection               *)
  Nothing   (* nothing awaited; nothing shown                              *)

VARIABLES
  awaited,  (* the question whose outcome is awaited                       *)
  shown     (* the question whose outcome is shown                         *)

DeskVars == <<awaited, shown>>

DeskInit == awaited = Nothing /\ shown = Nothing

\* The outcome of an earlier question stays while the new one is awaited.
Pose ==
  /\ awaited = Nothing
  /\ awaited' \in Ask \ {Nothing}
  /\ UNCHANGED shown

Deliver ==
  /\ awaited # Nothing
  /\ shown' = awaited
  /\ awaited' = Nothing

\* The question failed, or the page is opened anew.
StartOver == awaited' = Nothing /\ shown' = Nothing

\* The reader clears the page, or other news take its place; the question
\* is awaited all the same.
Wipe == shown' = Nothing /\ UNCHANGED awaited

DeskNext == Pose \/ Deliver \/ StartOver \/ Wipe

DeskSpec == DeskInit /\ [][DeskNext]_DeskVars
=============================================================================
