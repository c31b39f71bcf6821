---------------------------- MODULE DocumentIndex ----------------------------
(***************************************************************************)
(* What ingesting promises a reader of the index when a document has one   *)
(* upload at a time, with the tables, the statements and the requests left *)
(* out.                                                                    *)
(*                                                                         *)
(* A document is in the index completely, all in one collection, or it is  *)
(* not.  Only its own rebuild takes a complete document out of the index,  *)
(* a document has one rebuild at a time, and it gets in only by the end of *)
(* its own rebuild.  A request that succeeds has left it in.               *)
(***************************************************************************)
CONSTANTS
  Doc,        (* documents                                                 *)
  Bucket,     (* collections                                               *)
  Request,    (* rebuilds that clients ask for                             *)
  Nowhere     (* not, or not completely, in the index                      *)

VARIABLES
  home,       (* home[d]: the collection d is complete in                  *)
  rebuilding, (* the documents under rebuild                               *)
  succeeded   (* the requests answered with success                        *)

IndexVars == <<home, rebuilding, succeeded>>

IndexInit ==
  /\ home = [d \in Doc |-> Nowhere]
  /\ rebuilding = {}
  /\ succeeded = {}

\* The rebuild empties the document's entry first.
Begin(d) ==
  /\ d \notin rebuilding
  /\ rebuilding' = rebuilding \cup {d}
  /\ home' = [home EXCEPT ![d] = Nowhere]
  /\ UNCHANGED succeeded

\* The rebuilds of D are over; home changes at D at most.
Finish(D) ==
  /\ D # {} /\ D \subseteq rebuilding
  /\ rebuilding' = rebuilding \ D
  /\ home' = [d \in Doc |-> IF d \in D THEN home'[d] ELSE home[d]]

\* A rebuild succeeded: its document is in one collection.
Publish(d) ==
  /\ Finish({d})
  /\ home'[d] \in Bucket
  /\ \E r \in Request \ succeeded : succeeded' = succeeded \cup {r}

\* Rebuilds died, all of them when the process does: each before its last
\* piece, or after it but before it could say so.
Abandon(D) ==
  /\ Finish(D)
  /\ \A d \in D : home'[d] \in Bucket \cup {Nowhere}
  /\ UNCHANGED succeeded

IndexNext ==
  \/ \E d \in Doc : Begin(d) \/ Publish(d)
  \/ \E D \in SUBSET Doc : Abandon(D)

IndexSpec == IndexInit /\ [][IndexNext]_IndexVars
=============================================================================
