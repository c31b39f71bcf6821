---------------------------- MODULE HttpRequests ----------------------------
(***************************************************************************)
(* The HTTP requests one API process serves at the same time, and the      *)
(* statuses it answers with.                                               *)
(***************************************************************************)
EXTENDS Integers, Sequences

CONSTANT Requests

NoStatus == 0
Status   == {200, 400, 401, 500, 503}
=============================================================================
