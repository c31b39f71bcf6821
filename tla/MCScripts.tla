------------------------------ MODULE MCScripts ------------------------------
(***************************************************************************)
(* Values of the constants for TLC: two files, a question both answer and  *)
(* one that is off-topic.                                                  *)
(***************************************************************************)
EXTENDS Scripts

MCCorpus    == <<"a", "b">>
MCQuestions == <<{"a", "b"}, {}>>
=============================================================================
