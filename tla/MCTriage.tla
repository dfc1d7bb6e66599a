------------------------------ MODULE MCTriage ------------------------------
(* Instances of Triage for TLC: which error messages are explored. *)
EXTENDS Triage

(* No code, so that the failed rules select the path; and codes that       *)
(* select a path or, with a failed rule, make the failure compound.        *)
Messages == {{}, {"AM04"}, {"BE01"}}
NoCode == {{}}
=============================================================================
