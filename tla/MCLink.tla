------------------------------- MODULE MCLink -------------------------------
(***************************************************************************)
(* Instances of Link for TLC.                                              *)
(***************************************************************************)
EXTENDS Link

\* The second package is a header and header data only.
MCBare == {2}

=============================================================================
