--------------------------- MODULE MCMovieUpload ---------------------------
(* Small instances of MovieUpload.                                         *)
EXTENDS MovieUpload, TLC

\* Sessions are only ever compared with each other.
Sessions == Permutations(Session)
=============================================================================
