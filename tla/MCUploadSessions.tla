-------------------------- MODULE MCUploadSessions --------------------------
(* Two sessions of one user whose cap is one; the files have a single chunk. *)
EXTENDS UploadSessions

CONSTANTS u1, u2, r1, r2, c1
=============================================================================
