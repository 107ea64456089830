---------------------------- MODULE MCCaptureLoop ----------------------------
(* Small instances of the capture loop for TLC.                              *)
EXTENDS CaptureLoop

CONSTANTS u1, u2, u3, n1, n2, n3

ThreeUploads == {u1, u2, u3}
Names        == {n1, n2, n3}

\* Uploads with names of their own.
OwnNames == [u \in Upload |-> CASE u = u1 -> n1 [] u = u2 -> n2 [] u = u3 -> n3]
OneMilli == {0}
=============================================================================
