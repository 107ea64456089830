------------------------------ MODULE MCProcess ------------------------------
(* Small instances of Process: where in main a signal may arrive, and the  *)
(* number in a value of the environment.                                   *)
EXTENDS Process

WhileReading == {"run"}
WhileLocked  == {"locked", "clearing"}
EightyOne    == [v \in {"81", "81x"} |-> "81"]
=============================================================================
