-------------------------------- MODULE MCIpc --------------------------------
(* The messages of Ipc between programs of which one may send twice.         *)
EXTENDS Ipc

CONSTANT Client     \* the program that sends twice

TwiceAndOnce == [p \in Program |-> IF p = Client THEN 2 ELSE 1]

=============================================================================
