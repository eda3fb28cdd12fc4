----------------------------- MODULE MCSlmpClient -----------------------------
(* Constant values that a .cfg file cannot write, for checking SlmpClient. *)
EXTENDS SlmpClient

\* A 4E prefix is longer than a 3E one (13 and 9 bytes), and longer than a whole 3E
\* response with nothing but an end code (11).
OnePrefix == [ft \in FrameTypes |-> 2]
TwoPrefixes == [ft \in FrameTypes |-> IF ft = "4E" THEN 3 ELSE 1]
===============================================================================
