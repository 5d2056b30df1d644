------------------------------ MODULE MCClient ------------------------------
(***************************************************************************)
(* Instances of HcloudClient for TLC.  A clock unit is 100 ms and the      *)
(* parameters are the production defaults; only the width of a duration is *)
(* smaller (12 bits), with headers that overflow it.                       *)
(***************************************************************************)
EXTENDS HcloudClient

Delta(n) == [kind |-> "delta", n |-> n]
Date(n) == [kind |-> "date", n |-> n]
NoHeader == [kind |-> "none", n |-> 0]

\* Within the cap, beyond it, overflowing to a negative and to a small positive
\* duration, and out of the range of an int.
MCRetryAfters ==
  {NoHeader, Delta(-3), Delta(7), Delta(45), Delta(300), Delta(820), Delta(2048),
   Date(-50), Date(70), Date(5000)}

\* 20 s and 45 s, on either side of the cap of 30 s.
PlainRetryAfters == {Delta(20), Delta(45)}

============================================================================
