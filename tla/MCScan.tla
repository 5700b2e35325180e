------------------------------- MODULE MCScan -------------------------------
(* An instance with the sign bit at 32 and 12 the least number of "ten     *)
(* digits": 44 is printed as -20 and cut to -2, which is between the -24   *)
(* and -1 that requests 40 and 63 become.                                  *)
EXTENDS Scan

Name(t, u) == [stamp |-> t, uuid |-> u]
MCNames == {Name(12, 0), Name(12, 1), Name(31, 0), Name(31, 1), Name(44, 0)}
MCAsked == {0, 12, 31, 40, 63}
=============================================================================
