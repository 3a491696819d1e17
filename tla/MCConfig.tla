------------------------------ MODULE MCConfig -------------------------------
(***************************************************************************)
(* Inputs for Config.  Each holds an illegal value, the zero that asks for *)
(* the default, and values on both sides of the checks.                    *)
(***************************************************************************)
EXTENDS Config

SomeCounts    == {-1, 0, 1, 2, 10}
SomeBackoffs  == {-1, 0, 1, 5, 64}
SomeIntervals == {-1, 0, 1, 10, 700}
SomeAttempts  == {0, 1}
SomeSmall     == {-1, 0, 2}
SomeNames     == {Required, Required \cup {"consumer"}, {"source", "address"},
                  {"source", "group"}, {"address", "group"}}

(* With 12 bits: sums, and doublings, beyond the largest duration of 2047. *)
LongBackoffs  == {1, 800, 1600}
ShortIdle     == {10}
OneCap        == {-1, 1}
JustRequired  == {Required}
Defaulted     == {0}
ManyCounts    == 1..8
=============================================================================
