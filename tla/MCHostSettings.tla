--------------------------- MODULE MCHostSettings ---------------------------
(***************************************************************************)
(* Instances of HostSettings for TLC.                                      *)
(***************************************************************************)
EXTENDS HostSettings

Order == <<"memory", "gpu">>

TwoGroups == [memory |-> <<"thp", "swappiness">>, gpu |-> <<"clocks">>]

(* Four cores with twins.                                                   *)
TwinCores == {{0, 4}, {1, 5}, {2, 6}, {3, 7}}

(* Everywhere, and on the cores left over.                                  *)
SomeAffinities == {0..7, {3, 7}}
=============================================================================
