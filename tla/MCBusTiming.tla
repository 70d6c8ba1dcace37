---------------------------- MODULE MCBusTiming -----------------------------
(***************************************************************************)
(* BusTiming for TLC: a clock that starts 100 ms before a full second, so  *)
(* that deadlines fall short of it, on it and beyond it.  Its steps add up *)
(* to each of the delays and timeouts.                                     *)
(***************************************************************************)
EXTENDS BusTiming

BeforeTheSecond == [tv_sec |-> 1, tv_nsec |-> 900000000]
SomeSteps == {100, 300, 9700, 90000, 4900000}
TwoConfigs == { [timeout |-> 100000, delay |-> 300],
                [timeout |-> 1090000, delay |-> 100000] }
=============================================================================
