------------------------------- MODULE MCTime -------------------------------
(* Words of 16 values: 64-bit numbers are below 256, the 8-byte layout has  *)
(* 64 values for the seconds and 4 for the nanoseconds, of which 3 are used. *)
EXTENDS Time

MCWord == 16
MCZeroSec == -100
MCTimes ==
  {Instant(s, n) : s \in {MCZeroSec, -1, 0, MCWord - 1, MCWord, Shift34 - 1, Shift34, 127}, n \in {0, 2}}
MCForeign ==
  {[form |-> "legacy", sec |-> 5, nsec |-> n] : n \in {0, -1, 7}}
    \cup {[form |-> "string", valid |-> v, sec |-> 3, nsec |-> 1] : v \in BOOLEAN}
    \cup {Ext(13, <<9>>), Ext(7, <<9>>), Ext(-1, <<15, 15>>), Ext(-1, <<15, 7, 15>>),
          Ext(-1, <<1, 2, 3, 4>>)}
=============================================================================
