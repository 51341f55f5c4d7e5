--------------------------------- MODULE MCRtc ---------------------------------
(***************************************************************************)
(* Times for RtcDriver around a minute and around midnight, so that ticks  *)
(* carry, and a few seconds apart, so that a chip set behind the driver's  *)
(* back passes for one that ticked.  24:00:00 is invalid.                  *)
(***************************************************************************)
EXTENDS RtcProperties

At(h, m, s) == [hour |-> h, minute |-> m, second |-> s]

MCStartTimes == {At(23, 59, 58)}
MCSetTimes   == {At(23, 59, 58), At(0, 0, 1), At(24, 0, 0)}
================================================================================
