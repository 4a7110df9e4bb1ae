----------------------------- MODULE MCScheduler -----------------------------
(***************************************************************************)
(* Instances of Scheduler for TLC: scan settings are records, which a      *)
(* configuration file cannot write down.  Intervals and windows are in     *)
(* units of 0.625 ms.                                                      *)
(***************************************************************************)
EXTENDS Scheduler

ShorterWindow == [interval |-> 33, window |-> 30]

\* A window as long as the interval, which gap_scan_start accepts
FullWindow == [interval |-> 4, window |-> 4]

\* An interval with room for three slow callbacks
ShortWindow == [interval |-> 120, window |-> 30]

AllSettings == {ShorterWindow, FullWindow, ShortWindow}
=============================================================================
