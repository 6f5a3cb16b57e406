---------------------------- MODULE MCDayCycles ----------------------------
(* DayCycles on small sets, for TLC: a day of six half hours, and profiles  *)
(* whose windows touch the ends of the day, overlap, or lie outside of it.  *)
EXTENDS DayCycles

MCSetting == {[wake |-> 5, sleep |-> 0], [wake |-> 5, sleep |-> 5],
              [wake |-> 0, sleep |-> 1], [wake |-> 3, sleep |-> 2]}
=============================================================================
