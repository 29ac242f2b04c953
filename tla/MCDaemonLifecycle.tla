-------------------------- MODULE MCDaemonLifecycle --------------------------
(* TLC instance of DaemonLifecycle: two daemons on one data directory, one     *)
(* after another or at once, one run or suite and one ingested span.           *)
EXTENDS DaemonLifecycle

CONSTANTS d1, d2, q1, q3

=============================================================================
