---------------------------- MODULE MCProcessEnd ----------------------------
(* Two loggers of two records: one can be constructed during the shutdown,   *)
(* and a record can arrive while another one is flushed.                     *)
EXTENDS ProcessEnd

=============================================================================
