---------------------------- MODULE MCBulkBatch ----------------------------
(* Batches of three or four items with one other caller, for TLC. *)
EXTENDS BulkBatch

CONSTANTS k1, other

MCCallers == Items \cup {other}
LoneCallers == Items

UniformCost == <<2>>     \* one write per item
ReadWriteCost == <<1, 3>> \* a read and then a write per item
============================================================================
