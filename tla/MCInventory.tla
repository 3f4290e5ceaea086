---------------------------- MODULE MCInventory ----------------------------
(* Instantiation of Inventory for TLC: one product, three reservation ids, *)
(* one or two concurrent CommitStock/ReleaseStock callers, one reaper.    *)
EXTENDS Inventory

CONSTANTS p1, r1, r2, r3, w1, w2, a1

MCProducts == {p1}
MCResIds == {r1, r2, r3}
MCWorkers == {w1, w2}
MCReapers == {a1}
MCDeltas == {1, -1}
MCWorkers1 == {w1}
MCNoDeltas == {}
=============================================================================
