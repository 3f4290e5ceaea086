--------------------------- MODULE MCCatalogCache ---------------------------
(* Instantiation of CatalogCache for TLC: two readers, one writer, two    *)
(* product versions after the first and one created product.             *)
EXTENDS CatalogCache

CONSTANTS r1, r2, w1

MCReaders == {r1, r2}
MCWriters == {w1}
=============================================================================
