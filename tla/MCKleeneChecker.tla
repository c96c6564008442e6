--------------------------- MODULE MCKleeneChecker ---------------------------
(* Instances of KleeneChecker: atomic accesses to one address as letters.  *)
EXTENDS KleeneChecker

StoreAndLoad == {release_store_label(0, 1), acquire_load_label(0)}
=============================================================================
