------------------------------ MODULE Nullable ------------------------------
(* The absent value every module shares: SQL NULL, Python None.            *)
CONSTANT NULL
=============================================================================
