----------------------------- MODULE MCCommerce ----------------------------
(* Checkouts and contracts with the constants of the .cfg file *)
EXTENDS Commerce
=============================================================================
