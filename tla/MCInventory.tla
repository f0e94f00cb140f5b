----------------------------- MODULE MCInventory -----------------------------
(***************************************************************************)
(* One product on the shelves of two branches.                             *)
(***************************************************************************)
EXTENDS Inventory

CONSTANTS shampoo, centre, beach

MCSales == {<<<<<<shampoo, centre>>, 2>>>>}
=============================================================================
