----------------------------- MODULE MCWishlist -----------------------------
(***************************************************************************)
(* Small instances of Wishlist for TLC.                                    *)
(***************************************************************************)
EXTENDS Wishlist, TLC
=============================================================================
