---------------------------- MODULE MCFavorites ----------------------------
(* Constants of the runs of Favorites.                                     *)
EXTENDS Favorites

CONSTANTS b1, b2

OneLegacy == <<b1>>
TwoLegacy == <<b1, b2>>
=============================================================================
