------------------------------ MODULE MCShopSend ------------------------------
(* Instances of ShopSend for TLC: sends are model values. *)
EXTENDS ShopSend

CONSTANTS s1, s2

ASSUME s1 # s2
=============================================================================
