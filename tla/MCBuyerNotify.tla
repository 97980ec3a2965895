----------------------------- MODULE MCBuyerNotify -----------------------------
(***************************************************************************)
(* Small instances of BuyerNotify: two messages of one buyer or of two, up *)
(* to two sightings of the first one at a time, one target or two.         *)
(***************************************************************************)
EXTENDS BuyerNotify, TLC

CONSTANTS m1, m2, c1, c2, c3, v1, v2

Once == c1 :> m1
Twice == (c1 :> m1) @@ (c2 :> m1)
TwoAndOne == (c1 :> m1) @@ (c2 :> m1) @@ (c3 :> m2)
OneOfEach == (c1 :> m1) @@ (c3 :> m2)
OneMessage == m1 :> v1
TwoBuyers == (m1 :> v1) @@ (m2 :> v2)
OneBuyer == (m1 :> v1) @@ (m2 :> v1)
OneTarget == <<"a">>
TwoTargets == <<"a", "b">>
==============================================================================
