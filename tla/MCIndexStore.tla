----------------------------- MODULE MCIndexStore -----------------------------
(***************************************************************************)
(* Two columns (a Bitcoin type coin), two keys, blocks b1 .. b4 and a fork *)
(* f2, f3 that touches other keys.                                         *)
(***************************************************************************)
EXTENDS IndexStore, TLC

CONSTANTS b1, b2, f2, b3, f3, b4, k1, k2

MCBlock    == {b1, b2, f2, b3, f3, b4}
MCKeys     == {k1, k2}
MCHeightOf == (b1 :> 1) @@ (b2 :> 2) @@ (f2 :> 2) @@ (b3 :> 3) @@ (f3 :> 3) @@ (b4 :> 4)
MCTouch    == <<(b1 :> {k1}) @@ (b2 :> {k1, k2}) @@ (f2 :> {k2}) @@ (b3 :> {k1})
                    @@ (f3 :> {k1, k2}) @@ (b4 :> {k2}),
                (b1 :> {k2}) @@ (b2 :> {k1}) @@ (f2 :> {k1, k2}) @@ (b3 :> {k2})
                    @@ (f3 :> {}) @@ (b4 :> {k1, k2})>>
MCMaxCached == <<1, 1>>
MCPartial   == <<1, 1>>

\* Nothing is promised once a Close has failed: such states are not left.
NotLost == ~lost
=============================================================================
