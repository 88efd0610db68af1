--------------------------- MODULE MCBitcoinMempool ---------------------------
(***************************************************************************)
(* Three transactions: the first spends two outputs of one address that    *)
(* have the same number, the second spends the first, the third has no     *)
(* output with an address.  Two workers, so that answers come back in any  *)
(* order, and one subworker, so that inputs wait.                          *)
(***************************************************************************)
EXTENDS BitcoinMempool, TLC

CONSTANTS a1, a2
MCOuts == 1 :> <<a1, NoAddr>> @@ 2 :> <<a2, a1>> @@ 3 :> <<NoAddr>>
MCIns == 1 :> <<<<11, 0>>, <<12, 0>>>> @@ 2 :> <<<<1, 0>>>> @@ 3 :> <<<<13, 1>>>>
MCOutpointAddr == <<11, 0>> :> a2 @@ <<12, 0>> :> a2 @@ <<1, 0>> :> a1 @@ <<13, 1>> :> a2
MCIndexed == {<<12, 0>>}
=============================================================================
