-------------------------- MODULE MCEthereumMempool --------------------------
(***************************************************************************)
(* One transaction, which creates a contract that moves tokens as it is    *)
(* created: the receipt names an address that the data do not.             *)
(***************************************************************************)
EXTENDS EthereumMempool, TLC

CONSTANTS a1, a2
MCFrom == 1 :> a1
MCTo == 1 :> NoAddr
MCPayload == 1 :> <<>>
MCLogs == 1 :> <<[from |-> a1, to |-> a2]>>
=============================================================================
