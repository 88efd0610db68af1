------------------------------ MODULE MCBackend ------------------------------
(* Five clients, and a node with a few transactions and blocks. *)
EXTENDS Backend

CONSTANT t1

OneTx == <<t1>>
AllCoins == {"btcParse", "btcFull", "skyr", "nuls", "eth"}

\* What is read of a token does not depend on the chain: tokens are looked at with
\* the first block only.
TokensApart == token \/ contract # "unset" => Len(blocks) = 1
=============================================================================
