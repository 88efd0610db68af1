-------------------------------- MODULE Index --------------------------------
(***************************************************************************)
(* What the database promises to the rest of Blockbook: while it is usable *)
(* it holds the index of one chain of blocks and nothing else; it grows by *)
(* one block at its end, is cut at its end, or goes through a bulk load    *)
(* during which it is unusable and after which the chain is longer.  A     *)
(* bulk load that does not end leaves it unusable for good, and so does    *)
(* one that loses data.                                                    *)
(***************************************************************************)
EXTENDS Integers, Sequences

CONSTANTS NColumns, Keys, Block, HeightOf, Touch, NoRow

VARIABLES
    status,   \* "usable", "loading" or "lost"
    chain, content

vars == <<status, chain, content>>

BlocksOf(s) == {s[i] : i \in 1 .. Len(s)}

\* The index of the chain s.
IndexOf(s) ==
    [rows |-> BlocksOf(s),
     col  |-> [c \in 1 .. NColumns |-> [k \in Keys |-> [b \in Block |->
                 IF b \in BlocksOf(s) /\ k \in Touch[c][b] THEN 1 ELSE 0]]]]

Init == status = "usable" /\ chain = <<>> /\ content = IndexOf(<<>>)

Connect(b) ==
    /\ status = "usable" /\ UNCHANGED status
    /\ HeightOf[b] = Len(chain) + 1
    /\ chain' = Append(chain, b)
    /\ content' = IndexOf(chain')

Disconnect(n) ==
    /\ status = "usable" /\ UNCHANGED status
    /\ n < Len(chain)
    /\ chain' = SubSeq(chain, 1, n)
    /\ content' = IndexOf(chain')

BeginBulk ==
    /\ status = "usable" /\ status' = "loading"
    /\ content' = NoRow
    /\ UNCHANGED chain

EndBulk ==
    /\ status = "loading" /\ status' = "usable"
    /\ Len(chain') >= Len(chain)
    /\ \A i \in 1 .. Len(chain') : HeightOf[chain'[i]] = i
    /\ \A i \in 1 .. Len(chain) : chain'[i] = chain[i]
    /\ content' = IndexOf(chain')

Lose ==
    /\ status = "loading" /\ status' = "lost"
    /\ chain' = <<>>
    /\ UNCHANGED content

Next ==
    \/ \E b \in Block : Connect(b)
    \/ \E n \in 0 .. Len(chain) : Disconnect(n)
    \/ BeginBulk
    \/ EndBulk
    \/ Lose

Spec == Init /\ [][Next]_vars
=============================================================================
