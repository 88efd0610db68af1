------------------------------ MODULE ChainIndex ------------------------------
(***************************************************************************)
(* The database serves both types of chains.  GetChainType of the parser   *)
(* is fixed when the process starts and selects, in ConnectBlock, in       *)
(* BulkConnect and in DisconnectBlocks of the synchronization, the index   *)
(* that is kept: that of AddressIndex or that of EthereumIndex.            *)
(***************************************************************************)
EXTENDS AddressIndex

CONSTANTS EthTx, From, To, Transfers, EthAddr, Zero, Missing, Bad, NoContracts,
          MaxEthHeight, MaxEthBlockTxs

VARIABLES chainType, blocks, history, contracts, blockTxs

Eth == INSTANCE EthereumIndex

ethVars == <<blocks, history, contracts, blockTxs>>
chainVars == <<chainType, vars, ethVars>>

ChainInit ==
    /\ chainType \in {"ChainBitcoinType", "ChainEthereumType"}
    /\ Init
    /\ Eth!Init

ChainNext ==
    /\ UNCHANGED chainType
    /\ \/ chainType = "ChainBitcoinType" /\ Next /\ UNCHANGED ethVars
       \/ chainType = "ChainEthereumType" /\ Eth!Next /\ UNCHANGED vars

-----------------------------------------------------------------------------
\* The Ethereum-type index has no empty rows, and no count is below one.
EthTypeOK == Eth!TypeOK

\* After any sequence of connects, bulk connects and disconnects the numbers of
\* transactions and of token transfers of an address are those of the chain.
EthCountsExact == Eth!CountsExact

\* The history of an address has its transactions, each under the height of its
\* block, and an index for every role the address has in the transaction.
EthHistoryExact == Eth!HistoryExact

\* An index in the history of an address leads to the contract that was meant
\* when it was written, whatever disconnected blocks took out of the list since.
EthIndexesResolve == Eth!IndexesResolve

\* DisconnectBlockRangeEthereumType "removes all data belonging to blocks in
\* range lower-higher": no row of the history is of a block that was disconnected.
EthDisconnectRemovesAll == Eth!DisconnectRemovesAll
=============================================================================
