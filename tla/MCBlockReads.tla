---------------------------- MODULE MCBlockReads ----------------------------
(* BlockReads on small instances. *)
EXTENDS BlockReads, TLC

MCCollections == {"transactions", "receipts"}
MCOps == {"block_number", "block", "count", "receipts", "tx_by_index"}
MCHash == {ZeroHash, 1}
MCWithdrawn == {1}

Symmetry == Permutations(Tx)
=============================================================================
