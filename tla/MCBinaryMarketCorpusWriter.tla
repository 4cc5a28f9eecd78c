--------------------- MODULE MCBinaryMarketCorpusWriter ---------------------
(* Two shards, a budget that leaves room for a few rows before the quota,  *)
(* and a reserve for two pending rows and one new source.                  *)
EXTENDS BinaryMarketCorpusWriter, TLC

Symmetry == Permutations(Shard)
=============================================================================
