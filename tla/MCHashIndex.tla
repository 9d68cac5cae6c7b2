---------------------------- MODULE MCHashIndex ----------------------------
(* An instance of HashIndex for TLC: four hashes, two of the same prefix,  *)
(* and a prefix that no hash has; databases with nothing to index, with    *)
(* repeated hashes, with rows that cannot be parsed, and without a hash of *)
(* a prefix in the middle.  One callback may stop at any row.              *)
EXTENDS HashIndex

MCHashes == {1, 2, 4, 8}

MCPrefix == [h \in MCHashes |-> h \div 3]

MCQueries ==
  {[type |-> "md5", hash |-> 1, quick |-> FALSE, all |-> TRUE],
   [type |-> "md5", hash |-> 1, quick |-> FALSE, all |-> FALSE],
   [type |-> "md5", hash |-> 2, quick |-> TRUE, all |-> TRUE],
   [type |-> "md5", hash |-> 4, quick |-> FALSE, all |-> TRUE],
   [type |-> "sha1", hash |-> 1, quick |-> TRUE, all |-> TRUE]}

MCDatabases ==
  {<<Junk>>, <<4, 4>>, <<1, 4, 1, 8, 1>>, <<8, 1, Junk, 4>>, <<2, 4, 1, 8, 1, 1>>}
=============================================================================
