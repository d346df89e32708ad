----------------------------- MODULE MCDownload -----------------------------
(***************************************************************************)
(* Two peers: the first may leave at any time.                             *)
(***************************************************************************)
EXTENDS Download
CONSTANTS s1, s2
\* All have the whole chain but the second, which finds the last block.
\* CBlockLocator::Set: ten blocks, and then ever larger steps.
MCHave == 0 .. 10 \cup {9 + 2 ^ k : k \in 1 .. 4}
MCTip == [s \in Server |-> IF s = s2 THEN MaxHeight - 1 ELSE MaxHeight]
=============================================================================
