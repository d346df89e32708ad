----------------------------- MODULE MCAddrMan ------------------------------
(***************************************************************************)
(* Small tables for AddrMan: services at a few hosts, one host with two    *)
(* ports, and as many new buckets as there are sources.                    *)
(***************************************************************************)
EXTENDS AddrMan

MCHost == [a \in Service |-> IF a = "a1b" THEN "a1" ELSE a]

\* Every service hashes to the same tried bucket, or to one of two.
MCTried == [a \in Service |-> IF a = "a3" THEN ADDRMAN_TRIED_BUCKET_COUNT - 1 ELSE 0]

\* The source decides the new bucket, except for a2.
SourceRank == [a1 |-> 0, a2 |-> 1, a3 |-> 2, a4 |-> 3]
MCNew == [a \in Service |-> [s \in NetAddr |->
            (SourceRank[s] + (IF a = "a2" THEN 1 ELSE 0)) % ADDRMAN_NEW_BUCKET_COUNT]]
=============================================================================
