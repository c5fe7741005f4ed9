---------------------------- MODULE MCChainClient ----------------------------
(* A source that only reads, one that also relays, a seed gateway, and three *)
(* evonodes one of which lies.                                               *)
EXTENDS ChainClient, TLC

CONSTANTS hyphen, insight, seed, e1, e2, e3, reward, payment

MCPrimaries == <<hyphen, insight>>
MCYoung == <<reward, payment>>
Interchangeable == Permutations({e2, e3})
=============================================================================
