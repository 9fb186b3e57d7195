----------------------------- MODULE MCRpcPool -----------------------------
\* A chain file that spells its RPC twice, and one with two RPCs.
EXTENDS RpcPool, TLC

CONSTANTS a, slash, b, A, B

MCEndpointOf == a :> A @@ slash :> A @@ b :> B
MCChainFiles == {{a, b}, {a, slash}}
=============================================================================
