----------------------------- MODULE MCChainedLog -----------------------------
(* Instances of ChainedLog for TLC: the automation server, which records the *)
(* alerts' firings, beside another process that extends the same file.       *)
EXTENDS ChainedLog, TLC

CONSTANTS server, job, r1, r2, r3

ServerFires == (server :> {r1}) @@ (job :> {})
OneServer == [w \in {server} |-> {r1, r2}]

NoBatches == {}
BatchOfTwo == {<<r2, r3>>}
=============================================================================
