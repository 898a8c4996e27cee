---------------------------- MODULE MCChainSync ----------------------------
\* ChainSync for TLC: two shards and the beacon, two heights of which the
\* first is the beginning of the chain.
EXTENDS ChainSync

CONSTANTS s0, s1

\* Block 2 of s1 spends what block 2 of s0 sent it, and block 2 of the beacon
\* confirms both shards.
CrossRefs ==
  [b \in Chains \X Heights |->
     CASE b = <<s1, 2>>     -> {<<s0, 2>>}
       [] b = <<Beacon, 2>> -> {<<s0, 2>>, <<s1, 2>>}
       [] OTHER             -> {}]

SomeCoinV1 == {<<s0, 2>>}

ResumeOnly == <<"resume">>
PauseAndResume == <<"resume", "pause", "resume">>
=============================================================================
