---------------------------- MODULE MCOTAIndexer ----------------------------
\* OTAIndexer for TLC: two lives of a worker, two keys, three coins.
EXTENDS OTAIndexer, TLC

CONSTANTS w1, w2, k1, k2

\* Two coins of the first key fill a batch.
SomeOwners == 0 :> k1 @@ 1 :> k1 @@ 2 :> k2

\* One worker, one key and two coins.
Calm ==
  [lives |-> {w1}, atOnce |-> 1, keys |-> {k1}, stored |-> 0, coins |-> 2, fromNow |-> {FALSE},
   lost |-> 0, crash |-> 0, restart |-> 0, rescan |-> 0, orders |-> <<"resume">>]

Two == [Calm EXCEPT !.lives = {w1, w2}, !.atOnce = 2]

\* Two keys; a pause; a lost connection, of one worker or with another to turn to;
\* a worker that ends, the master that ends, and both; a rescan, of a key submitted
\* with FromNow, or with a lost connection.
SomeScenarios ==
  {[Calm EXCEPT !.keys = {k1, k2}, !.coins = 3],
   [Calm EXCEPT !.orders = <<"resume", "pause", "resume">>],
   [Calm EXCEPT !.lost = 1],
   [Two EXCEPT !.lost = 1, !.stored = 1, !.coins = 1],
   [Two EXCEPT !.crash = 1],
   [Calm EXCEPT !.restart = 1],
   [Calm EXCEPT !.crash = 1, !.restart = 1, !.lives = {w1, w2}, !.stored = 2],
   [Calm EXCEPT !.rescan = 1, !.fromNow = {TRUE}],
   [Calm EXCEPT !.rescan = 1, !.lost = 1, !.coins = 1]}
=============================================================================
