------------------------------- MODULE MCFeed -------------------------------
(* Feed for TLC: clients, and the emitters other than the metrics loop, are     *)
(* interchangeable.                                                             *)
EXTENDS Feed, TLC

FeedSymmetry == Permutations(Conn) \union Permutations(Emitter \ {Loop})
=============================================================================
