----------------------------- MODULE MCLogFeed ------------------------------
(* LogFeed with interchangeable messengers. *)
EXTENDS LogFeed, TLC

Interchangeable == Permutations(Clients)
=============================================================================
