---------------------------- MODULE MCIdempotency ----------------------------
(***************************************************************************)
(* Calls and fingerprints are interchangeable.                             *)
(***************************************************************************)
EXTENDS Idempotency, TLC

Symmetry == Permutations(Calls) \union Permutations(Hashes)

\* For the run about replays: without the key's expiry.
NothingExpires == ~row.expired
=============================================================================
