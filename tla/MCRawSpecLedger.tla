-------------------------- MODULE MCRawSpecLedger --------------------------
(* Instances of RawSpecLedger for TLC. *)
EXTENDS RawSpecLedger, TLC

CONSTANTS slug1, slug2, c1, c2, s1, s2, s3

TwoApps == {<<slug1, "1">>, <<slug2, "1">>}

Interchangeable == Permutations(Specs) \cup Permutations(Syncs)
=============================================================================
