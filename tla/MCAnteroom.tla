----------------------------- MODULE MCAnteroom -----------------------------
(* Instances of Anteroom: four zettel, one of them never indexed.           *)
EXTENDS Anteroom

MCZids == 1 .. 4
MCNeverIndexed == {4}
=============================================================================
