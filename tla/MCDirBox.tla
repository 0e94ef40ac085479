------------------------------ MODULE MCDirBox ------------------------------
(* Instances of DirBox: one zettel with several files, one to be created.   *)
EXTENDS DirBox

CONSTANTS z1, z2, none, c1, c2

A == "00000000000001"   \* the identifiers of z1 and z2
B == "00000000000002"
X == "readme"

(* A content file, with and without metadata file, in one file, a better    *)
(* one, and one whose name hides that it is metadata.                       *)
MCNames == {<<A>>, <<A, "zettel">>, <<A, "txt">>, <<A, "zmk">>,
            <<B>>, <<B, "zettel">>, <<B, "txt">>, <<B, "zmk">>}
MCOrder == << <<A>>, <<A, "txt">>, <<A, "zettel">>, <<A, "zmk">>,
              <<B>>, <<B, "txt">>, <<B, "zettel">>, <<B, "zmk">> >>
MCRank == [n \in MCNames |-> CHOOSE i \in DOMAIN MCOrder : MCOrder[i] = n]
MCSize == [n \in MCNames |-> Len(n)]
MCZidOf == [n \in MCNames |-> IF n[1] = A THEN z1 ELSE IF n[1] = B THEN z2 ELSE none]
MCZidName == [z \in {z1, z2} |-> IF z = z1 THEN <<A>> ELSE <<B>>]
MCSyntax == [zmk |-> {"ast", "text", "primary"}, txt |-> {"text"}]
MCExtRank == [txt |-> 1, zmk |-> 2, zettel |-> 3]
MCKinds == {[ext |-> "zettel", extWithMeta |-> "zmk", full |-> TRUE],
            [ext |-> "txt", extWithMeta |-> "txt", full |-> TRUE]}
MCWorkerOf == [z \in {z1, z2} |-> IF z = z1 THEN 1 ELSE 2]
MCBudget(outside, moves, calls, refreshes, timeouts, failures) ==
    [outside |-> outside, moves |-> moves, calls |-> calls, refreshes |-> refreshes,
     timeouts |-> timeouts, failures |-> failures]
From(files, b) == {[files |-> S, budget |-> b] : S \in files}
MCScenarios ==
    \* Other programs change files, the directory is scanned again.
    From(SUBSET {n \in MCNames : n[1] = A}, MCBudget(2, 0, 0, 1, 0, 0))
    \* The directory comes and goes.
    \union From({{<<B, "zettel">>}}, MCBudget(0, 3, 0, 1, 0, 0))
    \union From({{<<B, "zettel">>}}, MCBudget(0, 2, 1, 0, 0, 0))
    \* Two calls at the same time, or one during a scan.
    \union From({{}, {<<B>>, <<B, "txt">>}}, MCBudget(0, 0, 2, 0, 0, 0))
    \union From({{<<A, "zettel">>}}, MCBudget(0, 0, 1, 1, 0, 0))
    \* A call is given up, or a file cannot be written.
    \union From({{<<B, "zettel">>}}, MCBudget(0, 0, 2, 0, 1, 0))
    \union From({{<<A, "zettel">>}}, MCBudget(0, 0, 1, 0, 0, 1))
    \* A zettel is changed and read, or deleted, and meanwhile the directory is
    \* scanned, comes and goes, or something fails.
    \union From({{<<B>>, <<B, "txt">>}}, MCBudget(0, 0, 2, 1, 0, 0))
    \union From({{<<A>>, <<A, "txt">>}}, MCBudget(0, 1, 2, 0, 0, 0))
    \union From({{<<A>>, <<A, "txt">>}}, MCBudget(0, 0, 2, 0, 1, 1))

(* Two calls create a zettel, while the directory is scanned again.         *)
MCRescan == From({{}}, MCBudget(0, 0, 2, 1, 0, 0))
=============================================================================
