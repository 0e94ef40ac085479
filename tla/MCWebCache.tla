------------------------------ MODULE MCWebCache ------------------------------
(* The start, base and prelude code, which is predefined, a zettel with more *)
(* code, which may need the start code again, and the templates of a page    *)
(* and of an error.                                                         *)
EXTENDS WebCache

MCPredefined == [z \in {1, 2, 3, 5, 6} |-> CASE z = 1 -> <<2>> [] z = 2 -> <<3>> [] OTHER -> <<>>]
MCContents == [z \in {1, 4, 5} |-> CASE z = 1 -> {<<4>>, <<2, 4>>} [] z = 4 -> {<<>>, <<1>>, <<3>>} [] z = 5 -> {<<>>}]

(* Reports are delivered and requests answered: a load that fails leaves    *)
(* the mutex to others, and a cycle of zettel does not keep it busy.        *)
IsDelivered == <>[]Calm
RequestsEnd == \A w \in Workers : ~At(w, "idle") ~> At(w, "idle")

(* Both: neither the notifier nor a request waits for ever for the mutex.   *)
IsAnswered == IsDelivered /\ RequestsEnd
=============================================================================
