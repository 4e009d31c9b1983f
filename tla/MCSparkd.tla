------------------------------ MODULE MCSparkd ------------------------------
(* Small instances of Sparkd for TLC. *)
EXTENDS Sparkd, TLC

Symmetry == Permutations(Clients)

Always == {TRUE}
BothForms == {"both"}
TurnForms == {"turn"}
Never == {FALSE}
AnyForm == {"both", "turn", "thread", "none"}
OneRefusal == {"auth"}
=============================================================================
