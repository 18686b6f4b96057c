---------------------------- MODULE MCCySession ----------------------------
(* The prompts are interchangeable; the batches differ in what may run        *)
(* together: two reads do, a bash call and a write do not.                    *)
EXTENDS CySession, TLC
CONSTANTS p1, p2
Prompts == {p1, p2}
SomeBatches == {<<"read", "read">>, <<"bash", "write">>}
PromptSymmetry == Permutations(Prompts)
=============================================================================
