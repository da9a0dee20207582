------------------------------ MODULE MCContainment ------------------------------
(* An instance of Containment for TLC: corpora of two anchors, and of one that *)
(* is refused; the key k was changed and l was added.                          *)
EXTENDS Containment

CONSTANTS k, l, old, new

MCCorpora == {<<"concrete", "concrete">>, <<"concrete", "pattern">>, <<"outside">>, <<"no hint">>, <<"no prior">>}
MCCurrent == [x \in {k, l} |-> new]
MCPrior == [x \in {k, l} |-> IF x = k THEN old ELSE Absent]
\* What was asked for, a wrong value, a key forgotten, and the decoy overwritten.
MCBodies == {MCPrior, [x \in {k} |-> new], [x \in {k} |-> old], [x \in {Decoy} |-> old]}
=============================================================================
