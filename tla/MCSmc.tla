------------------------------- MODULE MCSmc -------------------------------
(* Model-checking instance of the reader and of both emitters.  Names are  *)
(* model values; the model never looks inside a name, so permuting each    *)
(* set of names is a symmetry of the specification.                        *)
EXTENDS FieldSpecification

CONSTANTS A, B, L1, L2, x, y, UX, UY, SDEI

MCCallNames == {A, B}
MCLabels == {L1, L2}
MCFieldNames == {x, y}
MCFeatureOf == [c \in MCCallNames |-> SDEI]
(* Distinct field names stay distinct once upper-cased.                    *)
MCUpperOf == (x :> UX) @@ (y :> UY)

Symmetry == Permutations(MCCallNames) \cup Permutations(MCLabels)
====
