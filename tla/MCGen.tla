------------------------------- MODULE MCGen --------------------------------
(* Model-checking instance of the generate_smc.py driver, over the same    *)
(* names as MCSmc.                                                         *)
EXTENDS SmcGenerate, CoverageTool

CONSTANTS A, B, L1, L2, x, y, UX, UY, SDEI, id1, id9

MCCallNames == {A, B}
MCLabels == {L1, L2}
MCFieldNames == {x, y}
MCFeatureOf == [c \in MCCallNames |-> SDEI]
MCUpperOf == (x :> UX) @@ (y :> UY)

(* Log lines: the fid of the one call id (value 5) or of no call (value 2), *)
(* arg7, the last register a line reports, odd or even, arg1 .. arg6 zero; *)
(* logs of one or two lines.  The registers of MCGen.cfg are 6 to 8.      *)
MCFidValue == (id1 :> 5) @@ (id9 :> 2)
MCLogLines == {[fid |-> f, arg |-> [i \in 1..7 |-> IF i = 7 THEN a ELSE 0]] : f \in {id1, id9}, a \in {1, 2}}
MCLogs == {<<l>> : l \in MCLogLines} \cup {<<l, m>> : l, m \in MCLogLines}

Symmetry == Permutations(MCCallNames) \cup Permutations(MCLabels)
=============================================================================
