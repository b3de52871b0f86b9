----------------------------- MODULE MCTestList -----------------------------
(* Model-checking instance of the test-list generator.  Three files: the   *)
(* root F0 and two others, each an external entity or an included file,   *)
(* so that chains of two nested entities or includes, cycles of both, an  *)
(* entity inside an included file and a file included twice exist.         *)
(* MAX_EXPANSION_DEPTH is lowered from 5 and MAX_INCLUSION_DEPTH from 6 to *)
(* 1, so that the boundary between an accepted and a rejected nesting is   *)
(* reached with three files.  Suites: s1 with two cases, s2 with one, s1   *)
(* again with a repeated case, and sbad, whose name holds a "/".  Root     *)
(* tags: F0 a testsuites, document or other root, F1 a testsuites or a     *)
(* document root, F2 a testsuites root.                                    *)
EXTENDS TestList

CONSTANTS F0, F1, F2, s1, s2, sbad, s9, c1, c2, c9

Suite(n, cs) == [kind |-> "suite", name |-> n, cases |-> cs]
Skip(s, c) == [kind |-> "skip", suite |-> s, case |-> c]
Comment == [kind |-> "comment"]
Inc(f) == [kind |-> "inc", file |-> f]

SeqsUpTo2(S) == {<<>>} \cup {<<a>> : a \in S} \cup {<<a, b>> : a, b \in S}
SeqsUpTo1(S) == {<<>>} \cup {<<a>> : a \in S}

MCFiles == {F0, F1, F2}
MCBadNames == {sbad}
MCDocs ==
  [F0 : SeqsUpTo2({Ref(F1), Inc(F1), Inc(F2), Suite(s1, <<c1, c2>>), Suite(s2, <<c1>>),
                   Suite(s1, <<c1, c1>>), Suite(sbad, <<c1>>)}),
   F1 : SeqsUpTo1({Ref(F2), Inc(F0), Inc(F2), Suite(s2, <<c1>>)}),
   F2 : SeqsUpTo1({Ref(F2), Inc(F2), Suite(s1, <<c1, c2>>)})]
  \* as functions of Files
MCDocFns == {[f \in MCFiles |-> IF f = F0 THEN d.F0 ELSE IF f = F1 THEN d.F1 ELSE d.F2] : d \in MCDocs}
MCTags == {[f \in MCFiles |-> IF f = F0 THEN t0 ELSE IF f = F1 THEN t1 ELSE "testsuites"] :
             t0 \in {"testsuites", "document", "other"}, t1 \in {"testsuites", "document"}}
MCSkipPlat == {<<>>, <<Comment>>, <<Skip(s1, "")>>, <<Skip(s1, c2)>>, <<Skip(s2, c9)>>, <<Skip(s9, "")>>}
MCSkipArch == {<<>>, <<Skip(s1, c1)>>, <<Skip(s2, "")>>}
=============================================================================
