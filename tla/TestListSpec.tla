---------------------------- MODULE TestListSpec ----------------------------
(***************************************************************************)
(* What tools/generate_test_list/generate_test_list.py promises, stated    *)
(* without its parser: from the XML test list (a root file whose external  *)
(* entities and xi:include elements name other files, and the root tag    *)
(* of each), the platform and architecture skip files, it                  *)
(* either fails or emits the test tables of the suites it read, minus the  *)
(* skipped suites and test cases, numbered in file order.  The outcome is  *)
(* decided in one step; the detailed module TestList refines this one.     *)
(***************************************************************************)
EXTENDS Integers, Sequences, SequencesExt, FiniteSets

CONSTANTS
  Files,                \* XML files: the root, its entities and its includes
  Root,                 \* the file named on the command line
  BadNames,             \* suite names that contain "/"
  MAX_EXPANSION_DEPTH,  \* nesting allowed for external entities
  MAX_INCLUSION_DEPTH,  \* nesting allowed for xi:include (ElementInclude's default)
  Docs, Tags, PlatFiles, ArchFiles  \* the inputs the model enumerates

VARIABLES doc, tag, plat, arch, result
inputs == <<doc, tag, plat, arch>>
avars == <<inputs, result>>

Ref(f) == [kind |-> "ref", file |-> f]
(* The result: the outcome, and the tables once they are emitted.        *)
NoTables == [count |-> 0, protos |-> <<>>, lists |-> <<>>, suites |-> <<>>]
Pending == [state |-> "pending", tables |-> NoTables]
Failed == [state |-> "error", tables |-> NoTables]

(* g is an external entity referenced from file f.                        *)
Refers(f, g) == \E k \in DOMAIN doc[f] : doc[f][k] = Ref(g)

(* Some chain of MAX_EXPANSION_DEPTH + 1 nested entity references starts   *)
(* at file f (a cycle gives chains of every length).                       *)
TooDeep(f) ==
  \E p \in [1..MAX_EXPANSION_DEPTH + 1 -> Files] :
    /\ Refers(f, p[1])
    /\ \A i \in 1..MAX_EXPANSION_DEPTH : Refers(p[i], p[i + 1])

(* The testsuite and xi:include elements of file f with its entities       *)
(* substituted, in document order; d bounds the recursion, which never     *)
(* reaches 0 unless TooDeep(f).                                            *)
RECURSIVE Expand(_, _)
Expand(f, d) ==
  FlattenSeq([k \in DOMAIN doc[f] |->
    CASE doc[f][k].kind = "suite" -> <<[name |-> doc[f][k].name, cases |-> doc[f][k].cases]>>
      [] doc[f][k].kind = "inc"   -> <<doc[f][k]>>
      [] d = 0                    -> <<>>
      [] OTHER                    -> Expand(doc[f][k].file, d - 1)])

(* The suites an element n of a loaded file contributes, with the files p *)
(* of the include chain above it and md more levels of xi:include allowed: *)
(* a suite itself, or the suites of the file it includes; ok is FALSE when *)
(* an entity chain of some loaded file is too deep, or an include names a  *)
(* file of its own chain or exceeds the depth.                             *)
Fail == [ok |-> FALSE, suites |-> <<>>]
RECURSIVE Load(_, _, _), Sub(_, _, _)
Sub(n, p, md) ==
  CASE "cases" \in DOMAIN n     -> [ok |-> TRUE, suites |-> <<n>>]
    [] n.file \in p \/ md = 0   -> Fail
    [] OTHER                    -> Load(n.file, p \cup {n.file}, md - 1)

(* The suites of file f loaded with include chain p and depth md.          *)
Load(f, p, md) ==
  IF TooDeep(f) THEN Fail
  ELSE LET ns == Expand(f, MAX_EXPANSION_DEPTH)
       IN  [ok |-> \A k \in DOMAIN ns : Sub(ns[k], p, md).ok,
            suites |-> FlattenSeq([k \in DOMAIN ns |-> Sub(ns[k], p, md).suites])]

(* The suites read: every element of the root file is loaded, and each     *)
(* counts when the root is testsuites, or, under a document root, when it  *)
(* is an included file whose own root is testsuites.                       *)
Counts(n) == tag[Root] = "testsuites" \/ ("file" \in DOMAIN n /\ tag[n.file] = "testsuites")
Read ==
  IF TooDeep(Root) THEN Fail
  ELSE LET ns == Expand(Root, MAX_EXPANSION_DEPTH)
           part(k) == Sub(ns[k], {}, MAX_INCLUSION_DEPTH)
       IN  [ok |-> \A k \in DOMAIN ns : part(k).ok,
            suites |-> FlattenSeq([k \in DOMAIN ns |-> IF Counts(ns[k]) THEN part(k).suites ELSE <<>>])]

(* Suite names are free of "/" and distinct; case names are distinct       *)
(* within their suite.                                                     *)
NamesValid(ts) ==
  /\ \A i \in DOMAIN ts : ts[i].name \notin BadNames
  /\ IsInjective([i \in DOMAIN ts |-> ts[i].name])
  /\ \A i \in DOMAIN ts : IsInjective(ts[i].cases)

(* A suite is skipped by a line naming it alone; a case by a line naming   *)
(* its suite and itself, in either skip file.                              *)
SkipLines == {l \in ToSet(plat) \cup ToSet(arch) : l.kind = "skip"}
Kept ==
  LET ts == SelectSeq(Read.suites, LAMBDA t : [kind |-> "skip", suite |-> t.name, case |-> ""] \notin SkipLines)
  IN [i \in DOMAIN ts |->
        [name |-> ts[i].name,
         cases |-> SelectSeq(ts[i].cases,
                    LAMBDA c : [kind |-> "skip", suite |-> ts[i].name, case |-> c] \notin SkipLines)]]

(* The emitted tables: the number of test cases, the prototypes in order,  *)
(* per suite the list of <<global index, case>> and the suite list.        *)
Emitted(ts) ==
  LET before(i) == Len(FlattenSeq([j \in 1..(i - 1) |-> ts[j].cases]))
      all == FlattenSeq([i \in DOMAIN ts |-> ts[i].cases])
  IN [count  |-> Len(all),
      protos |-> all,
      lists  |-> [i \in DOMAIN ts |-> [j \in DOMAIN ts[i].cases |-> <<before(i) + j - 1, ts[i].cases[j]>>]],
      suites |-> [i \in DOMAIN ts |-> <<ts[i].name, i - 1>>]]

Outcome ==
  IF ~Read.ok \/ tag[Root] \notin {"testsuites", "document"} \/ ~NamesValid(Read.suites) THEN Failed ELSE [state |-> "done", tables |-> Emitted(Kept)]

AInit ==
  /\ doc \in Docs /\ tag \in Tags /\ plat \in PlatFiles /\ arch \in ArchFiles
  /\ result = Pending

(* One step decides the outcome, which is never Pending.                  *)
Decide == result = Pending /\ result' = Outcome /\ UNCHANGED inputs

ASafety == AInit /\ [][Decide]_avars

(* The generator is a run-once batch job: it decides.  Decide is enabled   *)
(* as long as the result is pending, so the fairness condition says the    *)
(* same as <>Decided.                                                      *)
Decided == result # Pending
ASpec == ASafety /\ WF_avars(Decide)
=============================================================================
