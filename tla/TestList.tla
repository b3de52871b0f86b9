------------------------------ MODULE TestList ------------------------------
(***************************************************************************)
(* tools/generate_test_list/generate_test_list.py, step by step.           *)
(*                                                                         *)
(* The inputs (doc, tag, plat, arch) are chosen in Init and never change;  *)
(* tag[f] is the root element of file f when it is loaded as a document.  *)
(* A file is a sequence of items under its root element: a                *)
(* testsuite element (its name and the names of its testcase elements), a *)
(* reference to an external entity (another file) or an xi:include element *)
(* naming another file.                                                    *)
(*                                                                         *)
(* A file is loaded by parse_xml_no_xinclude_expansion (lines 96-142):     *)
(* expat calls the entity handler of lines 119-132 at each reference and   *)
(* parses the entity inside that call, so the walk is a stack of           *)
(* <<file, position>> frames next to the global counter expansion_depth;   *)
(* the elements go to the global treebuilder (tree).  Then (line 167)      *)
(* ElementInclude.include walks the root's children: each xi:include is    *)
(* checked against the hrefs of the includes it lies in (_parent_hrefs)    *)
(* and against max_depth (6 by default), its file is loaded through the    *)
(* loader of lines 148-158 (a fresh parse, which resets treebuilder and    *)
(* expansion_depth), walked in turn, and put in place of the element.      *)
(* The include walk is a stack of frames holding a loaded tree and the     *)
(* index i of its loop.  The testsuite elements reach the IR in document   *)
(* order, which is the order findall(".//testsuite") returns them.         *)
(*                                                                         *)
(* The testsuite elements of a file and those its entities bring in are    *)
(* children of its root element (entities hold no testsuites wrapper).     *)
(* A skip file that is not given behaves as an empty one.  The function attribute of a test *)
(* case is identified with the case.                                       *)
(***************************************************************************)
EXTENDS Integers, Sequences, SequencesExt, FiniteSets

CONSTANTS Files, Root, BadNames, MAX_EXPANSION_DEPTH, MAX_INCLUSION_DEPTH,
          Docs, Tags, PlatFiles, ArchFiles

VARIABLES
  doc, tag, plat, arch,   \* the inputs
  stage,    \* "parse", "include", "check", "plat", "arch", "emit", "done", "error"
  stack,    \* expat's nesting: <<file, next position>> frames, root first
  depth,    \* the global expansion_depth
  tree,     \* the elements the global treebuilder has received
  istack,   \* ElementInclude's recursion: [nodes, pos] frames, root first
  parents,  \* _parent_hrefs
  suites,   \* main's testsuites list: [name, cases] records
  skipPos,  \* the line of the skip file being read
  out       \* the emitted tables, once stage = "done"

inputs == <<doc, tag, plat, arch>>
parseVars == <<stack, depth, tree>>
inclVars == <<istack, parents>>
vars == <<inputs, stage, parseVars, inclVars, suites, skipPos, out>>

NoOutput == [count |-> 0, protos |-> <<>>, lists |-> <<>>, suites |-> <<>>]

(* A reference to the external entity held in file f.                    *)
Ref(f) == [kind |-> "ref", file |-> f]

(* Lines 96-108: a file is opened and a fresh parser, treebuilder and      *)
(* expansion_depth set up.                                                 *)
StartParse(f) ==
  /\ stack' = <<[file |-> f, pos |-> 1]>>
  /\ depth' = 0
  /\ tree' = <<>>

Init ==
  /\ doc \in Docs /\ tag \in Tags /\ plat \in PlatFiles /\ arch \in ArchFiles
  /\ stage = "parse"
  /\ stack = <<[file |-> Root, pos |-> 1]>> /\ depth = 0 /\ tree = <<>>
  /\ istack = <<>> /\ parents = {}
  /\ suites = <<>>
  /\ skipPos = 1
  /\ out = NoOutput

Top == stack[Len(stack)]
Exhausted == Top.pos > Len(doc[Top.file])
Item == doc[Top.file][Top.pos]
Advance == [stack EXCEPT ![Len(stack)].pos = @ + 1]

-----------------------------------------------------------------------------
(* Loading a file, lines 96-142.                                           *)

(* Lines 110-117: a testsuite element with its testcases, or (line 112)    *)
(* an xi:include element, renamed so that ElementInclude finds it.         *)
StartElement ==
  /\ stage = "parse" /\ ~Exhausted /\ Item.kind \in {"suite", "inc"}
  /\ stack' = Advance
  /\ tree' = Append(tree, Item)
  /\ UNCHANGED <<inputs, stage, depth, inclVars, suites, skipPos, out>>

(* Seeded bug for TypeOK: the depth check of line 127 is missing.         *)
ExternalEntityRefUnchecked ==
  /\ stage = "parse" /\ ~Exhausted /\ Item.kind = "ref"
  /\ depth' = depth + 1
  /\ stack' = Append(Advance, [file |-> Item.file, pos |-> 1])
  /\ UNCHANGED <<inputs, stage, tree, inclVars, suites, skipPos, out>>

(* Lines 119-130: the counter is raised before the check, and the          *)
(* ValueError propagates out of the parse and ends the process.            *)
ExternalEntityRef ==
  /\ stage = "parse" /\ ~Exhausted /\ Item.kind = "ref"
  /\ depth' = depth + 1
  /\ \/ depth' > MAX_EXPANSION_DEPTH /\ stage' = "error" /\ UNCHANGED stack
     \/ /\ depth' <= MAX_EXPANSION_DEPTH
        /\ stack' = Append(Advance, [file |-> Item.file, pos |-> 1])
        /\ UNCHANGED stage
  /\ UNCHANGED <<inputs, tree, inclVars, suites, skipPos, out>>

(* Seeded bug for DepthTracksNesting: the decrement of line 131 is lost.  *)
EndEntityNoDecrement ==
  /\ stage = "parse" /\ Exhausted /\ Len(stack) > 1
  /\ stack' = Front(stack)
  /\ UNCHANGED <<inputs, stage, depth, tree, inclVars, suites, skipPos, out>>

(* Lines 130-132: the entity is parsed; the counter is lowered.            *)
EndEntity ==
  /\ stage = "parse" /\ Exhausted /\ Len(stack) > 1
  /\ stack' = Front(stack)
  /\ depth' = depth - 1
  /\ UNCHANGED <<inputs, stage, tree, inclVars, suites, skipPos, out>>

(* Lines 140-142: the file is parsed and its tree returned, to line 163    *)
(* for the root file, to ElementInclude through the loader of line 158     *)
(* for an included one; either way include walks it next.                  *)
EndDocument ==
  /\ stage = "parse" /\ Exhausted /\ Len(stack) = 1
  /\ stage' = "include"
  /\ istack' = Append(istack, [nodes |-> tree, pos |-> 1])
  /\ UNCHANGED <<inputs, parseVars, parents, suites, skipPos, out>>

-----------------------------------------------------------------------------
(* ElementInclude.include(root, loader=loader), line 167: the loop of      *)
(* _include over the children of a loaded tree.                           *)

Frame == istack[Len(istack)]
FrameDone == Frame.pos > Len(Frame.nodes)
Node == Frame.nodes[Frame.pos]
NextNode == [istack EXCEPT ![Len(istack)].pos = @ + 1]

(* Seeded bug for Terminates: the loop of _include does not advance i.    *)
IncludeOtherNoAdvance ==
  /\ stage = "include" /\ ~FrameDone /\ Node.kind = "suite"
  /\ UNCHANGED vars

(* A testsuite element: _include descends into it, and its testcase        *)
(* children hold no include.                                               *)
IncludeOther ==
  /\ stage = "include" /\ ~FrameDone /\ Node.kind = "suite"
  /\ istack' = NextNode
  /\ UNCHANGED <<inputs, stage, parseVars, parents, suites, skipPos, out>>

(* An xi:include element: FatalIncludeError if its href is one of the      *)
(* includes it lies in, LimitedRecursiveIncludeError when max_depth, one   *)
(* less per level below the root, is 0; else the href joins _parent_hrefs  *)
(* and the loader parses the file.                                         *)
IncludeStart ==
  /\ stage = "include" /\ ~FrameDone /\ Node.kind = "inc"
  /\ \/ Node.file \in parents /\ stage' = "error" /\ UNCHANGED <<parseVars, parents>>
     \/ /\ Node.file \notin parents /\ Len(istack) - 1 = MAX_INCLUSION_DEPTH
        /\ stage' = "error" /\ UNCHANGED <<parseVars, parents>>
     \/ /\ Node.file \notin parents /\ Len(istack) - 1 < MAX_INCLUSION_DEPTH
        /\ parents' = parents \cup {Node.file}
        /\ StartParse(Node.file)
        /\ stage' = "parse"
  /\ UNCHANGED <<inputs, istack, suites, skipPos, out>>

(* The included tree is walked: its href leaves _parent_hrefs and its root *)
(* element takes the place of the xi:include element (elem[i] = node),     *)
(* then i += 1.  Below a child of the root file's root element, only that  *)
(* child's tag matters to findall (lines 70, 172), so the nodes spliced    *)
(* into the root frame record it as top.                                   *)
IncludeEnd ==
  /\ stage = "include" /\ FrameDone /\ Len(istack) > 1
  /\ LET up   == istack[Len(istack) - 1]
         file == up.nodes[up.pos].file
         done == IF Len(istack) = 2
                 THEN [i \in DOMAIN Frame.nodes |-> Frame.nodes[i] @@ [top |-> tag[file]]]
                 ELSE Frame.nodes
     IN  /\ parents' = parents \ {file}
         /\ istack' = [Front(istack) EXCEPT ![Len(istack) - 1] =
                         [nodes |-> SubSeq(up.nodes, 1, up.pos - 1) \o done
                                      \o SubSeq(up.nodes, up.pos + 1, Len(up.nodes)),
                          pos |-> up.pos + Len(done)]]
  /\ UNCHANGED <<inputs, stage, parseVars, suites, skipPos, out>>

(* Lines 68-86: findall(".//testsuite") under an element, in document      *)
(* order, each suite with its testcases.                                  *)
ParseTestsuitesElementIntoIR(ns) ==
  [i \in DOMAIN ns |-> [name |-> ns[i].name, cases |-> ns[i].cases]]

(* Lines 169-179: a testsuites root is read whole; under a document root,  *)
(* findall("testsuites") keeps the children whose tag is testsuites, which *)
(* are the included files with that root tag: a suite directly under the   *)
(* document root, or in a file included with a document root, is dropped. *)
TestsuitesElements(ns) ==
  IF tag[Root] = "testsuites" THEN ns
  ELSE SelectSeq(ns, LAMBDA n : "top" \in DOMAIN n /\ n.top = "testsuites")

(* Lines 163-181: the root's includes are done; its tag must be testsuites *)
(* or document (line 174).                                                 *)
IncludeDone ==
  /\ stage = "include" /\ FrameDone /\ Len(istack) = 1
  /\ \/ tag[Root] \notin {"testsuites", "document"} /\ stage' = "error" /\ UNCHANGED suites
     \/ /\ tag[Root] \in {"testsuites", "document"} /\ stage' = "check"
        /\ suites' = ParseTestsuitesElementIntoIR(TestsuitesElements(Frame.nodes))
  /\ UNCHANGED <<inputs, parseVars, inclVars, skipPos, out>>

(* Lines 184-205: a "/" in a suite name, two suites or two cases of one    *)
(* suite with the same name raise ValueError.                              *)
NamesValid(ts) ==
  /\ \A i \in DOMAIN ts : ts[i].name \notin BadNames
  /\ \A i, j \in DOMAIN ts : i < j => ts[i].name # ts[j].name
  /\ \A i \in DOMAIN ts : \A j, k \in DOMAIN ts[i].cases : j < k => ts[i].cases[j] # ts[i].cases[k]

CheckValidityOfNames ==
  /\ stage = "check"
  /\ stage' = IF NamesValid(suites) THEN "plat" ELSE "error"
  /\ UNCHANGED <<inputs, parseVars, inclVars, suites, skipPos, out>>

-----------------------------------------------------------------------------
(* remove_skipped_tests, lines 208-247, over the platform file, then the   *)
(* architecture file (lines 334-338).  Main's list is replaced by the      *)
(* returned one; the cases are removed in place from the same TestSuite    *)
(* objects, so one list variable stands for both.                          *)

SkipFile == IF stage = "plat" THEN plat ELSE arch
Line == SkipFile[skipPos]

(* The first suite of ts named n, or 0 (find_element_..._or_return_none). *)
Find(ts, n) == IF \E i \in DOMAIN ts : ts[i].name = n
               THEN CHOOSE i \in DOMAIN ts : ts[i].name = n /\ \A j \in 1..(i - 1) : ts[j].name # n
               ELSE 0

(* One line of the skip file: a comment, a suite, or suite/case; the       *)
(* WARNING paths (no such suite or case) leave the list as it is.          *)
SkipLine ==
  /\ stage \in {"plat", "arch"} /\ skipPos <= Len(SkipFile)
  /\ skipPos' = skipPos + 1
  /\ LET l == Line  i == Find(suites, l.suite) IN
     \/ l.kind = "comment" /\ UNCHANGED suites
     \/ l.kind = "skip" /\ i = 0 /\ UNCHANGED suites
     \/ /\ l.kind = "skip" /\ i # 0 /\ l.case = ""
        /\ suites' = SelectSeq(suites, LAMBDA t : t.name # l.suite)
     \/ /\ l.kind = "skip" /\ i # 0 /\ l.case # ""
        /\ ~\E k \in DOMAIN suites[i].cases : suites[i].cases[k] = l.case
        /\ UNCHANGED suites
     \/ /\ l.kind = "skip" /\ i # 0 /\ l.case # ""
        /\ \E k \in DOMAIN suites[i].cases :
             /\ suites[i].cases[k] = l.case
             /\ \A m \in 1..(k - 1) : suites[i].cases[m] # l.case
             /\ suites' = [suites EXCEPT ![i].cases = RemoveAt(@, k)]
  /\ UNCHANGED <<inputs, stage, parseVars, inclVars, out>>

SkipFileDone ==
  /\ stage \in {"plat", "arch"} /\ skipPos > Len(SkipFile)
  /\ stage' = IF stage = "plat" THEN "arch" ELSE "emit"
  /\ skipPos' = 1
  /\ UNCHANGED <<inputs, parseVars, inclVars, suites, out>>

-----------------------------------------------------------------------------
(* Lines 250-283 and 340-363: the tables.                                  *)

(* Seeded bug for ImplementsTestListSpec: each suite numbers its cases    *)
(* from 0, as if testcase_index were reset per suite.                      *)
ListStepPerSuite(acc, t) ==
  [index |-> acc.index + Len(t.cases),
   lists |-> Append(acc.lists, [j \in DOMAIN t.cases |-> <<j - 1, t.cases[j]>>])]

(* Lines 255-270: testcases_i, numbered by the running testcase_index.     *)
ListStep(acc, t) ==
  [index |-> acc.index + Len(t.cases),
   lists |-> Append(acc.lists, [j \in DOMAIN t.cases |-> <<acc.index + j - 1, t.cases[j]>>])]
TestcaseLists(ts) == FoldLeft(ListStep, [index |-> 0, lists |-> <<>>], ts).lists

(* Lines 273-283: the suite list, entry i pointing at testcases_i.         *)
SuiteList(ts) == [i \in DOMAIN ts |-> <<ts[i].name, i - 1>>]

(* Lines 340-363: the cases flattened in suite order, their count and     *)
(* prototypes (lines 250-252), the per-suite lists and the suite list.    *)
Generate ==
  /\ stage = "emit"
  /\ LET combined == FlattenSeq([i \in DOMAIN suites |-> suites[i].cases])
     IN out' = [count  |-> Len(combined),
                protos |-> combined,
                lists  |-> TestcaseLists(suites),
                suites |-> SuiteList(suites)]
  /\ stage' = "done"
  /\ UNCHANGED <<inputs, parseVars, inclVars, suites, skipPos>>

(* The process has exited.                                                 *)
Exited == stage \in {"done", "error"} /\ UNCHANGED vars

Next ==
  \/ StartElement \/ ExternalEntityRef \/ EndEntity \/ EndDocument
  \/ IncludeOther \/ IncludeStart \/ IncludeEnd \/ IncludeDone
  \/ CheckValidityOfNames \/ SkipLine \/ SkipFileDone \/ Generate \/ Exited

(* A single-threaded run-once process keeps taking its next step.          *)
Spec == Init /\ [][Next]_vars /\ WF_vars(Next)

-----------------------------------------------------------------------------
TypeOK ==
  /\ stage \in {"parse", "include", "check", "plat", "arch", "emit", "done", "error"}
  /\ parents \in SUBSET Files /\ Len(istack) <= MAX_INCLUSION_DEPTH + 1
  /\ stack \in Seq([file : Files, pos : Nat]) /\ stack # <<>>
  /\ depth \in 0..MAX_EXPANSION_DEPTH + 1
  /\ skipPos \in Nat \ {0}

(* While expat is inside nested entities, expansion_depth counts them: it  *)
(* is raised on entry (line 126) and lowered only after the entity parsed  *)
(* (line 131), so sibling entities do not add up.                          *)
DepthTracksNesting == stage = "parse" => depth = Len(stack) - 1

(* The generator implements the safety part of TestListSpec: the tables   *)
(* it emits are those of the suites read, minus the skipped ones, and it   *)
(* fails exactly when an entity chain of a loaded file is deeper than      *)
(* MAX_EXPANSION_DEPTH, an include is recursive or deeper than             *)
(* MAX_INCLUSION_DEPTH, the root tag is wrong or a name is invalid; under *)
(* a document root it reads only the suites of included testsuites files. *)
Abstract == INSTANCE TestListSpec
  WITH result <- [state  |-> IF stage \in {"done", "error"} THEN stage ELSE "pending",
                  tables |-> out]
ImplementsTestListSpec == Abstract!ASafety

(* The fairness part of TestListSpec: every run of the generator ends,     *)
(* even over a cycle of entities or includes, which only the depth bound   *)
(* of line 127 and ElementInclude's checks stop.                           *)
Terminates == <>Abstract!Decided
=============================================================================
