# TLA+ models of the SMC fuzzer interface generator

This directory holds TLA+ models of the SMC description compiler in
`src/smc_fuzz/script/`, its coverage tool, and the test-list generator in
`src/tools/generate_test_list/`, with the TLC configurations that check them.
The compiler reads a line-oriented DSL and writes two C headers. The models are translated
from the Python source. `spec.md` is the yardstick for the properties.

## The system

| Part | Source | What it does |
|---|---|---|
| Grammar reader | `readsmclist.py` | Reads the DSL one line at a time. It builds module-level ordered dicts: `arglst`, `argnumfield`, `argfieldname`, `argstartbit`, `argendbit`, `argdefval`, `smcid`, `sdef`, `defval`. It also uses the function locals `smcname`, `argnum`, `argname`, `argoccupy`, `fieldoccupy` and the sequencing state `seq` (0, 1, 2). |
| Definition-table emitter | `gen_arg_struct_def.py` | Writes `arg_struct_def.h`, made of feature guards and the call, argument, `_CNT` and global field ordinals. |
| Field-specification emitter | `gen_field_specification.py` | Writes `field_specification.h`. It contains the field table, the argument span table, the per-call range and start tables, and three back-reference arrays. The back-reference arrays name constants of `arg_struct_def.h`. |
| Driver | `generate_smc.py` | Runs the reader and then the two emitters. |
| Coverage tool | `generate_var_coverage.py` | Re-reads the DSL through the reader, then tabulates, per call and field name, the values each field took in the calls an FVP log records. |
| Test-list generator | `tools/generate_test_list/generate_test_list.py` | A separate tool. It parses an XML test list whose external entities and `xi:include` elements name other files, checks the names, removes the tests named in a platform and an architecture skip file, and fills the templates of `tests_list.c` and `tests_list.h`. |

The whole program is one sequential process. The reader either finishes or
leaves the process:

- `sys.exit()` gives exit status 0.
- An uncaught exception, such as `UnboundLocalError` or `KeyError`, gives exit
  status 1.

Once the reader finishes, the emitters read its final tables. Because there is
no concurrency, the behaviours that matter are long sequences of DSL lines. The
models explore every file of up to `MaxLines` lines over small alphabets. The
hard part is the order of those lines:

- which local is still bound from an earlier line;
- which dictionary key is reset and which is appended;
- how the emitters' running counters line up across three dictionaries.

## Modules

| Module | Models | State / content |
|---|---|---|
| `SmcReader` | `readsmclist()` | VARIABLES are the reader's tables and locals, plus `status` (reading/done/exit/crash) and `nlines`. There is one action per line rule: `SmcExplicit`, `SmcDeferred`, `SmcBare`, `ArgLabel`, `ArgValue`, `ArgRange`, `Field`, `Define`, `Blank`, `Malformed`. `EndOfFile` covers the end check and deferred-id resolution, and `Halted` is the process having ended. |
| `ArgStructDef` | `gen_arg_struct_def()` | Operators only. `ArgStructDefHeader` is the header as a sequence of `<<name, value>>` defines. |
| `FieldSpecification` | `gen_field_specification()` | Operators only: `Rows`, `Spans`, `ArrayRange`, `ArrayStart`, `FieldArg`, `FieldCall`, `FieldFld`. This module also holds the properties relating both headers. |
| `SmcGenerate` | `generate_smc.py` | Composes the reader with the emitters. It adds `phase`, `asdHeader`, `fsWritten` and `exitCode`. |
| `CoverageTool` | `generate_var_coverage.py` | Operators over the reader's final tables and a log: `Coverage(log)` is `varcovvalues` after the loop of lines 56-69, with an `error` flag for the `TypeError` of line 68. It also holds a reference definition of the table (`XRegs`, `XReg`, `Bits`). |
| `TestList` | `generate_test_list.py` | VARIABLES: the inputs (`doc`, `tag`, `plat`, `arch`, chosen in `Init` and never changed), `stage`, expat's `stack` of `<<file, pos>>` frames, the global `depth` (`expansion_depth`), the global `tree` (`treebuilder`), `ElementInclude`'s `istack` of `[nodes, pos]` frames and `parents` (`_parent_hrefs`), the `suites` list, `skipPos` and the emitted `out`. Actions: `StartElement`, `ExternalEntityRef`, `EndEntity`, `EndDocument`, `IncludeOther`, `IncludeStart`, `IncludeEnd`, `IncludeDone`, `CheckValidityOfNames`, `SkipLine`, `SkipFileDone`, `Generate`, `Exited`. |
| `TestListSpec` | — | The abstract test-list generator: in one step it either fails or emits the tables of the suites read, minus the skipped ones. `TestList` refines it. |
| `MCSmc`, `MCGen`, `MCTestList` | — | Model values, the enumerated inputs (logs, XML files, skip files) and the symmetry sets. |

`ArgStructDef` extends `SmcReader`, `FieldSpecification` extends `ArgStructDef`,
and `SmcGenerate` extends `FieldSpecification`. `CoverageTool` extends
`SmcReader`. `MCGen` extends both `SmcGenerate` and `CoverageTool`, so one run
checks the driver, both emitters and the coverage tool over the same reader
states. `TestList` instantiates `TestListSpec` as `Abstract`. The emitters are pure functions
of the reader's final state, so they are operators rather than actions, as the
driver calls them once.

### How the code maps to the model

- **Ordered dicts.** Python dicts keep insertion order, and reassigning a key
  keeps its position. They are modelled as sequences of `<<key, value>>` pairs
  (`DictPut`).
- **Merged field dicts.** `argnumfield`, `argstartbit`, `argendbit` and
  `argdefval` are written together with the same keys. They are one dict of
  field records. `argfieldname` is kept as its own list, because it can repeat
  a name where the dicts cannot.
- **Register text.** A register is kept as the text the regex matched:
  `[n, pad]`, with `pad` meaning a zero-padded spelling. `argnum` also records
  whether it holds a Python `int` (after a range line, line 178) or a `str`.
  That distinction decides the emitter's `TypeError` at line 42.
- **Unbound locals.** Locals that are not yet assigned hold `Unbound`. Reading
  one is the `crash` outcome.
- **Failing steps.** A failing step leaves the tables as they were. The process
  ends, so a partial mutation is never observed.
- **Names.** Call names, labels and field names are model values. Names that the
  code concatenates, such as `<CALL>_ARG<N>_<FIELD>_CNT` and
  `smcname_arg_N`, are tagged tuples of their parts. Two such names are equal
  exactly when the strings are, except across kinds (see the plan).
- **Running counters.** `smccount`, `argcount`, `fieldcount`, `lc` and `cargs`
  are positions in flattened loops (`FlattenSeq`, `FoldLeft`).

### The coverage tool

- A log is a sequence of lines that match the regex of line 58. Other lines
  are skipped by the code, so they are left out.
- A fid is a model value: the id of `IdVals`, or one that no call has.
  `FidValue` gives `int(fid, 16)`, which register 0 reads.
- Register n is regex group n + 1 (`RegValue`), because group 1 is the fid.
- Line 68 is `FieldValue`. Values are below 2^30, so a mask of 30 bits or more
  keeps the whole value, and the 64-bit raw fields need no big integers.
- `CovStep` is one iteration of the loop. A reversed field of the called call
  sets `error`. The process then ends, so nothing else is observed.
- `Printed(c, table)` is the grid of lines 71-88 for call `c`:
  - the headers are `Columns(c)`, the keys of `varcovvalues[c]` in dict order,
    where a name keeps the position of its first insertion;
  - column `k` lists the name's set in some order, because Python's set order
    is unspecified and no property depends on it;
  - cells below a column's end are `Dash` ("-"), up to the tallest column
    (`largest` is the maximum column length, so `te[i][k]` never indexes
    past a column and the `IndexError` path is unreachable).

  `tabulate`'s layout is left out. `CoverageMatchesReference` is stated on
  this grid, so the property covers what the tool prints, not only its
  dictionary.

### The test-list generator

- A file is a sequence of items: a testsuite (its name and the names of its
  testcases), a reference to another file's external entity, or an
  `xi:include` of another file.
- expat calls `external_entity_ref_handler` at a reference and parses the
  entity inside that call. The walk is therefore a stack of frames.
  `ExternalEntityRef` raises `depth` before the check of line 127, as the code
  does. `EndEntity` lowers it when the entity is parsed.
- A file is loaded by `parse_xml_no_xinclude_expansion` (`StartParse`, which
  resets `treebuilder` and `expansion_depth`, lines 105-108), then walked by
  `ElementInclude.include` (line 167). The walk is a stack of frames, each a
  loaded tree and the index `i` of `_include`'s loop. `IncludeStart` takes
  the checks in the library's order: an href already in `_parent_hrefs`
  (`FatalIncludeError`), then `max_depth` reaching 0
  (`LimitedRecursiveIncludeError`). Otherwise it adds the href and loads the
  file through the loader of lines 148-158. `IncludeEnd` splices the loaded
  tree in place of the element, removes the href and moves `i` past it.
  `_parent_hrefs` never holds the root file. Nodes spliced into the root
  file's tree record the root tag of the file they came from (`top`).
- `IncludeDone` applies the root-tag dispatch of lines 169-179
  (`TestsuitesElements`), then the `findall(".//testsuite")` of lines 68-86
  (`ParseTestsuitesElementIntoIR`):
  - a `testsuites` root reads every suite;
  - a `document` root reads only its `testsuites` children, which are the
    included files with that root tag; a suite directly under the root, from
    one of its entities, or from a file included with a `document` root is
    dropped;
  - any other root tag is an error.
- The `ValueError`s of lines 128, 174 and 189-203 all go to `stage =
  "error"`, because the process ends on them.
- `SkipLine` has one disjunct per path of the loop body of lines 212-245:
  - a comment or blank line;
  - a suite that does not exist (WARNING);
  - a suite skip, which removes every suite of that name;
  - a case that does not exist (WARNING);
  - a case removal, which removes the first case of that name.
- `Generate` computes all three tables at once. It uses `TestcaseLists`, a fold
  with the running `testcase_index`, and `SuiteList`.
- The refinement maps `result` to the outcome, `"pending"` until the process
  ends, and to the emitted tables. `TestListSpec` states what is read
  declaratively. `Expand` substitutes entities. `Load` and `Sub` are mutually
  `RECURSIVE` and follow includes with the set of files above and the
  remaining depth. `Counts` keeps, under a `document` root, only the root's
  children that are included `testsuites` files.

Each action's comment names the lines it translates. `PROJECT.json` "map"
lists them all.

## Runs

| Run | Config | Expect | What it shows |
|---|---|---|---|
| generator | `MCGen.cfg` | pass | It runs every DSL file of ≤5 lines through `generate_smc.py`. The driver always ends with an exit status (`GenTypeOK`). The accepted IR keeps register spellings distinct per call, records its argument's register in every field, and resolves deferred ids to their calls. The emitted span, range and start tables index the field table consistently. For files without repeated names, the back-reference arrays point at the right rows. On every log of ≤2 lines, the grid the coverage tool prints has one column per field name, as many rows as its tallest column, and in each column exactly the values of a reference definition (`CoverageMatchesReference`). This includes a field name used in two arguments of a call, whose values merge into one column, and a field in register 8, which the log does not report. |
| testlist | `MCTestList.cfg` | pass | `TestList` implements the safety part of `TestListSpec` (`ImplementsTestListSpec`), and every run ends (`Terminates`), even over entity and include cycles. It fails exactly when an entity chain is too deep, an include is recursive or deeper than the limit, the root tag is wrong or a name is invalid. Otherwise it emits the tables of the suites read, minus the skipped ones, numbered globally. `DepthTracksNesting`: while parsing, `expansion_depth` equals the nesting of entities. |
| fields_disjoint | `MCSmc_FieldsDisjoint.cfg` | violation | `smc: A`, `arg0: L1`, `arg1 = v`, `field:x:[0,0]`: the field joins raw `arg1` and overlaps its implicit 0–63 field. |
| fielded_fields_disjoint | `MCSmc_FieldedDisjoint.cfg` | violation | `field:x:[0,2]` then `field:y:[1,1]` is accepted. This is the asymmetric test of lines 208–210 (spec §9). |
| call_has_argument | `MCSmc_CallHasArgument.cfg` | violation | `arg1-arg0 = v` adds no argument but sets `seq` to 2, so a call with no argument is accepted. |
| registers_numeric | `MCSmc_RegistersNumeric.cfg` | violation | `arg0` and `arg00` in one call are both accepted. |
| fields_append_only | `MCSmc_AppendOnly.cfg` | violation | A label declared twice in a call loses the fields already parsed under it. |
| back_refs | `MCSmc_BackRefs.cfg` | violation | After label reuse, the `fuzzer_fieldarg`, `_fieldfld` and span tables disagree with the rows. |
| field_spec_type_error | `MCSmc_TypeError.cfg` | violation | A field after a range line makes `gen_field_specification` raise `TypeError` at line 42 on an accepted file. |
| accepted_yields_headers | `MCGen_AcceptedFileYieldsHeaders.cfg` | violation | `generate_smc.py:43` passes 6 of 7 arguments, so `field_specification.h` is never written. |
| coverage_completes | `MCGen_CoverageCompletes.cfg` | violation | `smc: A 0x…`, `arg1: L1`, `field:x:[2,0] = v` is accepted: the reader never compares a field's bounds. The coverage tool then raises `TypeError` at line 68 on the first log line of `A`, because `2 ** -1` is a float. |
| exit_zero | `MCGen_ExitZeroMeansGenerated.cfg` | violation | Every reader error exits with status 0 and no header. |

Each passing property has a mutant in `PROJECT.json` that TLC must catch. The
mutant is a seeded bug of the kind the code could have:

- an implicit field ending at bit 64;
- a range checking only its first register;
- `argnum` keeping the first register of a range;
- ids resolved by label rather than by value;
- spans one row too long;
- `fieldcount` not reset per argument;
- a driver ignoring the reader's exit;
- the coverage mask one bit too narrow;
- the entity depth check left out;
- `expansion_depth` not lowered after an entity;
- `testcase_index` restarting per suite;
- `_include`'s loop not advancing past a testsuite element.

## Bounds and why they suffice

The SMC configurations (`MCGen.cfg` and the `MCSmc_*` and `MCGen_*`
violation configs) use:

- 2 calls, 2 labels, 2 field names;
- registers {0, 1} (`MCGen.cfg`: {6, 7, 8});
- bit positions {0, 1, 2} (`MCGen.cfg`: {0, 1});
- 1 value, 1 id and 1 define label;
- files of ≤5 lines.

Each property's defect
needs at most five lines, as the violation traces show:

- reopening a call needs two `smc:` lines and an argument between them;
- label reuse needs `smc`, two arg lines and a field;
- containment needs two fields;
- resolution needs `smc X LBL` and a `define`.

`MCSmc_RegistersNumeric.cfg` adds zero-padded spellings
(`Pads = {FALSE, TRUE}`). `MCGen.cfg` changes the registers and bit positions,
as explained below.

`MCGen.cfg` takes registers 6 to 8, so that register 7 (the last one a
log line reports, regex group 8) and register 8 (the first one line 64
skips) both occur. A range line fills every register between its ends, so
the set must be an interval. Three registers are needed so that a field name
can sit in two reported registers of one call. To keep the run near a minute,
that config uses bit positions {0, 1}. Wider fields only matter to the
reversed-field and containment violations, whose configs keep {0, 1, 2}.
`MCGen.cfg` gives about 229,000 distinct states in under 2 minutes. Symmetry permutes call names and labels. The
model never inspects a name, and feature and upper-case maps are uniform over
the permuted sets. The fid values are not permuted, and they are not names of
calls. The logs have one or two lines:

- the fid is the call id (value 5) or one no call has (value 2);
- `arg7` is 1 or 2, and `arg1`..`arg6` are 0.

With an odd and an even value, every one-bit field of register 7 takes both 0
and 1 somewhere, and register 6 always reads 0. So a wrong shift, mask or
register group shows, and so does a column that keeps only one of two
same-named fields.

`MCTestList.cfg` enumerates these inputs:

- 3 files: the root, with up to two items, and two others with up to one item
  each. References include a cycle from the root through `F1` and a
  self-reference in `F2`. Includes cover the root including `F1` and `F2`
  (a diamond when `F1` includes `F2`), `F1` including the root, and `F2`
  including itself.
- Suites with a duplicate suite name, a duplicate case name and a name with
  "/".
- Root tags: `testsuites`, `document` or another tag for the root, and
  `testsuites` or `document` for `F1`. `F2` is a `testsuites` file.
- Platform skip files: empty, a comment, a suite skip `S/`, a case skip, a
  missing case, and a missing suite.
- Architecture skip files: empty, a case skip, and a suite skip.

`MAX_EXPANSION_DEPTH` is 5 in the code and a CONSTANT here, set to 1. With
depth 1, one level of nesting passes and the next one fails, and both cases
happen within 3 files. The code's check is the same comparison for any bound.
`MAX_INCLUSION_DEPTH` (`ElementInclude`'s default of 6) is also set to 1, for
the same reason: an include of an include fails on depth even without a
cycle. The run reaches about 1,230,000 distinct states in under 2 minutes.

## Fairness

Each program is a single-threaded, run-once process. It keeps taking its next
step until it exits, so `TestList` assumes weak fairness of its whole
next-state relation (`WF_vars(Next)`), and `TestListSpec` assumes
`WF_avars(Decide)`. The refinement is checked in two parts.
`ImplementsTestListSpec` is the safety part `Abstract!ASafety`. `Terminates`
is `<>Abstract!Decided`. `Decide` is enabled exactly while the result is
pending, so together they say the same as `Abstract!ASpec`. They avoid making
TLC evaluate `ENABLED` through the refinement mapping, which is very slow on
this state space. Every run ends, even with a cycle of entities or includes,
because the depth bound and `ElementInclude`'s checks stop it.

The SMC models assume no fairness and state no liveness. Every behaviour of
those models is finite, because it reads at most `MaxLines` lines. After the
process ends, `Halted`/`GenHalted`/`Exited` stutter, so deadlock checking stays
on. A deadlock would mean a state with no applicable step, which the code does
not have.

## What is not modelled, and why

- **Text layout.** This covers struct declarations, commas, 20-entries-per-line
  batching and `print` messages. No property depends on them.
- **Hex and decimal values.** Values are opaque; the reader never compares them.
- **Regex tokenisation.** Each rule is an action with its tokens drawn from
  small sets. A line such as `smc: FOO_0x10` matches two rules and is always
  rejected, with the same outcome as a malformed line.
- **Coverage output.** `tabulate`'s layout and the `print` of call names are
  left out; the grid itself is modelled. Ids are model values, so the case of
  hex digits and leading zeros in the log's fid text are not modelled (see the
  hazards). The argument parsing of lines 1-31 is I/O set-up.
- **Test-list details.** An entity's testsuite elements are taken to be
  direct children of the element holding the reference, with no `testsuites`
  wrapper inside the entity. `parse="text"`
  includes are left out: the adapter's two-argument `__call__` makes them
  raise `TypeError`, which ends the process like the `ValueError` of line
  156 would. An absent skip file behaves as an empty one. A test
  case's function attribute is identified with the case. Descriptions and the
  template text are not modelled: `tests_list.c.tpl` and `tests_list.h.tpl`
  are not in the repository, and `generate_file_from_template` (lines 286-297)
  only replaces placeholders in that text. One hazard is left open there: a
  description that spells a later placeholder would itself be replaced.
- **Argument parsing and file I/O** (`argparse`, `open`, the dataclasses) are
  set-up with no state of their own.

## Plan for later work

1. Add a run with colliding `UpperOf`. Add a cross-kind name collision, where
   call `X_ARG0` sits beside call `X`. Check that every name the header defines
   is defined once.
2. Write an abstract IR specification: calls, argument slots and fields as in
   spec §3. Map the reader to it with `INSTANCE ... WITH` for the accepted
   fragment without the quirks above.
3. A run whose log spells a fid with other case or leading zeros, with a
   property that every logged call is credited to the call whose id has the
   fid's value.
