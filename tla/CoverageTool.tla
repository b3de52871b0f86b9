---------------------------- MODULE CoverageTool ----------------------------
(***************************************************************************)
(* smc_fuzz/script/generate_var_coverage.py.  The tool calls readsmclist() *)
(* on the DSL file (line 32), then reads the UART log of an FVP run: for   *)
(* every line "SMC FUZZER CALL fid:F arg1:V1 ... arg7:V7" whose fid is a   *)
(* key of smcid, it adds, for every field of that call in a register below *)
(* 8, the field's bits of the register's value to the set of values seen   *)
(* for the field's name (varcovvalues[call][name]).  The tables are then   *)
(* printed (lines 71-88, layout only, not modelled).                       *)
(*                                                                         *)
(* Like the emitters, the tool is a function of the reader's final tables; *)
(* it is defined by operators over them and over a log.  A log is a       *)
(* sequence of the lines that match the regex of line 58 (other lines are  *)
(* skipped by the code).  A fid is the hexadecimal text of the log; the   *)
(* ids of IdVals are spelled as in the DSL, others are in LogFids only.    *)
(***************************************************************************)
EXTENDS SmcReader

CONSTANTS
  LogFids,   \* fid texts of log lines: IdVals and ids no call has
  FidValue,  \* int(fid, 16), the value of register 0
  LogVals,   \* values of arg1 .. arg7 in log lines, below 2^30
  Logs       \* the data files the model enumerates

ASSUME IdVals \subseteq LogFids /\ LogVals \subseteq 0..(2^30 - 1)

LogLines == [fid : LogFids, arg : [1..7 -> LogVals]]

(* Line 65: register n is regex group n + 1; group 1 is the fid (x0).      *)
Group(l, g) == IF g = 1 THEN FidValue[l.fid] ELSE l.arg[g - 1]
RegValue(l, n) == Group(l, n + 1)

(* The low k bits of x; a mask of 30 bits or more keeps all of a log value.*)
LowBits(x, k) == IF k >= 30 THEN x ELSE x % (2^k)

(* Line 68, (val >> s) & (2^(e - s + 1) - 1): 2 ** (e - s + 1) is a float  *)
(* when e + 1 < s, and int & float raises TypeError.                       *)
MaskIsFloat(s, e) == e - s + 1 < 0
(* Seeded bug for CoverageMatchesReference: the mask one bit too narrow.   *)
FieldValueNarrow(v, s, e) == LowBits(v \div (2^s), e - s)
FieldValue(v, s, e) == LowBits(v \div (2^s), e - s + 1)

(* The fields line 62-63 visit for call c: <<argument index, name>> for     *)
(* each name of argfieldname[c][an], with the record argnumfield,           *)
(* argstartbit and argendbit hold under that name.                          *)
Visits(c) == UNION {{<<i, fn>> : fn \in Range(Args(c)[i][2].names)} : i \in DOMAIN Args(c)}
Rec(c, i, fn) == Get(Args(c)[i][2].fields, fn)
ColumnNames(c) == {v[2] : v \in Visits(c)}

(* Lines 45-51: one empty set per call and field name.                     *)
EmptyTable == [c \in Range(calls) |-> [fn \in ColumnNames(c) |-> {}]]

(* Lines 57-69, one log line: the call whose id it names (smcid, line 60)  *)
(* gets, under each of its field names in a register below 8 (line 64),    *)
(* the field's value; a reversed field raises TypeError and ends the run.  *)
CovStep(acc, l) ==
  IF acc.error \/ l.fid \notin DOMAIN smcid THEN acc
  ELSE LET c  == smcid[l.fid]
           vs == {v \in Visits(c) : Rec(c, v[1], v[2]).reg.tok.n < 8}
           val(v) == FieldValue(RegValue(l, Rec(c, v[1], v[2]).reg.tok.n),
                                Rec(c, v[1], v[2]).start, Rec(c, v[1], v[2]).end)
       IN IF \E v \in vs : MaskIsFloat(Rec(c, v[1], v[2]).start, Rec(c, v[1], v[2]).end)
          THEN [acc EXCEPT !.error = TRUE]
          ELSE [acc EXCEPT !.table[c] =
                  [fn \in ColumnNames(c) |-> @[fn] \cup {val(v) : v \in {w \in vs : w[2] = fn}}]]

(* varcovvalues after the log, and whether the run raised TypeError.       *)
Coverage(log) == FoldLeft(CovStep, [error |-> FALSE, table |-> EmptyTable], log)

(* Lines 71-88, the output: per call, a grid whose headers are the keys of *)
(* varcovvalues[c] in dict order (a name keeps the position of its first   *)
(* insertion, lines 49-51), whose column k lists the set of that name in   *)
(* Python's set order (unspecified: the model takes one, and no property   *)
(* depends on it), padded with "-" up to the tallest column.  tabulate's   *)
(* layout is left out.                                                     *)
Columns(c) ==
  FoldLeft(LAMBDA acc, fn : IF fn \in Range(acc) THEN acc ELSE Append(acc, fn), <<>>,
           FlattenSeq([i \in DOMAIN Args(c) |-> Args(c)[i][2].names]))

(* The "-" cell of line 78; no field value is negative.                    *)
Dash == -1

Printed(c, table) ==
  LET cols    == Columns(c)
      vals(k) == SetToSeq(table[c][cols[k]])
      largest == FoldLeft(LAMBDA m, fn : IF Cardinality(table[c][fn]) > m
                                         THEN Cardinality(table[c][fn]) ELSE m, 0, cols)
  IN  [hdrs |-> cols,
       rows |-> [i \in 1..largest |->
                  [k \in DOMAIN cols |-> IF i <= Len(vals(k)) THEN vals(k)[i] ELSE Dash]]]
-----------------------------------------------------------------------------
(* The reference: what a logged call held in its registers, by the SMC     *)
(* calling convention the log reports (x0 the function id, x1 .. x7 the    *)
(* arguments), and a field's value as the sum of its bits.                 *)
XReg(l, n) == IF n = 0 THEN FidValue[l.fid] ELSE l.arg[n]

Bit(x, b) == (x \div (2^b)) % 2

(* Bits s..e of x as a number; a log value has no bit from 30 up.          *)
RECURSIVE Bits(_, _, _)
Bits(x, s, e) ==
  IF e < s THEN 0
  ELSE IF e >= 30 THEN Bits(x, s, 29)
  ELSE Bit(x, e) * 2^(e - s) + Bits(x, s, e - 1)

(* The log lines that name call c through smcid.                           *)
CallsOf(log, c) == {k \in DOMAIN log : log[k].fid \in DOMAIN smcid /\ smcid[log[k].fid] = c}

(* The registers a log line reports: x0 (the fid) and x1 .. x7.           *)
XRegs == 0..7

(* The files whose fields all have start <= end; the others make line 68   *)
(* raise, which CoverageCompletes is about.                                *)
CoverageWellDefined ==
  \A c \in Range(calls) : \A v \in Visits(c) : Rec(c, v[1], v[2]).start <= Rec(c, v[1], v[2]).end

(* On such a file, accepted by readsmclist(), the grid the tool prints    *)
(* for a call (lines 45-88) has one column per field name of the call and  *)
(* as many rows as its largest column, and the column of a name shows      *)
(* exactly the values that the fields of that name, in every argument of   *)
(* the call, took in their registers over the logged calls of the call; a  *)
(* field in a register the log does not report (8 and up) adds nothing.    *)
(* The group numbering of line 65, the register guard of line 64, the      *)
(* shift and mask of line 68, the smcid lookup of line 60 after deferred   *)
(* ids were resolved, the merge of same-named fields into one set (line    *)
(* 69), the argnum every field line recorded and the grid of lines 73-86   *)
(* must all agree.                                                         *)
CoverageMatchesReference ==
  status = "done" /\ CoverageWellDefined =>
    \A log \in Logs :
      LET cov == Coverage(log)
          r(c, v) == Rec(c, v[1], v[2])
          ref(c, fn) ==
            {Bits(XReg(log[k], r(c, v).reg.tok.n), r(c, v).start, r(c, v).end) :
               k \in CallsOf(log, c),
               v \in {w \in Visits(c) : w[2] = fn /\ r(c, w).reg.tok.n \in XRegs}}
      IN  /\ ~cov.error
          /\ \A c \in Range(calls) :
               LET g == Printed(c, cov.table)
               IN  /\ IsInjective(g.hdrs) /\ Range(g.hdrs) = ColumnNames(c)
                   /\ \A k \in DOMAIN g.hdrs :
                        {g.rows[i][k] : i \in DOMAIN g.rows} \ {Dash} = ref(c, g.hdrs[k])
                   /\ Len(g.rows) = Max({Cardinality(ref(c, fn)) : fn \in ColumnNames(c)} \cup {0})

(* The tool turns every DSL file the reader accepts, and every log, into   *)
(* coverage tables: it never raises (line 68) part way through the log.    *)
CoverageCompletes == status = "done" => \A log \in Logs : ~Coverage(log).error
=============================================================================
