------------------------- MODULE FieldSpecification -------------------------
(***************************************************************************)
(* The field-specification emitter, gen_field_specification() in           *)
(* smc_fuzz/script/gen_field_specification.py, as operators over the IR.   *)
(* Its tables name constants of arg_struct_def.h (ArgStructDef), which the *)
(* C compiler resolves, so the properties of the pair of headers are       *)
(* stated here.                                                            *)
(***************************************************************************)
EXTENDS ArgStructDef

CONSTANT
  ArgRes       \* argres[sn][an][fn]: the reserved flag the caller supplies

(* Lines 31-46: fuzzer_arg_array, one row per argfieldname entry (a name   *)
(* listed twice gives two rows, both showing the record stored last).      *)
RowsOf(c) ==
  FlattenSeq([i \in DOMAIN Args(c) |->
    LET l == Args(c)[i][1]
        a == Args(c)[i][2]
    IN [j \in DOMAIN a.names |->
          LET f == a.names[j]
              r == Get(a.fields, f)
          IN [bitw |-> r.end - r.start + 1, bitst |-> r.start, bnames |-> f,
              defval |-> r.def, reserved |-> ArgRes, regnum |-> r.reg,
              smcname |-> c, smcargname |-> l]]])
Rows == FlattenSeq([i \in DOMAIN calls |-> RowsOf(calls[i])])

(* Line 42 concatenates a str with argnumfield[sn][an][fn]: a field stored *)
(* after an argA-argB line holds a Python int and the emitter raises       *)
(* TypeError.                                                              *)
RaisesTypeError == \E i \in DOMAIN Rows : Rows[i].regnum.int

(* The argfieldname lists of all arguments, in order.                      *)
ArgLists ==
  FlattenSeq([i \in DOMAIN calls |->
    LET c == calls[i] IN [j \in DOMAIN Args(c) |-> Args(c)[j][2].names]])

(* Lines 49-62: fuzzer_arg_array_lst, one span per argument, computed with *)
(* the running offset lc.                                                  *)
(* Seeded bug for SpanTablesConsistent: the span ends one row too late.   *)
SpanStepLong(acc, names) ==
  [lc |-> acc.lc + Len(names),
   spans |-> Append(acc.spans, <<acc.lc, Len(names) + acc.lc>>)]
SpanStep(acc, names) ==
  [lc |-> acc.lc + Len(names),
   spans |-> Append(acc.spans, <<acc.lc, Len(names) - 1 + acc.lc>>)]
Spans == FoldLeft(SpanStep, [lc |-> 0, spans |-> <<>>], ArgLists).spans

(* Lines 65-82: fuzzer_arg_array_range, the number of arguments per call.  *)
ArrayRange == [i \in DOMAIN calls |-> Len(Args(calls[i]))]

(* Lines 83-102: fuzzer_arg_array_start, the running sum cargs, written    *)
(* before it is increased.                                                 *)
StartStep(acc, c) ==
  [cargs |-> acc.cargs + Len(Args(c)), start |-> Append(acc.start, acc.cargs)]
ArrayStart == FoldLeft(StartStep, [cargs |-> 0, start |-> <<>>], calls).start

(* Lines 103-154: the back-reference arrays, over argnumfield (one entry   *)
(* per distinct field name): fuzzer_fieldarg, fuzzer_fieldcall and         *)
(* fuzzer_fieldfld.                                                        *)
FieldArg == [i \in DOMAIN FieldEntries |-> ArgConst(FieldEntries[i][1], FieldEntries[i][4].reg)]
FieldCall == [i \in DOMAIN FieldEntries |-> CallConst(FieldEntries[i][1])]
FieldFld ==
  [i \in DOMAIN FieldEntries |->
     CntConst(FieldEntries[i][1], FieldEntries[i][4].reg, FieldEntries[i][3])]

-----------------------------------------------------------------------------
(* Properties of the two headers generated from a finished IR.            *)

Generated == status = "done" /\ ~RaisesTypeError

(* The span, range and start tables index the field table consistently:    *)
(* the spans are contiguous from row 0 to the last row, span k covers      *)
(* exactly the rows of the k-th argument, and the start of each call is    *)
(* the index of its first span, the next call starting range[] later.      *)
SpanTablesConsistent ==
  Generated =>
    LET rows == Rows  lists == ArgLists  spans == Spans
        start == ArrayStart  range == ArrayRange
    IN
    /\ Len(spans) = Len(lists)
    /\ \A k \in DOMAIN spans :
         /\ spans[k][1] = IF k = 1 THEN 0 ELSE spans[k - 1][2] + 1
         /\ spans[k][2] - spans[k][1] + 1 = Len(lists[k])
         /\ \A r \in spans[k][1]..spans[k][2] :
              rows[r + 1].bnames = lists[k][r + 1 - spans[k][1]]
    /\ Len(spans) > 0 => spans[Len(spans)][2] = Len(rows) - 1
    /\ \A i \in DOMAIN calls :
         /\ start[i] = IF i = 1 THEN 0 ELSE start[i - 1] + range[i - 1]
         /\ \A k \in start[i] + 1..start[i] + range[i] :
              \A r \in spans[k][1]..spans[k][2] : rows[r + 1].smcname = calls[i]

(* The walk the fuzzer makes from field-table row i back to symbolic names *)
(* (spec section 8): the three back-reference arrays have one entry per    *)
(* row, and entry i names the row's call, the (call, argument) ordinal     *)
(* whose span contains row i, and the row's position inside that span.     *)
BackRefsMatchRows ==
  Generated =>
    LET rows == Rows  spans == Spans  h == ArgStructDefHeader
        farg == FieldArg  fcall == FieldCall  ffld == FieldFld
    IN
    /\ Len(farg) = Len(rows)
    /\ \A i \in DOMAIN rows \cap DOMAIN farg :
         /\ Defined(h, fcall[i]) /\ Defined(h, farg[i]) /\ Defined(h, ffld[i])
         /\ calls[ValueOf(h, fcall[i]) + 1] = rows[i].smcname
         /\ LET k == ValueOf(h, farg[i]) + 1
            IN  /\ k \in DOMAIN spans
                /\ spans[k][1] <= i - 1 /\ i - 1 <= spans[k][2]
                /\ ValueOf(h, ffld[i]) = i - 1 - spans[k][1]

(* The input declares no label twice in a call and no field name twice in *)
(* an argument: neither is checked by the reader.                          *)
NoRepeatedNames ==
  \A c \in Range(calls) :
    /\ Len(arglst[c]) = Len(Args(c))
    /\ \A i \in DOMAIN Args(c) : Len(Args(c)[i][2].names) = Len(Args(c)[i][2].fields)

(* BackRefsMatchRows for inputs without repeated labels or field names.    *)
WellFormedBackRefsMatchRows == NoRepeatedNames => BackRefsMatchRows

(* Spec section 2: both emitters run over the finished IR.  The field      *)
(* specification is generated for every file the reader accepts.          *)
EmitsForEveryAcceptedFile == status = "done" => ~RaisesTypeError
=============================================================================
