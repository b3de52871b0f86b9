---------------------------- MODULE ArgStructDef ----------------------------
(***************************************************************************)
(* The definition-table emitter, gen_arg_struct_def() in                   *)
(* smc_fuzz/script/gen_arg_struct_def.py, as operators over the IR the     *)
(* reader built.  The header is the sequence of its #define lines, each a  *)
(* <<name, value>> pair; a constant name is the tuple of the parts the     *)
(* code concatenates, so two names are equal exactly when the strings are. *)
(* The code's running counters (smccount, argcount, fieldcount) are the    *)
(* positions of the lines in the flattened loops.                          *)
(***************************************************************************)
EXTENDS SmcReader

CONSTANTS
  FeatureOf,   \* call name -> the [A-Z]+ prefix before its first "_", or NoFeature
  NoFeature,   \* the call name does not match ^([A-Z]+)_.+
  UpperOf      \* field name -> fn.upper()

(* fn.upper() of a field name; the implicit field of a raw-default         *)
(* argument is named <call>_arg_<N>_field.                                 *)
Upper(f) == IF f \in FieldNames THEN UpperOf[f] ELSE <<"FIELD", f[2], f[3]>>

(* Constant names: <CALL>_ARG<N>, <CALL>_ARG<N>_<FIELD>_CNT and            *)
(* <CALL>_ARG<N>_<FIELD>, N being str() of the stored register.  Each name *)
(* is tagged with its kind: the model does not represent a name of one     *)
(* kind spelling a name of another (a call named X_ARG0 beside call X).    *)
CallConst(c) == <<"CALL", c>>
ArgConst(c, r) == <<"ARG", c, r.tok>>
CntConst(c, r, f) == <<"CNT", c, r.tok, Upper(f)>>
FieldConst(c, r, f) == <<"FIELD", c, r.tok, Upper(f)>>

(* Lines 25-31: one <FEATURE>_INCLUDE guard per feature, first-seen order. *)
FeatureGuards ==
  FoldLeft(LAMBDA g, c : IF FeatureOf[c] = NoFeature \/ Contains(g, FeatureOf[c])
                         THEN g ELSE Append(g, FeatureOf[c]),
           <<>>, calls)

(* Lines 35-47: one ordinal per call, then MAX_SMC_CALLS = count - 1.      *)
CallDefs == [i \in DOMAIN calls |-> <<CallConst(calls[i]), i - 1>>]
MaxSmcCalls == Len(calls) - 1

(* Lines 49-60: one ordinal per arglst entry, over all calls in order,     *)
(* then MAX_ARG_LENGTH = count - 1.                                        *)
ArgNames ==
  FlattenSeq([i \in DOMAIN calls |->
                LET c == calls[i] IN [j \in DOMAIN arglst[c] |-> ArgConst(c, arglst[c][j])]])
ArgDefs == [k \in DOMAIN ArgNames |-> <<ArgNames[k], k - 1>>]
MaxArgLength == Len(ArgNames) - 1

(* The fields in argnumfield order: per call, per argument key, per field  *)
(* key (one entry per distinct field name), as <<call, label, field, rec>>.*)
FieldsOf(c) ==
  FlattenSeq([i \in DOMAIN Args(c) |->
                LET a == Args(c)[i] IN
                [j \in DOMAIN a[2].fields |-> <<c, a[1], a[2].fields[j][1], a[2].fields[j][2]>>]])
FieldEntries == FlattenSeq([i \in DOMAIN calls |-> FieldsOf(calls[i])])

(* Lines 62-69: per argument, fieldcount restarts at 0 for its first field.*)
(* Seeded bug for WellFormedBackRefsMatchRows: fieldcount is reset once,   *)
(* before the loop, and counts across arguments.                          *)
CntDefsNoReset ==
  LET flat == FlattenSeq([i \in DOMAIN calls |->
                LET c == calls[i] IN
                FlattenSeq([j \in DOMAIN Args(c) |->
                  LET fs == Args(c)[j][2].fields IN
                  [k \in DOMAIN fs |-> CntConst(c, fs[k][2].reg, fs[k][1])]])])
  IN [k \in DOMAIN flat |-> <<flat[k], k - 1>>]
CntDefs ==
  FlattenSeq([i \in DOMAIN calls |->
    LET c == calls[i] IN
    FlattenSeq([j \in DOMAIN Args(c) |->
      LET fs == Args(c)[j][2].fields IN
      [k \in DOMAIN fs |-> <<CntConst(c, fs[k][2].reg, fs[k][1]), k - 1>>]])])

(* Lines 70-79: one global ordinal per field, in the same order.           *)
FieldDefs ==
  [k \in DOMAIN FieldEntries |->
     LET e == FieldEntries[k] IN <<FieldConst(e[1], e[4].reg, e[3]), k - 1>>]

(* The whole header, gen_arg_struct_def lines 9-83, in file order.         *)
ArgStructDefHeader ==
  [i \in DOMAIN FeatureGuards |-> <<<<"INCLUDE", FeatureGuards[i]>>, 1>>]
    \o CallDefs \o <<<<<<"MAX_SMC_CALLS">>, MaxSmcCalls>>>>
    \o ArgDefs \o <<<<<<"MAX_ARG_LENGTH">>, MaxArgLength>>>>
    \o CntDefs \o FieldDefs

(* The value the C preprocessor gives a name defined in header h: that of *)
(* its first #define.                                                      *)
Defined(h, n) == \E i \in DOMAIN h : h[i][1] = n
ValueOf(h, n) ==
  h[CHOOSE i \in DOMAIN h : h[i][1] = n /\ \A j \in 1..(i - 1) : h[j][1] # n][2]
=============================================================================
