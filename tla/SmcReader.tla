----------------------------- MODULE SmcReader -----------------------------
(***************************************************************************)
(* The SMC list reader, readsmclist() in smc_fuzz/script/readsmclist.py.   *)
(*                                                                         *)
(* The reader consumes the DSL one line at a time.  Each kind of line is   *)
(* one action, with the line's tokens drawn from small CONSTANT sets.  The *)
(* Python dictionaries the reader fills are ordered (insertion order), and *)
(* re-assigning an existing key keeps its position: they are modelled as   *)
(* sequences of <<key, value>> pairs (see DictPut).  argnumfield,          *)
(* argstartbit, argendbit and argdefval are written at the same points     *)
(* with the same keys, so they are one dictionary of field records;        *)
(* argfieldname is the per-argument list of field names (it may repeat a   *)
(* name, the dictionaries cannot).                                         *)
(*                                                                         *)
(* sys.exit() on an error ends the process with status 0 ("exit"); an      *)
(* uncaught Python exception ends it with status 1 ("crash").  In both     *)
(* cases the state the handler mutated before failing is never observed,  *)
(* so a failing step leaves the IR unchanged.                              *)
(***************************************************************************)
EXTENDS Integers, Sequences, SequencesExt, FiniteSets, TLC

CONSTANTS
  CallNames,   \* names in "smc: NAME ..." lines
  Labels,      \* argument labels in "argN: LABEL" lines
  FieldNames,  \* names in "field:NAME:[s,e] = V" lines
  Regs,        \* register numbers written in argN / argA-argB
  Pads,        \* {FALSE} or {FALSE, TRUE}: TRUE writes the number zero-padded ("arg00")
  BitPos,      \* bit positions written in field lines
  Values,      \* default values
  IdVals,      \* hexadecimal SMC ids (in smc and define lines)
  DefLabels,   \* symbolic id labels ("smc: NAME LABEL", "define LABEL = 0x..")
  MaxLines,    \* bound on the number of lines of the input file
  Unbound      \* a Python local read before it was assigned

ASSUME Regs \subseteq Nat /\ BitPos \subseteq Nat /\ Pads \subseteq BOOLEAN
ASSUME FALSE \in Pads /\ MaxLines \in Nat

(* The text of a register number: the digits matched by arg(\d+).  Two     *)
(* tokens are the same dictionary key only if they are the same string.    *)
Tokens == [n : Regs, pad : Pads]

(* str(int(n)): the canonical spelling of a register number.               *)
Str(n) == [n |-> n, pad |-> FALSE]

(* The value stored in argnum: a string token after argN lines, a Python   *)
(* int after an argA-argB line (line 178).                                 *)
RegVals == [tok : Tokens, int : BOOLEAN]

(* Names the reader builds from the call name and register number:         *)
(* smcname + "_arg_" + argnum and smcname + "_arg_" + argnum + "_field".   *)
RawLabel(c, t) == <<"arg", c, t>>
RawField(c, t) == <<"field", c, t>>

-----------------------------------------------------------------------------
(* Ordered dictionaries: sequences of <<key, value>> pairs, distinct keys. *)

Keys(d) == [i \in DOMAIN d |-> d[i][1]]

HasKey(d, k) == \E i \in DOMAIN d : d[i][1] = k

Get(d, k) == d[CHOOSE i \in DOMAIN d : d[i][1] = k][2]

(* d[k] = v: an existing key keeps its position, a new key goes last.      *)
DictPut(d, k, v) ==
  IF HasKey(d, k)
  THEN [i \in DOMAIN d |-> IF d[i][1] = k THEN <<k, v>> ELSE d[i]]
  ELSE Append(d, <<k, v>>)

(* Extends or overrides a function at one point.                           *)
Put(f, k, v) == (k :> v) @@ f

-----------------------------------------------------------------------------
VARIABLES
  status,      \* "reading", "done", "exit" (sys.exit), "crash" (exception)
  nlines,      \* lines consumed so far
  seq,         \* the sequencing state: 0, 1 or 2
  calls,       \* key order of the per-call dictionaries
  arglst,      \* arglst: call -> list of argnum values
  argdict,     \* call -> Dict(label, [names |-> argfieldname list,
               \*                      fields |-> Dict(field, field record)])
  smcid,       \* smcid: id (or label) -> call name
  sdef,        \* sdef: Dict(call, label) of deferred ids
  defval,      \* defval: label -> id
  smcname, argnum, argname, argoccupy, fieldoccupy   \* readsmclist locals

vars == <<status, nlines, seq, calls, arglst, argdict, smcid, sdef, defval,
          smcname, argnum, argname, argoccupy, fieldoccupy>>
locals == <<smcname, argnum, argname, argoccupy, fieldoccupy>>


Init ==
  /\ status = "reading"
  /\ nlines = 0
  /\ seq = 0
  /\ calls = <<>>
  /\ arglst = <<>>
  /\ argdict = <<>>
  /\ smcid = <<>>
  /\ sdef = <<>>
  /\ defval = <<>>
  /\ smcname = Unbound
  /\ argnum = Unbound
  /\ argname = Unbound
  /\ argoccupy = Unbound
  /\ fieldoccupy = Unbound

(* A line is consumed; the process ends with sys.exit() or an exception.   *)
Fail(kind) ==
  /\ status' = kind
  /\ nlines' = nlines + 1
  /\ UNCHANGED <<seq, calls, arglst, argdict, smcid, sdef, defval>>
  /\ UNCHANGED locals

Consume == nlines' = nlines + 1

(* The three "smc:" rules share lines 35-54: the per-call dictionaries are *)
(* (re)set, the register occupancy is cleared, and the sequencing state   *)
(* moves to 1.  A call may not open while the previous one has no         *)
(* argument (seq = 1).                                                    *)
OpenCall(c) ==
  /\ seq # 1
  /\ Consume
  /\ seq' = 1
  /\ calls' = IF Contains(calls, c) THEN calls ELSE Append(calls, c)
  /\ arglst' = Put(arglst, c, <<>>)
  /\ argdict' = Put(argdict, c, <<>>)
  /\ smcname' = c
  /\ argoccupy' = {}
  /\ UNCHANGED <<status, defval, argnum, argname, fieldoccupy>>

(* "smc: NAME 0xHEX"                                                       *)
SmcExplicit(c, id) ==
  \/ seq = 1 /\ Fail("exit")
  \/ OpenCall(c) /\ smcid' = Put(smcid, id, c) /\ UNCHANGED sdef

(* "smc: NAME LABEL": the id is resolved against a define at the end.      *)
SmcDeferred(c, l) ==
  \/ seq = 1 /\ Fail("exit")
  \/ OpenCall(c) /\ smcid' = Put(smcid, l, c) /\ sdef' = DictPut(sdef, c, l)

(* "smc: NAME"                                                             *)
SmcBare(c) ==
  \/ seq = 1 /\ Fail("exit")
  \/ OpenCall(c) /\ UNCHANGED <<smcid, sdef>>

(* The argument added by "argN = VALUE" and by each register of            *)
(* "argA-argB = VALUE": one implicit field spanning bits 0-63.             *)
(* Seeded bug for TypeOK: the implicit field ends at bit 64.               *)
RawArgEnd64(c, t, reg, v) ==
  [names |-> <<RawField(c, t)>>,
   fields |-> <<<<RawField(c, t), [reg |-> reg, start |-> 0, end |-> 64, def |-> v]>>>>]
RawArg(c, t, reg, v) ==
  [names |-> <<RawField(c, t)>>,
   fields |-> <<<<RawField(c, t), [reg |-> reg, start |-> 0, end |-> 63, def |-> v]>>>>]

(* "argN: LABEL" opens a fielded argument.  argoccupy is a local bound by  *)
(* the first smc line: before it, the lookup raises UnboundLocalError.     *)
(* seq is 1 or 2 whenever argoccupy is bound, and both move to 2.          *)
ArgLabel(t, l) ==
  \/ argoccupy = Unbound /\ Fail("crash")
  \/ argoccupy # Unbound /\ t \in argoccupy /\ Fail("exit")
  \/ /\ argoccupy # Unbound /\ t \notin argoccupy
     /\ Consume
     /\ seq' = 2
     /\ argnum' = [tok |-> t, int |-> FALSE]
     /\ argname' = l
     /\ arglst' = [arglst EXCEPT ![smcname] = Append(@, argnum')]
     /\ argdict' = [argdict EXCEPT ![smcname] =
                       DictPut(@, l, [names |-> <<>>, fields |-> <<>>])]
     /\ argoccupy' = argoccupy \cup {t}
     /\ fieldoccupy' = {}
     /\ UNCHANGED <<status, calls, smcid, sdef, defval, smcname>>

(* "argN = VALUE" opens a raw-default argument.  fieldoccupy is left as it *)
(* was: it still holds the bit ranges of the last fielded argument.        *)
ArgValue(t, v) ==
  \/ argoccupy = Unbound /\ Fail("crash")
  \/ argoccupy # Unbound /\ t \in argoccupy /\ Fail("exit")
  \/ /\ argoccupy # Unbound /\ t \notin argoccupy
     /\ Consume
     /\ seq' = 2
     /\ argnum' = [tok |-> t, int |-> FALSE]
     /\ argname' = RawLabel(smcname, t)
     /\ arglst' = [arglst EXCEPT ![smcname] = Append(@, argnum')]
     /\ argdict' = [argdict EXCEPT ![smcname] =
                       DictPut(@, argname', RawArg(smcname, t, argnum', v))]
     /\ argoccupy' = argoccupy \cup {t}
     /\ UNCHANGED <<status, calls, smcid, sdef, defval, smcname, fieldoccupy>>

(* Lines 171-177: a register of the range already declared in this call. *)
(* Seeded bug for RegisterTokensDistinct: only the first register of the   *)
(* range is checked.                                                       *)
RangeClashFirstOnly(a, b) == a <= b /\ Str(a) \in argoccupy
RangeClash(a, b) == \E n \in a..b : Str(n) \in argoccupy

(* Line 178: after the loop argnum is the last register, as a Python int;  *)
(* an empty range leaves it as it was.                                     *)
(* Seeded bug for FieldRegisterMatchesArgument: argnum keeps the first     *)
(* register of the range.                                                  *)
RangeArgnumFirst(a, b) == IF a <= b THEN [tok |-> Str(a), int |-> TRUE] ELSE argnum
RangeArgnum(a, b) == IF a <= b THEN [tok |-> Str(b), int |-> TRUE] ELSE argnum

(* "argA-argB = VALUE": one raw-default argument per register of A..B, an  *)
(* empty range when A > B.  The registers are converted with int() and     *)
(* back with str(): arglst receives Python ints, argoccupy and the field   *)
(* records their canonical spelling.  argname, like argnum, keeps its old  *)
(* value when the range is empty.  smcname is read (line 170) before any   *)
(* register is checked.                                                    *)
ArgRange(a, b, v) ==
  LET k      == IF a <= b THEN b - a + 1 ELSE 0
      reg(i) == Str(a + i - 1)
  IN
  \/ smcname = Unbound /\ Fail("crash")
  \/ smcname # Unbound /\ RangeClash(a, b) /\ Fail("exit")
  \/ /\ smcname # Unbound /\ ~RangeClash(a, b)
     /\ Consume
     /\ seq' = 2
     /\ arglst' = [arglst EXCEPT ![smcname] =
                       @ \o [i \in 1..k |-> [tok |-> reg(i), int |-> TRUE]]]
     /\ argdict' = [argdict EXCEPT ![smcname] =
                       @ \o [i \in 1..k |->
                              <<RawLabel(smcname, reg(i)),
                                RawArg(smcname, reg(i), [tok |-> reg(i), int |-> FALSE], v)>>]]
     /\ argnum' = RangeArgnum(a, b)
     /\ argname' = IF k > 0 THEN RawLabel(smcname, Str(b)) ELSE argname
     /\ argoccupy' = argoccupy \cup {reg(i) : i \in 1..k}
     /\ UNCHANGED <<status, calls, smcid, sdef, defval, smcname, fieldoccupy>>

(* The overlap test of lines 208-210: an endpoint of an earlier range lies *)
(* inside the new one.                                                     *)
Overlaps(s, e) ==
  \E fs \in fieldoccupy : (s <= fs[1] /\ fs[1] <= e) \/ (s <= fs[2] /\ fs[2] <= e)

(* "field:NAME:[s,e] = VALUE" appends a field to the argument named        *)
(* argname.  fieldoccupy is unbound until the first fielded argument; the  *)
(* field is stored (line 221) before the sequencing check, so right after  *)
(* an smc line the lookup of argname in the new, empty call raises         *)
(* KeyError; with argname present seq is always 2.                         *)
Field(f, s, e, v) ==
  \/ fieldoccupy = Unbound /\ Fail("crash")
  \/ fieldoccupy # Unbound /\ Overlaps(s, e) /\ Fail("exit")
  \/ /\ fieldoccupy # Unbound /\ ~Overlaps(s, e)
     /\ ~HasKey(argdict[smcname], argname)
     /\ Fail("crash")
  \/ /\ fieldoccupy # Unbound /\ ~Overlaps(s, e)
     /\ HasKey(argdict[smcname], argname)
     /\ Consume
     /\ LET a == Get(argdict[smcname], argname)
             r == [reg |-> argnum, start |-> s, end |-> e, def |-> v]
         IN argdict' = [argdict EXCEPT ![smcname] =
                          DictPut(@, argname, [names |-> Append(a.names, f),
                                               fields |-> DictPut(a.fields, f, r)])]
     /\ fieldoccupy' = fieldoccupy \cup {<<s, e>>}
     /\ UNCHANGED <<status, seq, calls, arglst, smcid, sdef, defval,
                    smcname, argnum, argname, argoccupy>>

(* "define LABEL = 0xHEX", anywhere in the file; a later one overrides.    *)
Define(l, id) ==
  /\ Consume
  /\ defval' = Put(defval, l, id)
  /\ UNCHANGED <<status, seq, calls, arglst, argdict, smcid, sdef>>
  /\ UNCHANGED locals

(* A blank or "#" comment line.                                           *)
Blank ==
  /\ Consume
  /\ UNCHANGED <<status, seq, calls, arglst, argdict, smcid, sdef, defval>>
  /\ UNCHANGED locals

(* A line no rule matches.                                                 *)
Malformed == Fail("exit")

(* The end of the file (lines 245-255): the last call must have an         *)
(* argument, then every deferred id is resolved in sdef order, a later     *)
(* call overriding an earlier one with the same id.                        *)
Unresolved == {i \in DOMAIN sdef : sdef[i][2] \notin DOMAIN defval}

(* Lines 249-251: smcid[defval[label]] = call, in sdef order.              *)
(* Seeded bug for DeferredIdsResolved: the label, not its value, is used   *)
(* as the key.                                                             *)
ResolveIdsByLabel == FoldLeft(LAMBDA m, p : Put(m, p[2], p[1]), smcid, sdef)
ResolveIds == FoldLeft(LAMBDA m, p : Put(m, defval[p[2]], p[1]), smcid, sdef)

EndOfFile ==
  /\ UNCHANGED <<nlines, seq, calls, arglst, argdict, sdef, defval>>
  /\ UNCHANGED locals
  /\ \/ seq # 2 /\ status' = "exit" /\ UNCHANGED smcid
     \/ seq = 2 /\ Unresolved # {} /\ status' = "exit" /\ UNCHANGED smcid
     \/ /\ seq = 2 /\ Unresolved = {}
        /\ status' = "done"
        /\ smcid' = ResolveIds

(* The process has ended.                                                 *)
Halted == status # "reading" /\ UNCHANGED vars

ReadLine ==
  /\ status = "reading"
  /\ nlines < MaxLines
  /\ \/ \E c \in CallNames, id \in IdVals : SmcExplicit(c, id)
     \/ \E c \in CallNames, l \in DefLabels : SmcDeferred(c, l)
     \/ \E c \in CallNames : SmcBare(c)
     \/ \E t \in Tokens, l \in Labels : ArgLabel(t, l)
     \/ \E t \in Tokens, v \in Values : ArgValue(t, v)
     \/ \E a, b \in Regs, v \in Values : ArgRange(a, b, v)
     \/ \E f \in FieldNames, s, e \in BitPos, v \in Values : Field(f, s, e, v)
     \/ \E l \in DefLabels, id \in IdVals : Define(l, id)
     \/ Blank
     \/ Malformed

Next ==
  \/ ReadLine
  \/ status = "reading" /\ EndOfFile
  \/ Halted

Spec == Init /\ [][Next]_vars

-----------------------------------------------------------------------------
(* Derived views and invariants.                                          *)

AllLabels == Labels \cup {RawLabel(c, t) : c \in CallNames, t \in Tokens}
AllFields == FieldNames \cup {RawField(c, t) : c \in CallNames, t \in Tokens}
FieldRecs == [reg : RegVals, start : BitPos \cup {0}, end : BitPos \cup {63}, def : Values]

IsDict(d, K, V) ==
  /\ d \in Seq(K \X V)
  /\ \A i, j \in DOMAIN d : i # j => d[i][1] # d[j][1]

(* The arguments of call c, in file order: <<label, argument>> pairs.      *)
Args(c) == argdict[c]

TypeOK ==
  /\ status \in {"reading", "done", "exit", "crash"}
  /\ nlines \in 0..MaxLines
  /\ seq \in 0..2
  /\ calls \in Seq(CallNames)
  /\ DOMAIN arglst = Range(calls) /\ DOMAIN argdict = Range(calls)
  /\ \A c \in Range(calls) :
       /\ arglst[c] \in Seq(RegVals)
       /\ IsDict(Args(c), AllLabels, [names : Seq(AllFields), fields : Seq(AllFields \X FieldRecs)])
       /\ \A i \in DOMAIN Args(c) : IsDict(Args(c)[i][2].fields, AllFields, FieldRecs)
  /\ IsDict(sdef, CallNames, DefLabels)
  /\ defval \in [DOMAIN defval -> IdVals] /\ DOMAIN defval \subseteq DefLabels
  /\ DOMAIN smcid \subseteq IdVals \cup DefLabels /\ \A k \in DOMAIN smcid : smcid[k] \in CallNames
  /\ smcname \in CallNames \cup {Unbound}
  /\ argnum \in RegVals \cup {Unbound}
  /\ argname \in AllLabels \cup {Unbound}
  /\ argoccupy \in SUBSET Tokens \cup {Unbound}
  /\ fieldoccupy \in SUBSET (BitPos \X BitPos) \cup {Unbound}

(* No two arguments of a call carry the same register text, whichever of   *)
(* the three argument rules declared them: the register-occupancy checks   *)
(* of lines 100, 132 and 172 must agree on the spelling of a register      *)
(* across str and int conversions, or gen_arg_struct_def defines the same  *)
(* <CALL>_ARG<N> constant twice.                                           *)
RegisterTokensDistinct ==
  \A c \in Range(calls) :
    \A i, j \in DOMAIN arglst[c] : i # j => arglst[c][i].tok # arglst[c][j].tok

(* Every field of an argument records the register of that argument, and   *)
(* that register is one of the call's: the field line (line 221) reads the *)
(* argnum and argname left by the last argument line, which the three      *)
(* argument rules (and an empty argA-argB range) must keep in step.  The   *)
(* fuzzer writes a field into the register recorded with it.               *)
FieldRegisterMatchesArgument ==
  \A c \in Range(calls) : \A i \in DOMAIN Args(c) :
    LET fs == Args(c)[i][2].fields
    IN  \A j, k \in DOMAIN fs :
          /\ fs[j][2].reg.tok = fs[k][2].reg.tok
          /\ \E m \in DOMAIN arglst[c] : arglst[c][m].tok = fs[j][2].reg.tok

(* When the reader finishes, every call declared with a symbolic id has    *)
(* it resolved: its label has a define (before or after the call) and      *)
(* smcid maps the defined id back to a call declared with a label of that  *)
(* id.  generate_var_coverage looks calls up by id through smcid.          *)
DeferredIdsResolved ==
  status = "done" =>
    \A i \in DOMAIN sdef :
      LET id == defval[sdef[i][2]]
      IN  /\ sdef[i][2] \in DOMAIN defval
          /\ id \in DOMAIN smcid
          /\ \E k \in DOMAIN sdef : sdef[k][2] \in DOMAIN defval
                                 /\ defval[sdef[k][2]] = id /\ smcid[id] = sdef[k][1]

-----------------------------------------------------------------------------
(* What the spec says of the IR and the code does not check.              *)

(* No two fields of argument number i of call c overlap (the symmetric    *)
(* test the spec gives in section 9).  Reversed ranges are                 *)
(* FieldBoundsValid's concern and are left out.                            *)
ArgFieldsDisjoint(c, i) ==
  LET fs == Args(c)[i][2].fields
  IN  \A j, k \in DOMAIN fs :
        /\ j # k
        /\ fs[j][2].start <= fs[j][2].end /\ fs[k][2].start <= fs[k][2].end
        => fs[j][2].end < fs[k][2].start \/ fs[k][2].end < fs[j][2].start

(* Spec section 3: within one argument no two fields' [start, end]         *)
(* intervals overlap.  A field line after "argN = VALUE" is appended to    *)
(* that raw-default argument, beside its implicit 0-63 field, and is       *)
(* checked (lines 208-210) against fieldoccupy, which still holds the      *)
(* ranges of the last fielded argument.                                    *)
FieldsDisjoint ==
  \A c \in Range(calls) : \A i \in DOMAIN Args(c) : ArgFieldsDisjoint(c, i)

(* The same for the arguments declared "argN: LABEL", whose fieldoccupy is *)
(* exact: the test of lines 208-210 only asks whether an endpoint of an    *)
(* earlier field lies inside the new one, so a new field strictly inside   *)
(* an earlier one passes (spec section 9, open question).                  *)
FieldedFieldsDisjoint ==
  \A c \in Range(calls) : \A i \in DOMAIN Args(c) :
    Args(c)[i][1] \in Labels => ArgFieldsDisjoint(c, i)

(* Spec section 4.1: the sequencing state machine enforces that every call *)
(* has at least one argument when the file is accepted.                    *)
EveryCallHasArgument ==
  status = "done" => \A c \in Range(calls) : Len(arglst[c]) > 0

(* Spec section 3: a register index is declared at most once per call      *)
(* (duplicate -> fatal error), compared as a number.                       *)
RegistersDistinctNumerically ==
  \A c \in Range(calls) :
    \A i, j \in DOMAIN arglst[c] : i # j => arglst[c][i].tok.n # arglst[c][j].tok.n

(* Spec section 3: fields are append-only, never modified once parsed.     *)
(* Apart from a call name declared again, which resets that call, no step  *)
(* removes a field of an argument or changes its record.                   *)
FieldsAppendOnly ==
  [][\A c \in Range(calls) :
       ~(seq' = 1 /\ smcname' = c /\ argdict'[c] = <<>>) =>
         \A i \in DOMAIN Args(c) :
           LET l == Args(c)[i][1]
               fs == Args(c)[i][2].fields
           IN  \A j \in DOMAIN fs :
                 /\ HasKey(argdict'[c], l)
                 /\ HasKey(Get(argdict'[c], l).fields, fs[j][1])
                 /\ Get(Get(argdict'[c], l).fields, fs[j][1]) = fs[j][2]]_vars
====
