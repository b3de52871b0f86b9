---------------------------- MODULE SmcGenerate -----------------------------
(***************************************************************************)
(* The driver smc_fuzz/script/generate_smc.py: it runs the reader over the *)
(* DSL file, then writes include/arg_struct_def.h and                      *)
(* include/field_specification.h from the reader's module-level tables.    *)
(* The reader is SmcReader, unchanged; the driver adds the two header      *)
(* files and the process exit status.  A Python exception ends the         *)
(* process with status 1, sys.exit() with no argument with status 0.       *)
(***************************************************************************)
EXTENDS FieldSpecification

VARIABLES
  phase,       \* "read" (line 29), "emit" (lines 41-44), "ended"
  asdHeader,   \* the #define lines written to arg_struct_def.h; <<>> while
               \* the file is not written (a written one has MAX_SMC_CALLS)
  fsWritten,   \* field_specification.h has been written
  exitCode     \* the process exit status once phase = "ended", else Running

Running == -1

gvars == <<phase, asdHeader, fsWritten, exitCode>>
allVars == <<vars, gvars>>

GenInit ==
  /\ Init
  /\ phase = "read"
  /\ asdHeader = <<>>
  /\ fsWritten = FALSE
  /\ exitCode = Running

(* Line 29: one step of readsmclist().                                     *)
Read ==
  /\ phase = "read"
  /\ \/ ReadLine
     \/ status = "reading" /\ EndOfFile
  /\ UNCHANGED gvars

(* Seeded bug for GenTypeOK: the driver stops without an exit status (as  *)
(* if the reader's sys.exit() were caught and ignored).                    *)
ReaderEndedNoStatus ==
  /\ phase = "read"
  /\ status \in {"exit", "crash"}
  /\ phase' = "ended"
  /\ UNCHANGED <<vars, asdHeader, fsWritten, exitCode>>

(* The reader left the process: sys.exit() (status 0) or an exception      *)
(* (status 1); no header is written.                                       *)
ReaderEnded ==
  /\ phase = "read"
  /\ status \in {"exit", "crash"}
  /\ phase' = "ended"
  /\ exitCode' = IF status = "exit" THEN 0 ELSE 1
  /\ UNCHANGED <<vars, asdHeader, fsWritten>>

(* Lines 31-41: the reader returned; gen_arg_struct_def writes the header. *)
GenArgStructDef ==
  /\ phase = "read"
  /\ status = "done"
  /\ phase' = "emit"
  /\ asdHeader' = ArgStructDefHeader
  /\ UNCHANGED <<vars, fsWritten, exitCode>>

(* Lines 43-44: gen_field_specification is called with six arguments and   *)
(* declares seven (argres has no value), so the call raises TypeError      *)
(* before its body runs and field_specification.h is not written.          *)
GenFieldSpecification ==
  /\ phase = "emit"
  /\ phase' = "ended"
  /\ exitCode' = 1
  /\ UNCHANGED <<vars, asdHeader, fsWritten>>

GenHalted == phase = "ended" /\ UNCHANGED allVars

GenNext == Read \/ ReaderEnded \/ GenArgStructDef \/ GenFieldSpecification \/ GenHalted

GenSpec == GenInit /\ [][GenNext]_allVars

-----------------------------------------------------------------------------
GenTypeOK ==
  /\ phase \in {"read", "emit", "ended"}
  /\ fsWritten \in BOOLEAN
  /\ exitCode \in {Running, 0, 1}
  /\ (phase = "ended") = (exitCode # Running)

(* Spec section 2: the generator turns an accepted DSL file into both      *)
(* headers.  Whenever the driver has finished and the reader accepted the  *)
(* file, arg_struct_def.h and field_specification.h have both been written.*)
AcceptedFileYieldsHeaders ==
  phase = "ended" /\ status = "done" => asdHeader # <<>> /\ fsWritten

(* A build step that runs generate_smc.py treats exit status 0 as success: *)
(* the process ends with status 0 only after both headers were written     *)
(* (the reader's sys.exit() on a malformed file says otherwise).           *)
ExitZeroMeansGenerated ==
  phase = "ended" /\ exitCode = 0 => asdHeader # <<>> /\ fsWritten
=============================================================================
