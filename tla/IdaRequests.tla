---------------------------- MODULE IdaRequests ----------------------------
(***************************************************************************)
(* The requests of the IDA loop, as the two ends of its channel see them.  *)
(*                                                                         *)
(* A method of IdaWorker (src/src/ida/worker.rs) sends one request with    *)
(* try_send and then either awaits the answer for as long as it takes      *)
(* (Waits) or gives up after a timeout and leaves the request behind in    *)
(* the channel (Timed).  The observed forms of analyze_funcs and           *)
(* run_script wait, and carry a cancellation token instead (Cancellable).  *)
(*                                                                         *)
(* The arm of run_ida_loop that serves it (src/src/ida/main_loop.rs) runs  *)
(* a handler that reads the database, edits it, or runs the analysis; it   *)
(* does so under crash_guarded or bare.  The two tables below follow the   *)
(* order of the code.                                                      *)
(***************************************************************************)

Timed       == "timed"        \* recv_with_timeout(rx, timeout_secs)
Waits       == "waits"        \* rx.await
Cancellable == "cancellable"  \* rx.await, with a token the caller can cancel

\* The union of tables that have no name in common.
Table(parts) ==
    [name \in UNION {DOMAIN part : part \in parts} |->
        (CHOOSE part \in parts : name \in DOMAIN part)[name]]

---------------------------------------------------------------------------
(* How the caller waits, method by method.                                 *)

LifecycleCalls ==
    [LoadDebugInfo |-> Waits, AnalysisStatus |-> Waits]

DscCalls ==
    [DscLoadImage |-> Timed, DscLoadRegion |-> Timed, DscImages |-> Timed,
     DscImageDeps |-> Timed, DscFindSymbols |-> Timed,
     DscFindStrings |-> Timed, DscRegionAt |-> Timed]

CodeCalls ==
    [ListFunctions |-> Timed, ResolveFunction |-> Waits,
     DisasmByName |-> Waits, Disasm |-> Waits, Decompile |-> Waits,
     Segments |-> Waits, Strings |-> Timed, LocalTypes |-> Timed,
     DeclareType |-> Waits, ApplyTypes |-> Waits, InferTypes |-> Waits]

AddressCalls ==
    [AddrInfo |-> Waits, FunctionAt |-> Waits, DisasmFunctionAt |-> Waits,
     DeclareStack |-> Waits, DeleteStack |-> Waits, StackFrame |-> Waits,
     Structs |-> Timed, StructInfo |-> Waits, ReadStruct |-> Waits]

\* As if lumina_apply honoured the timeout its tool parses.
ReferenceCallsTimed ==
    [XRefsTo |-> Timed, XRefsFrom |-> Timed, XRefsToField |-> Waits,
     Imports |-> Waits, Exports |-> Waits, Entrypoints |-> Waits,
     LuminaLookup |-> Timed, LuminaApply |-> Timed, GetBytes |-> Waits]

ReferenceCalls ==
    [XRefsTo |-> Timed, XRefsFrom |-> Timed, XRefsToField |-> Waits,
     Imports |-> Waits, Exports |-> Waits, Entrypoints |-> Waits,
     LuminaLookup |-> Timed, LuminaApply |-> Waits, GetBytes |-> Waits]

\* One request carries every SdkMutation; its variants are told apart here
\* because their arms differ.
EditCalls ==
    [SetComments |-> Waits, AddBookmark |-> Waits,
     SdkEdit |-> Waits, SdkRead |-> Waits,
     AppendComment |-> Waits, Rename |-> Waits, PatchBytes |-> Waits,
     PatchAsm |-> Waits]

GraphCalls ==
    [BasicBlocks |-> Waits, Callees |-> Waits, Callers |-> Waits,
     IdbMeta |-> Waits, LookupFunctions |-> Waits, ListGlobals |-> Timed,
     AnalyzeStrings |-> Timed, FindString |-> Timed,
     XrefsToString |-> Timed, AnalyzeFuncs |-> Cancellable]

SearchCalls ==
    [FindBytes |-> Timed, SearchText |-> Timed, SearchImm |-> Timed,
     FindInsns |-> Timed, FindInsnOperands |-> Timed,
     MakeSignature |-> Timed, GetInt |-> Timed, PutInt |-> Timed]

ValueCalls ==
    [ReadInt |-> Waits, GetString |-> Waits, GetGlobalValue |-> Waits,
     FindPaths |-> Waits, CallGraph |-> Waits, XrefMatrix |-> Waits,
     ExportFuncs |-> Waits, RunScript |-> Cancellable,
     PseudocodeAt |-> Waits]

Calls ==
    Table({LifecycleCalls, DscCalls, CodeCalls, AddressCalls, ReferenceCalls,
           EditCalls, GraphCalls, SearchCalls, ValueCalls})

---------------------------------------------------------------------------
(* What the arm does, arm by arm.                                          *)

Reads    == [effect |-> "read", guarded |-> TRUE]
BareRead == [effect |-> "read", guarded |-> FALSE]
Edits    == [effect |-> "edit", guarded |-> TRUE]
Analyses == [effect |-> "analyse", guarded |-> TRUE]

LoaderArms ==
    [LoadDebugInfo |-> Edits, AnalysisStatus |-> Reads,
     DscLoadImage |-> Edits, DscLoadRegion |-> Edits]

DscArms ==
    [DscImages |-> Reads, DscImageDeps |-> Reads, DscFindSymbols |-> Reads,
     DscFindStrings |-> Reads, DscRegionAt |-> Reads]

\* list_functions is the one listing without a guard.
CodeArms ==
    [ListFunctions |-> BareRead, ResolveFunction |-> Reads,
     DisasmByName |-> Reads, Disasm |-> Reads, Decompile |-> Reads,
     Segments |-> Reads, Strings |-> Reads, LocalTypes |-> Reads]

TypeArms ==
    [DeclareType |-> Edits, ApplyTypes |-> Edits, InferTypes |-> Reads,
     AddrInfo |-> BareRead, FunctionAt |-> BareRead,
     DisasmFunctionAt |-> BareRead]

StackArms ==
    [DeclareStack |-> Edits, DeleteStack |-> Edits, StackFrame |-> Reads,
     Structs |-> Reads, StructInfo |-> Reads, ReadStruct |-> Reads]

ReferenceArms ==
    [XRefsTo |-> Reads, XRefsFrom |-> Reads, XRefsToField |-> Reads,
     Imports |-> Reads, Exports |-> Reads, Entrypoints |-> Reads,
     LuminaLookup |-> Reads, LuminaApply |-> Edits, GetBytes |-> Reads,
     AddBookmark |-> Edits]

\* SurveyMetrics and SignatureBytes count and read; the other variants of
\* SdkMutation change the database, or what it was decompiled to.
SdkArms ==
    [SdkEdit |-> Edits, SdkRead |-> Reads]

EditArms ==
    [SetComments |-> Edits, AppendComment |-> Edits, Rename |-> Edits,
     PatchBytes |-> Edits, PatchAsm |-> Edits]

GraphArms ==
    [BasicBlocks |-> Reads, Callees |-> Reads, Callers |-> Reads,
     IdbMeta |-> Reads, LookupFunctions |-> Reads, ListGlobals |-> Reads,
     AnalyzeStrings |-> Reads, FindString |-> Reads,
     XrefsToString |-> Reads, AnalyzeFuncs |-> Analyses]

SearchArms ==
    [FindBytes |-> Reads, SearchText |-> Reads, SearchImm |-> Reads,
     FindInsns |-> Reads, FindInsnOperands |-> Reads,
     MakeSignature |-> Reads, ReadInt |-> Reads, GetInt |-> Reads,
     PutInt |-> Edits, GetString |-> Reads, GetGlobalValue |-> Reads]

PathArms ==
    [FindPaths |-> Reads, CallGraph |-> Reads, XrefMatrix |-> Reads,
     ExportFuncs |-> Reads, PseudocodeAt |-> Reads, RunScript |-> Edits]

Arms ==
    Table({LoaderArms, DscArms, CodeArms, TypeArms, StackArms, ReferenceArms,
           SdkArms, EditArms, GraphArms, SearchArms, PathArms})

\* A request as the channel carries it: who waits how, what the arm does.
\* Only a change somebody can stop waiting for keeps its name.
Request(name) ==
    [wait    |-> Calls[name],
     effect  |-> Arms[name].effect,
     guarded |-> Arms[name].guarded,
     name    |-> IF Arms[name].effect = "read" \/ Calls[name] = Waits
                 THEN Arms[name].effect ELSE name]
=============================================================================
