---------------------------- MODULE ToolScripts ----------------------------
(***************************************************************************)
(* What each tool of a worker's server does, as the sequence of awaits its *)
(* handler goes through (src/src/server/tools/*.rs).                       *)
(*                                                                         *)
(* A tool is its read_only annotation and the set of scripts its handler   *)
(* may run, one per combination of parameters the control flow tells       *)
(* apart.  The steps of a script are:                                      *)
(*   Sample        analysis_coverage(): AnalysisStatus is asked, and the   *)
(*                 answer is the badge of the reply; a failure gives the   *)
(*                 badge "unknown" and never ends the call;                *)
(*   Ask(r, on)    request r is sent and awaited; "on" says what a failure *)
(*                 does: "fail" ends the call with the error, "entry"      *)
(*                 reports it inside the reply, "silent" drops it,         *)
(*                 "invalid" ends the call as a bad parameter;             *)
(*   Resolve(r, n) the same, a failure being reported inside the reply and *)
(*                 skipping the n steps that needed the answer;            *)
(*   Foreground(r) run_foreground_operation: r is awaited until it is      *)
(*                 answered, times out, or the client cancels;             *)
(*   Spawn         a background task takes over and the call is answered.  *)
(* Parameters are parsed before the first await, and a bad one ends the    *)
(* call before it did anything, so parsing is not a step.  The close and   *)
(* open tools are in IdaLoop and DscBackground; here a database is open    *)
(* throughout.                                                             *)
(***************************************************************************)
EXTENDS IdaRequests, Sequences, Naturals

CONSTANT
    MaxTargets   \* how many addresses, tokens or patterns a batch may name

ASSUME MaxTargetsAssumption == MaxTargets \in Nat \ {0}

Step(do, name, ends, skip) ==
    [do |-> do, req |-> Request(name), ends |-> ends, skip |-> skip]

Sample        == Step("sample", "AnalysisStatus", FALSE, 0)
Ask(r, on)    == Step("ask", r, on \in {"fail", "invalid"}, 0)
Resolve(r, n) == Step("ask", r, FALSE, n)
Foreground(r) == Step("ask", r, TRUE, 0)
Spawn         == Step("spawn", "AnalyzeFuncs", TRUE, 0)

\* `targets` copies of a part, one per target of a batch.
Repeat(part, targets) ==
    [i \in 1 .. targets * Len(part) |-> part[((i - 1) % Len(part)) + 1]]

ReadOnly(scripts) == [read_only |-> TRUE, scripts |-> scripts]
Writes(scripts)   == [read_only |-> FALSE, scripts |-> scripts]

\* One request; a failure is the call's failure.
One(r) == {<<Ask(r, "fail")>>}

\* The same with a badge, sampled before the request it describes.
Covered(r) == {<<Sample, Ask(r, "fail")>>}

\* One entry per target: failures are entries of the reply.
Collect(before, r) ==
    {before \o Repeat(<<Ask(r, "entry")>>, n) : n \in 1 .. MaxTargets}

\* A batch answers a single target directly and several as entries.
Batch(before, r) ==
    {before \o <<Ask(r, "fail")>>}
        \cup {before \o Repeat(<<Ask(r, "entry")>>, n) : n \in 2 .. MaxTargets}

---------------------------------------------------------------------------
(* tools/functions.rs                                                      *)
\* As if the badge were sampled after the listing it describes.
list_functions_late == ReadOnly({<<Ask("ListFunctions", "fail"), Sample>>})

list_functions     == ReadOnly(Covered("ListFunctions"))
list_funcs         == ReadOnly(Covered("ListFunctions"))
resolve_function   == ReadOnly({<<Ask("ResolveFunction", "fail")>>})
function_at        == ReadOnly(One("FunctionAt"))
disasm             == ReadOnly(Batch(<<>>, "Disasm"))
disasm_by_name     == ReadOnly(One("DisasmByName"))
disasm_function_at == ReadOnly(One("DisasmFunctionAt"))
decompile          == ReadOnly(Batch(<<>>, "Decompile"))
pseudocode_at      == ReadOnly(Batch(<<>>, "PseudocodeAt"))
lookup_funcs       == ReadOnly(One("LookupFunctions"))

\* The badge comes first even here, before the parameters are parsed.
export_funcs ==
    ReadOnly({<<Sample, Ask("LookupFunctions", "fail")>>,
              <<Sample, Ask("ExportFuncs", "fail")>>,
              <<Sample>>})  \* a bad parameter

(* tools/metadata.rs                                                       *)
addr_info   == ReadOnly(Covered("AddrInfo"))
segments    == ReadOnly({<<Ask("Segments", "fail")>>})
imports     == ReadOnly(Covered("Imports"))
exports     == ReadOnly(Covered("Exports"))
entrypoints == ReadOnly({<<Ask("Entrypoints", "fail")>>})

(* tools/xrefs.rs and xrefs_lookup                                         *)
xrefs_lookup(direction) == Batch(<<Sample>>, direction)
xrefs_to        == ReadOnly(xrefs_lookup("XRefsTo"))
xrefs_from      == ReadOnly(xrefs_lookup("XRefsFrom"))
xrefs_to_string == ReadOnly(Covered("XrefsToString"))
xref_matrix     == ReadOnly(Covered("XrefMatrix"))
xrefs_to_field  == ReadOnly(Covered("XRefsToField"))

(* tools/controlflow.rs                                                    *)
basic_blocks == ReadOnly(Batch(<<Sample>>, "BasicBlocks"))
callees      == ReadOnly(Batch(<<Sample>>, "Callees"))
callers      == ReadOnly(Batch(<<Sample>>, "Callers"))
find_paths   == ReadOnly(Covered("FindPaths"))
callgraph    == ReadOnly(Batch(<<Sample>>, "CallGraph"))

(* tools/memory.rs and server/bytes.rs                                     *)
get_int_values     == Batch(<<>>, "ReadInt")
get_typed_int_values == Batch(<<>>, "GetInt")
strings            == ReadOnly(Covered("Strings"))
find_string        == ReadOnly(Covered("FindString"))
get_bytes          == ReadOnly(Batch(<<>>, "GetBytes"))
list_globals       == ReadOnly(Covered("ListGlobals"))
analyze_strings    == ReadOnly(Covered("AnalyzeStrings"))
find_bytes         == ReadOnly(Collect(<<>>, "FindBytes"))
search             == ReadOnly(Collect(<<Sample>>, "SearchText")
                        \cup Collect(<<Sample>>, "SearchImm")
                        \cup {<<Sample>>})  \* an unparsable immediate
get_u8             == ReadOnly(get_int_values)
get_u16            == ReadOnly(get_int_values)
get_u32            == ReadOnly(get_int_values)
get_u64            == ReadOnly(get_int_values)
make_signature     == ReadOnly(Batch(<<>>, "MakeSignature"))
get_int            == ReadOnly(get_typed_int_values)
put_int            == Writes(One("PutInt"))
get_string         == ReadOnly(Batch(<<>>, "GetString"))
get_global_value   == ReadOnly(Batch(<<>>, "GetGlobalValue"))
int_convert        == ReadOnly({<<>>})
find_insns         == ReadOnly(Covered("FindInsns"))
find_insn_operands == ReadOnly(Covered("FindInsnOperands"))

(* tools/types.rs: a mutation IDA refused (type_mutation_failure, a        *)
(* nonzero code) is answered as a failure of the call, like an error.      *)
local_types    == ReadOnly(Covered("LocalTypes"))
declare_type   == Writes({<<Ask("DeclareType", "fail")>>})
stack_frame    == ReadOnly(One("StackFrame"))
declare_stack  == Writes(One("DeclareStack"))
delete_stack   == Writes(One("DeleteStack"))
structs        == ReadOnly(Covered("Structs"))
struct_info    == ReadOnly(One("StructInfo"))
read_struct    == ReadOnly(Collect(<<>>, "ReadStruct"))
search_structs == ReadOnly(Covered("Structs"))
apply_types    == Writes(One("ApplyTypes"))
infer_types    == ReadOnly(One("InferTypes"))

(* tools/editing.rs                                                        *)
lumina_lookup  == ReadOnly(One("LuminaLookup"))
lumina_apply   == Writes(One("LuminaApply"))
bookmark_add   == Writes(One("AddBookmark"))
sdk_mutation   == Writes(One("SdkEdit") \cup One("SdkRead"))
comment_append == Writes(One("AppendComment"))
set_comments   == Writes(One("SetComments"))
patch_asm      == Writes(One("PatchAsm"))
rename         == Writes(One("Rename"))
patch          == Writes(One("PatchBytes"))

---------------------------------------------------------------------------
(* tools/composite.rs: several requests for one reply.                     *)

\* Seven listings that each fail the call, then the metrics pass, the only
\* step that degrades.
survey_listings ==
    <<Sample, Ask("IdbMeta", "fail"), Ask("Segments", "fail"),
      Ask("Entrypoints", "fail"), Ask("ListFunctions", "fail"),
      Ask("Strings", "fail"), Ask("Imports", "fail"), Ask("Exports", "fail")>>
survey_binary ==
    ReadOnly({survey_listings,
              survey_listings \o <<Ask("SdkRead", "entry")>>})

\* The sections of one function's dossier; the callers and callees are the
\* ones no flag leaves out.
analyze_function_sections(all) ==
    IF all THEN <<Ask("Decompile", "entry"), Ask("DisasmFunctionAt", "entry"),
                  Ask("Callers", "entry"), Ask("Callees", "entry"),
                  Ask("StackFrame", "entry"), Ask("BasicBlocks", "entry")>>
           ELSE <<Ask("Callers", "entry"), Ask("Callees", "entry")>>
analyze_function_scripts(all) ==
    {(IF all THEN <<Ask("XrefsToString", "entry")>> ELSE <<>>)
        \o Repeat(<<Resolve("FunctionAt", Len(analyze_function_sections(all)))>>
                    \o analyze_function_sections(all), n)
     : n \in 1 .. MaxTargets}
analyze_function ==
    ReadOnly(analyze_function_scripts(TRUE)
                \cup analyze_function_scripts(FALSE))

\* Every token must resolve; what is read of each function afterwards may
\* fail without a trace in the reply.
component_function ==
    <<Ask("Callees", "silent"), Ask("Callers", "silent"),
      Ask("BasicBlocks", "silent"), Ask("XRefsFrom", "silent"),
      Ask("FunctionAt", "silent")>>
analyze_component ==
    ReadOnly({<<Sample>>
                \o Repeat(<<Ask("FunctionAt", "invalid")>>, n)
                \o <<Ask("XrefsToString", "entry")>>
                \o Repeat(component_function, n)
                \o <<Ask("AddrInfo", "silent")>>
              : n \in 1 .. MaxTargets})

\* The one composite that edits: decompile, act, drop the cached result,
\* decompile again.
diff_before_after ==
    Writes({<<Ask("FunctionAt", "fail"), Ask("Decompile", "entry"),
              Ask(action, "fail"), Ask("SdkEdit", "entry"),
              Ask("Decompile", "entry")>>
            : action \in {"Rename", "ApplyTypes", "SetComments"}})

trace_data_flow_node == <<Ask("AddrInfo", "silent"), Ask("Disasm", "silent")>>
trace_data_flow_scripts(xrefs) ==
    {<<Sample>> \o trace_data_flow_node
        \o Repeat(<<Ask(xrefs, "silent")>> \o trace_data_flow_node, hops)
     : hops \in 0 .. MaxTargets}
trace_data_flow ==
    ReadOnly(trace_data_flow_scripts("XRefsFrom")
                \cup trace_data_flow_scripts("XRefsTo"))

profile_sections ==
    <<Ask("Callers", "entry"), Ask("Callees", "entry"),
      Ask("BasicBlocks", "entry")>>
func_profile ==
    ReadOnly({<<Sample, Ask("XrefsToString", "entry")>>
                \o Repeat(<<Resolve("FunctionAt", Len(profile_sections))>>
                            \o profile_sections, n)
              : n \in 1 .. MaxTargets})

---------------------------------------------------------------------------
(* tools/database.rs                                                       *)
load_debug_info   == Writes({<<Ask("LoadDebugInfo", "fail")>>})
analysis_status   == ReadOnly({<<Ask("AnalysisStatus", "fail")>>})
tool_catalog      == ReadOnly({<<>>})
tool_help         == ReadOnly({<<>>})
idb_meta          == ReadOnly({<<Sample, Ask("IdbMeta", "fail")>>})
analyze_funcs     == Writes({<<Foreground("AnalyzeFuncs")>>, <<Spawn>>})
dsc_add_dylib     == Writes({<<Ask("DscLoadImage", "fail"),
                               Ask("AnalysisStatus", "entry")>>})
dsc_add_region    == Writes({<<Ask("DscLoadRegion", "fail"),
                               Ask("AnalysisStatus", "entry")>>})
dsc_list_images   == ReadOnly(One("DscImages"))
dsc_image_deps    == ReadOnly(One("DscImageDeps"))
dsc_find_symbols  == ReadOnly(One("DscFindSymbols"))
dsc_find_strings  == ReadOnly(One("DscFindStrings"))
dsc_region_at     == ReadOnly(One("DscRegionAt"))
task_status       == ReadOnly({<<>>})
recent_operations == ReadOnly({<<>>})
run_script        == Writes({<<Foreground("RunScript")>>})

Tools ==
    {list_functions, list_funcs, resolve_function, function_at, disasm,
     disasm_by_name, disasm_function_at, decompile, pseudocode_at,
     lookup_funcs, export_funcs,
     addr_info, segments, imports, exports, entrypoints,
     xrefs_to, xrefs_from, xrefs_to_string, xref_matrix, xrefs_to_field,
     basic_blocks, callees, callers, find_paths, callgraph,
     strings, find_string, get_bytes, list_globals, analyze_strings,
     find_bytes, search, get_u8, get_u16, get_u32, get_u64, make_signature,
     get_int, put_int, get_string, get_global_value, int_convert,
     find_insns, find_insn_operands,
     local_types, declare_type, stack_frame, declare_stack, delete_stack,
     structs, struct_info, read_struct, search_structs, apply_types,
     infer_types,
     lumina_lookup, lumina_apply, bookmark_add, sdk_mutation,
     comment_append, set_comments, patch_asm, rename, patch,
     survey_binary, analyze_function, analyze_component, diff_before_after,
     trace_data_flow, func_profile,
     load_debug_info, analysis_status, tool_catalog, tool_help, idb_meta,
     analyze_funcs, dsc_add_dylib, dsc_add_region, dsc_list_images,
     dsc_image_deps, dsc_find_symbols, dsc_find_strings, dsc_region_at,
     task_status, recent_operations, run_script}

\* A tool annotated read_only sends no request that edits or analyses;
\* survey_binary's comment argues it for the one SdkMutation it sends.
ReadOnlyToolsOnlyRead ==
    \A tool \in Tools : tool.read_only =>
        \A script \in tool.scripts : \A i \in DOMAIN script :
            script[i].req.effect = "read"
=============================================================================
