---------------------------- MODULE MCToolCalls ----------------------------
(* The tool calls for TLC: one caller that runs every tool and one that    *)
(* runs the tools of one request, beside the analysis task.                *)
EXTENDS ToolCalls, TLC

CONSTANTS c1, c2

MCCallers == {c1, c2}
MCLongest == (c1 :> 20) @@ (c2 :> 1)

\* The annotations of the tools, on this instance.
ASSUME ReadOnlyToolsOnlyRead
=============================================================================
