----------------------------- MODULE ImageTools -----------------------------
(***************************************************************************)
(* The two tools that read the guest's program and run nothing, one of     *)
(* which is run: the VSync gate and the Ghidra query.                      *)
(***************************************************************************)
EXTENDS VsyncGate

CONSTANTS Words, Functions, NoFunction, MaxArgs          (* GhidraQuery    *)

VARIABLES
  tool,                                         (* the tool that is run    *)
  code, owner, match, question, args, place, pos, hits, listed, miss, status

Ghidra == INSTANCE GhidraQuery WITH mode <- question, at <- place, exit <- status

ASSUME GhidraAssumption == Ghidra!Bounds

ghidraVars == <<code, owner, match, question, args, place, pos, hits, listed, miss, status>>
toolVars == <<tool, gateVars, censusVars, ghidraVars>>

\* The tool that is not run stands at one of its initial states.
ToolInit == tool \in {"gate", "query"} /\ GateInit /\ Ghidra!Init

ToolNext ==
  \/ tool = "gate" /\ GateNext /\ UNCHANGED <<tool, ghidraVars>>
  \/ tool = "query" /\ Ghidra!Next /\ UNCHANGED <<tool, gateVars, censusVars>>

ToolSpec == ToolInit /\ [][ToolNext]_toolVars

-----------------------------------------------------------------------------
\* As in GhidraQuery: func, data, disasm and scan answer in full, and the status
\* of every mode says how it ended.
QueryAnswersInFull == Ghidra!AnswersInFull
=============================================================================
