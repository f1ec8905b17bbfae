---------------------------- MODULE MCParseTool ----------------------------
(* Instances of ParseTool.  NoHeaders: sources alone.  HeaderChain: a       *)
(* source whose header includes another header, as onedep includes onetop   *)
(* in the tool's own tests.                                                 *)
EXTENDS ParseTool

CONSTANTS aCpp, bCpp, cCpp, aH, bH

NoHeaders == [f \in Files |-> {}]

HeaderChain == [f \in Files |-> CASE f = bCpp -> {bH} [] f = bH -> {aH} [] OTHER -> {}]
=============================================================================
