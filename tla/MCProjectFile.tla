--------------------------- MODULE MCProjectFile ---------------------------
(* Instances of ProjectFile.                                                *)
EXTENDS ProjectFile

CONSTANTS home, docs, backup

AllFaults == {"rename", "dump", "compress", "create", "close", "crash"}
=============================================================================
