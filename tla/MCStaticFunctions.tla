------------------------ MODULE MCStaticFunctions ------------------------
(* Instances of StaticFunctions: three functions, a class that may call    *)
(* them and a type they may use.                                           *)
EXTENDS StaticFunctions

CONSTANTS f1, f2, f3, class, type
=============================================================================
