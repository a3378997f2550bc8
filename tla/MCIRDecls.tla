------------------------------ MODULE MCIRDecls ------------------------------
(* Names and spellings for checking IRDecls.  "OPTIONAL_BOOL" as a user   *)
(* type name is the collision Finalize() must reject.                     *)
EXTENDS IRDecls

MCMaroons == {"m1", "m2"}
MCFibers == {"global"}
MCFns == {"main"}
MCUserTypes == {"P", "OPTIONAL_BOOL"}
MCBases == {"U64", "BOOL"}
MCArgPlain == [opt : {FALSE}, name : MCBases]
MCArgAny == [opt : BOOLEAN, name : MCBases]

=============================================================================
