------------------------ MODULE MCSerializeFunctions ------------------------
(***************************************************************************)
(* Instances of SerializeFunctions for TLC.                                *)
(***************************************************************************)
EXTENDS SerializeFunctionsProofs

CONSTANTS manager, network, printer, main   (* threads, as model values    *)

MCCallers == {manager, network, printer}
=============================================================================
