---------------------------- MODULE MCAsmMemory ----------------------------
(* One name, which scopes, shadows and redeclares as well as several would   *)
(* since every clash is between two uses of a name, and one address for ORG. *)
EXTENDS AsmMemory
CONSTANTS x
MCNames == {x}
MCOrigins == {20}
MCNoOrigins == {}
=============================================================================
