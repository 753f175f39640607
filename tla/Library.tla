------------------------------ MODULE Library -------------------------------
(***************************************************************************)
(* The library as a client of it sees it: the plugin registry (Registry)   *)
(* and the conversions that stand on their own (Codecs), in any order, one *)
(* call at a time.  They share the manifest parser (Manifest) and nothing  *)
(* else, so the conversions are called while the registry is not in use.   *)
(***************************************************************************)
EXTENDS Registry, Codecs

libraryVars == <<vars, callVars>>

LibraryInit == Init /\ CallInit

RegistryStep == call = "none" /\ Next /\ UNCHANGED callVars

ConversionStep == ~up /\ CallNext /\ UNCHANGED vars

LibraryNext == RegistryStep \/ ConversionStep

LibrarySpec == LibraryInit /\ [][LibraryNext]_libraryVars
=============================================================================
