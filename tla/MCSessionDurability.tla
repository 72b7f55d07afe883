------------------------ MODULE MCSessionDurability ------------------------
(* Small instances of SessionDurability for TLC.                           *)
EXTENDS SessionDurability, TLC

(* Only names that no property tells apart: call ids and text contents.    *)
CallSymmetry == Permutations(CallId) \cup Permutations(Text)
WriterSymmetry == CallSymmetry \cup Permutations(Handle)
=============================================================================
