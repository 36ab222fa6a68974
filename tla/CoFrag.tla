------------------------------- MODULE CoFrag -------------------------------
(***************************************************************************)
(* The objects of CoFrag.Dll at work on one file: the defragmenter moves   *)
(* it while the fragments object opens it and its enumerators are used.    *)
(***************************************************************************)
EXTENDS FileFragments, FileDefragmenter

CoFragInit == FragmentsInit /\ DefragInit
CoFragNext ==
    \/ FragmentsNext(file) /\ UNCHANGED defragVars
    \/ DefragNext /\ UNCHANGED fragmentsVars

CoFragSpec == CoFragInit /\ [][CoFragNext]_<<fragmentsVars, defragVars>>
=============================================================================
