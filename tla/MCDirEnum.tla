----------------------------- MODULE MCDirEnum -----------------------------
(***************************************************************************)
(* A tree for TLC: the root holds a, a file and b; a holds c and a file;   *)
(* b holds a file.                                                         *)
(***************************************************************************)
EXTENDS DirEnum

MCDirs == {"root", "a", "b", "c"}
MCEntries ==
    [d \in MCDirs |-> CASE d = "root" -> <<"a", File, "b">>
                        [] d = "a" -> <<"c", File>>
                        [] d = "b" -> <<File>>
                        [] d = "c" -> <<>>]
MCDepth == [d \in MCDirs |-> CASE d = "root" -> 0 [] d = "c" -> 2 [] OTHER -> 1]
=============================================================================
