----------------------------- MODULE MCPropPage -----------------------------
(* PropPage with the contents of files for TLC.                            *)
EXTENDS PropPage

Fragment(clusters, extents, virtual) ==
    [clusters |-> clusters, extents |-> extents, virtual |-> virtual]

\* A file in three pieces, one without storage.
MCLayouts == {<<Fragment(2, 1, FALSE), Fragment(3, 2, TRUE), Fragment(2, 2, FALSE)>>}
MCStreamLists == {<<>>, <<"s1">>}
=============================================================================
