------------------------- MODULE MCAppStateCommands -------------------------
(* Workspaces, projects and conversations are interchangeable, and every   *)
(* property of the passing run is an invariant.                            *)
EXTENDS AppStateCommands, TLC

Symmetry == Permutations(Workspace) \union Permutations(Project) \union Permutations(Talk)

=============================================================================
