--------------------------- MODULE MCDeclaredTools ---------------------------
(***************************************************************************)
(* DeclaredTools with two declarations contesting two names.               *)
(***************************************************************************)
EXTENDS DeclaredTools, TLC

(* Names and permissions are interchangeable, declarations are numbered;    *)
(* used for safety only.                                                    *)
Symmetry == Permutations(Names) \cup Permutations(Permissions)

=============================================================================
