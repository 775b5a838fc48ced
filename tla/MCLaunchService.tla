-------------------------- MODULE MCLaunchService --------------------------
(***************************************************************************)
(* Two launches, of one profile or of two, from the states of the runtime  *)
(* directories that lead the code into different branches.                 *)
(***************************************************************************)
EXTENDS LaunchService

CONSTANTS A, B, l1, l2

All(kind) == [p \in Path |-> kind]

(* Nothing has been launched yet. *)
Fresh == All("absent")

(* Both profiles were launched before, and the modes widened since. *)
Loose == All("shared")

(* A launch of A got as far as its profile directory. *)
HalfMade == [p \in Path |-> IF p \in {Root, Owned(A)[1], Owned(A)[2]}
                            THEN "private" ELSE "absent"]

(* The root is a link to a directory that was prepared before. *)
LinkedRoot == [All("private") EXCEPT ![Root] = "alias"]

(* A's codex-home was replaced by a link. *)
LinkedHome == [All("private") EXCEPT ![Owned(A)[3]] = "alias"]

(* A file where the root should be. *)
Blocked == [Fresh EXCEPT ![Root] = "file"]

MCLayouts == {Fresh, Loose, HalfMade, LinkedRoot, LinkedHome, Blocked}

FreshOnly == {Fresh}

=============================================================================
