---------------------------- MODULE MCInvocation ----------------------------
(***************************************************************************)
(* Small inputs for each part of a run of cpr.                             *)
(***************************************************************************)
EXTENDS Invocation

(* The default file has both profiles, or cannot be read. *)
MCFiles == { [p \in {"default", "c"} |-> IF p = "c" THEN {"a"} ELSE {"a", "b"}],
           [p \in {"default", "c"} |-> IF p = "c" THEN {"b"} ELSE Unreadable] }

(* Home directories: absolute, not in normal form, relative, none. *)
Path(abs, parts) == [abs |-> abs, parts |-> parts]
MCHomes == {Path(TRUE, <<"Users", "u">>), Path(TRUE, <<"Users", "", "x", "..", "u">>),
          Path(FALSE, <<"u">>), Path(FALSE, <<"~">>), Path(FALSE, <<>>)}
MCCwds == {Path(TRUE, <<"tmp">>), Path(TRUE, <<>>)}

(* Short strings, the empty one included; no variable begins like the flag. *)
MCStrings == {<<>>, <<2>>, <<Flag>>, <<Flag, 2>>, <<2, Flag>>}
MCVariables == {<<3>>, <<3, Flag>>}

=============================================================================
