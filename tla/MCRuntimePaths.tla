-------------------------- MODULE MCRuntimePaths --------------------------
(***************************************************************************)
(* A root reached through a directory that may be a link, a second place   *)
(* it may be moved to, and a user who rearranges both and the profiles.    *)
(***************************************************************************)
EXTENDS RuntimePaths

Here == <<"home", "cpr">>
There == <<"volume", "cpr">>
MCRoot == Here
OfA(root) == root \o <<"profiles", "a">>
OfB(root) == root \o <<"profiles", "b">>
DataA(root) == Append(OfA(root), "chatgpt-user-data")

MCDisk == [p \in {<<>>, <<"home">>, <<"volume">>} |-> Dir(FALSE)]

MCRemovable == {<<"home">>, Here, OfA(Here), DataA(Here)}
MCLinkable == { <<Here, There>>, << <<"home">>, <<"volume">> >>,
                <<OfA(Here), OfB(Here)>>, <<DataA(Here), OfB(Here)>>,
                <<DataA(Here), DataA(Here)>> }
MCMovable == { <<Here, There>>, <<There, Here>>, <<OfA(Here), OfB(Here)>> }

=============================================================================
