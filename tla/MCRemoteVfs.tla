---------------------------- MODULE MCRemoteVfs -----------------------------
(* Instances of RemoteVfs for TLC. *)
EXTENDS RemoteVfs, TLC

\* Two entries of the root, which may be files or directories with one entry.
Tree == {<<>>, <<"a">>, <<"b">>, <<"a", "c">>, <<"b", "c">>}

\* One file and its directory.
OneFile == {<<>>, <<"a">>}

\* The tasks run the same code.
TaskSymmetry == Permutations(Procs)
=============================================================================
