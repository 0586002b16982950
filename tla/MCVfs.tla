------------------------------- MODULE MCVfs -------------------------------
(* A small instance of Vfs: one writable filesystem with a directory that  *)
(* has room for a file, and the pipe filesystem.                           *)
EXTENDS Vfs, TLC

CONSTANTS p1, p2, c1, c2, c3, root, dir, file, fresh, pipes, pipe1

MCProcs == {p1, p2}
MCCustodies == {c1, c2, c3}
MCNodes == {root, dir, file, fresh, pipes, pipe1}
MCMounts == {root, pipes}
MCDirs == {root, dir, pipes}
MCParentOf == (root :> None) @@ (pipes :> None) @@ (dir :> root)
                @@ (file :> dir) @@ (fresh :> dir) @@ (pipe1 :> pipes)
MCOnMedium == {root, pipes, dir, file}

\* "/dir"; "/dir/fresh", which a process may create; and "/dir/fresh/file",
\* whose walk fails midway until fresh exists and on a file afterwards.
MCPaths == [root : {root},
            comps : {<<dir>>, <<dir, fresh>>, <<dir, fresh, file>>}]

Symmetry == Permutations(MCCustodies)
=============================================================================
