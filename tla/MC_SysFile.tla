------------------------------ MODULE MC_SysFile ------------------------------
(* Instances of SysFile for TLC: three disk inodes, two names, two tasks.  *)
EXTENDS SysFile

P(abs, elems) == [abs |-> abs, elems |-> elems]

\* "/", "/a", "/b", "/a/b", "a", "b", "..", "a/b"
MCPaths ==
    {P(TRUE, <<>>), P(TRUE, <<"a">>), P(TRUE, <<"b">>), P(TRUE, <<"a", "b">>),
     P(FALSE, <<"a">>), P(FALSE, <<"b">>), P(FALSE, <<"..">>), P(FALSE, <<"a", "b">>)}

\* absolute paths only: "/", "/a", "/b", "/a/b"
MCPathsAbs == {P(TRUE, <<>>), P(TRUE, <<"a">>), P(TRUE, <<"b">>), P(TRUE, <<"a", "b">>)}

\* the absolute paths and "..": with every cwd at the root, "a", "b" and
\* "a/b" would only repeat "/a", "/b" and "/a/b"
MCPathsRoot == MCPathsAbs \cup {P(FALSE, <<"..">>)}

\* chdir only to the root: no task works inside a directory that can be removed
MCChdirRoot == {P(TRUE, <<>>)}

\* chdir also into "/a", "/a/b" and ".."
MCChdirAny == {P(TRUE, <<>>), P(TRUE, <<"a">>), P(TRUE, <<"a", "b">>), P(FALSE, <<"..">>)}

MCOpenModes == {O_RDONLY, O_RDWR, O_CREATE + O_RDWR}
====
