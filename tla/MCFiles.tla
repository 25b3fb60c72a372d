------------------------------ MODULE MCFiles ------------------------------
(* Small disks for Files.                                                  *)
EXTENDS Files

\* A root directory with room for another file, one whose file has an indirect
\* block, and a full one.
Motd(size) == [name |-> "motd", size |-> size]
SmallImages == {<<Motd(1)>>, <<Motd(3)>>, <<Motd(1), [name |-> "newmotd", size |-> 1]>>}

\* What a buffer may hold: nothing, a name, one below it, and long ones.
SmallPaths == {<<>>, <<"motd">>, <<"motd", "newmotd">>, <<LONG>>, <<"motd", LONG>>}

\* The same without a path to the root directory.
NamedPaths == SmallPaths \ {<<>>}

\* Zeros, and a text that reads as pointers to the block of motd.
SmallContents == {NoWords, [n \in Indirect |-> 4]}

=============================================================================
