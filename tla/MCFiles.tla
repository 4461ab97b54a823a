------------------------------ MODULE MCFiles ------------------------------
(* Instances of Files for TLC. *)
EXTENDS Files, TLC

CONSTANTS p1, p2, a, b

One(o, x) == [op |-> o, path |-> x]
Links(x, y) == [op |-> "link", path |-> x, new |-> y]

\* Directories in directories, entered and removed while in use.
TreeCalls ==
  {One("mkdir", <<a>>), One("mkdir", <<a, b>>), One("chdir", <<a, b>>), One("open", <<"..">>),
   One("creat", <<b>>), One("unlink", <<"/", a, b>>), One("unlink", <<"/", a>>),
   Links(<<b>>, <<"/", a>>), Links(<<b>>, <<".">>)}

Symmetry == Permutations({p1, p2})
=============================================================================
