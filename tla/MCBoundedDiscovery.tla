---------------------------- MODULE MCBoundedDiscovery ----------------------------
(***************************************************************************)
(* Instances of BoundedDiscovery for TLC: a source that may answer with    *)
(* fresh, repeated, changed and duplicated records, with and without       *)
(* totals, and with every way of going on.                                 *)
(***************************************************************************)
EXTENDS BoundedDiscovery, TLC

Answer(records, next, total) ==
  [records |-> records, next |-> next, total |-> total]

MCPages ==
  {Answer(<<<<"a", 1>>>>, "next", NoTotal),
   Answer(<<<<"a", 1>>, <<"b", 1>>, <<"b", 1>>>>, "terminal", 2),
   Answer(<<<<"a", 2>>>>, "next", NoTotal),
   Answer(<<<<"b", 1>>>>, "terminal", 1),
   Answer(<<>>, "malformed", NoTotal),
   Answer(<<<<"b", 1>>>>, "loop", 2),
   Answer(<<>>, "unsafe", 1)}

MCSymmetry == Permutations(Runners)

=============================================================================
