-------------------------- MODULE MCLoadStoreQueues --------------------------
(***************************************************************************)
(* Bounds for checking LoadStoreQueues.  Two widths over a few neighbouring*)
(* addresses give every relation of a store to a load: disjoint, equal,    *)
(* covering at either end, covered, and overlapping on either side.        *)
(***************************************************************************)
EXTENDS LoadStoreQueues

Access(kind, addr, size) == [kind |-> kind, addr |-> addr, size |-> size]

MCOps ==
  {Access("load", 1, 1), Access("load", 0, 2), Access("load", 1, 2),
   Access("store", 0, 1), Access("store", 1, 1), Access("store", 0, 2), Access("store", 1, 2)}

\* Accesses that run over the end of the address space.
WrapOps ==
  {Access("load", 0, 2), Access("store", 3, 2)}
=============================================================================
