--------------------------- MODULE MCVirtualClient ---------------------------
(* Instances of VirtualClient: two session objects for each client, the one *)
(* that ends and the one that takes its place.                              *)
EXTENDS VirtualClient

TwoEach == Clients \X {1, 2}
MadeFor == [s \in TwoEach |-> s[1]]
=============================================================================
