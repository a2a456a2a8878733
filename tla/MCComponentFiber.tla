--------------------------- MODULE MCComponentFiber ---------------------------
(***************************************************************************)
(* Instances of ComponentFiber for TLC: a parent and a child.              *)
(***************************************************************************)
EXTENDS ComponentFiber, TLC

CONSTANTS parent, child, h1, h2, h3, o1

Owners == (h1 :> parent) @@ (h2 :> parent) @@ (h3 :> child)
OwnIds == (h1 :> h1) @@ (h2 :> h2) @@ (h3 :> h3)
OpOwners == (o1 :> child)
OwnOpIds == (o1 :> o1)
Tree == (parent :> {child}) @@ (child :> {})
ActiveOrDraining == {"active", "draining"}

=============================================================================
