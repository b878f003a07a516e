---------------------------- MODULE MCWriteGraph ----------------------------
(* Instances of WriteGraph for TLC. *)
EXTENDS WriteGraph, TLC

CONSTANTS a, b, c, x

MCItems == {a, b, c}
MCOutside == {x}

Chain(order, deps) == [order |-> order, deps |-> deps @@ [i \in MCItems |-> {}]]

\* One item; a chain listed in order, and against it; an item that waits for
\* another scope; as many items as the limit.
MCPlans ==
    {Chain(<<a>>, <<>>),
     Chain(<<a, b>>, b :> {a}),
     Chain(<<b, a>>, b :> {a}),
     Chain(<<a, b>>, b :> {x}),
     Chain(<<b, c, a>>, b :> {a} @@ c :> {a, b})}
=============================================================================
