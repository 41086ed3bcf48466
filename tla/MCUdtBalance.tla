---------------------------- MODULE MCUdtBalance ----------------------------
(***************************************************************************)
(* Tokens of the three types: rows touched twice on a branch, and          *)
(* differently on another one.                                             *)
(***************************************************************************)
EXTENDS UdtBalance, TLC

CONSTANTS g, a1, b1, b2, burn, h, f, n, m     \* model values

\* a1 is rolled back when the node has b2.
McBlockId == {g, a1, b1, b2}
McParent == (g :> g) @@ (a1 :> g) @@ (b1 :> g) @@ (b2 :> b1)
McNumber == (g :> 0) @@ (a1 :> 1) @@ (b1 :> 1) @@ (b2 :> 2)
McAnc == (g :> {}) @@ (a1 :> {g}) @@ (b1 :> {g}) @@ (b2 :> {g, b1})

Moves(from, to, token, id, log) ==
    [from |-> from, to |-> to, token |-> token, id |-> id, log_index |-> log]

McTransfersOf ==
    (g :> {Moves(burn, h, f, NoId, 0)}) @@
    (a1 :> {Moves(burn, h, f, NoId, 0),
            Moves(burn, h, n, 1, 1), Moves(h, burn, n, 1, 2)}) @@
    (b1 :> {Moves(burn, h, m, 1, 0)}) @@
    (b2 :> {})

\* What came in, less what went out.
McBal ==
    [b \in McBlockId |-> [k \in Key |->
        LET moved == UNION {{<<c, x>> : x \in McTransfersOf[c]} : c \in McAnc[b] \cup {b}}
            of == {p \in moved : p[2].token = k.token
                                 /\ (k.token \in Erc721 \/ p[2].id = k.id)}
        IN  Cardinality({p \in of : p[2].to = k.address})
              - Cardinality({p \in of : p[2].from = k.address})]]
=============================================================================
