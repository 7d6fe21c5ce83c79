-------------------------- MODULE MCNodeRegistry --------------------------
\* Two machines: the first sends with the mac that its id implies, the second
\* also with another one, from a network card that the guest reconfigured.
EXTENDS NodeRegistry, TLC

CONSTANTS m1, m2, g2, d1, d2, e2, c1, c2

Bases == (1 :> m1) @@ (2 :> m2)
Cards == (1 :> {m1}) @@ (2 :> {m2, g2})
Ports == (1 :> {d1}) @@ (2 :> {d2, e2})
OwnCtrl == (1 :> c1) @@ (2 :> c2)
\* the first machine's time stamps come from its data port
SharedCtrl == (1 :> d1) @@ (2 :> c2)

\* the theorems about barrier entries assume this
ASSUME SeparateMachines == Separate
============================================================================
