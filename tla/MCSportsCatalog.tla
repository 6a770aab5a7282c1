--------------------------- MODULE MCSportsCatalog ---------------------------
(* Two matches of one tournament between the same two players, who swap     *)
(* sides; the supplier's lookup never answers for the first, and the page   *)
(* of the second is opened.                                                 *)
EXTENDS SportsCatalog
CONSTANTS a, b, p1, p2, t
MCOrder == <<a, b>>
MCSides == (a :> <<p1, p2>>) @@ (b :> <<p2, p1>>)
MCEvent == [m \in {a, b} |-> t]

\* What the proofs assume of the constants holds here.
ASSUME ConstantsAreSound == NoneIsNoKind
=============================================================================
