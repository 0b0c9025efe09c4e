------------------------------ MODULE MCBridge ------------------------------
(* Instances of Bridge for TLC. *)
EXTENDS Bridge, TLC

CONSTANTS alice, bob, a1, a2, b1, h1, h2

\* Alice has every track.
AliceOnly == [t \in Track |-> alice]

\* Two participants with a track each.
AliceAndBob == (a1 :> alice) @@ (b1 :> bob)

\* Nothing tells the calls apart, nor the two with what each has.
Swaps ==
  Permutations({h1, h2}) \union
    {p \in Permutations({alice, bob, a1, b1}) :
       \A t \in {a1, b1} :
         p[t] \in {a1, b1} /\ AliceAndBob[p[t]] = p[AliceAndBob[t]]}

=============================================================================
