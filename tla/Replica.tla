------------------------------ MODULE Replica ------------------------------
(***************************************************************************)
(* What a cluster that replicates a value shows to those who follow it,    *)
(* however its members come by their trees: a member that is up shows what *)
(* the log says of the position it is at, and only moves forward.          *)
(***************************************************************************)
EXTENDS Naturals

CONSTANTS Members, Down

VARIABLES
  contents,  \* what the value holds at each position of the log
  at,        \* the position of a member, or Down
  shown      \* what a member shows, or Down

Init ==
  /\ DOMAIN contents = {1}
  /\ at = [m \in Members |-> 1]
  /\ shown = [m \in Members |-> contents[1]]

\* The log gets longer, and what it says stays.
Propose ==
  /\ DOMAIN contents \subseteq DOMAIN contents' /\ DOMAIN contents' \subseteq Nat
  /\ \A i \in DOMAIN contents : contents'[i] = contents[i]
  /\ UNCHANGED <<at, shown>>

\* A member goes to a position of the log: on from its own, or from none.
Shows(m, n) ==
  /\ n \in DOMAIN contents
  /\ at[m] = Down \/ at[m] < n
  /\ at' = [at EXCEPT ![m] = n]
  /\ shown' = [shown EXCEPT ![m] = contents[n]]
  /\ UNCHANGED contents

Crash(m) ==
  /\ at[m] # Down
  /\ at' = [at EXCEPT ![m] = Down]
  /\ shown' = [shown EXCEPT ![m] = Down]
  /\ UNCHANGED contents

Next == Propose \/ \E m \in Members : Crash(m) \/ \E n \in DOMAIN contents : Shows(m, n)

vars == <<contents, at, shown>>

Spec == Init /\ [][Next]_vars

-----------------------------------------------------------------------------
\* Whoever is up shows what the value held at the position it is at: members at
\* the same position are interchangeable to a client ("Determinism makes the
\* hashes agree", README).
ShowsItsPlace == \A m \in Members : at[m] # Down => shown[m] = contents[at[m]]

\* A member that stays up never shows an older position, so that its sequence
\* numbers advance (Head.Sequence).
NeverBack ==
  [][\A m \in Members : at[m] # Down /\ at'[m] # Down => at[m] <= at'[m]]_vars
=============================================================================
