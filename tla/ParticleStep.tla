---------------------------- MODULE ParticleStep -----------------------------
(***************************************************************************)
(* What particle transport promises, wherever the particles are and        *)
(* however they travel: in every step each live particle is advanced by as *)
(* many advances as the step has, no more and no less, new ones from the   *)
(* time the step began, and none disappears unless it is removed.          *)
(***************************************************************************)
EXTENDS Naturals

CONSTANT Particles

VARIABLES
  alive,    \* set of live particles
  time,     \* time[p]: advances particle p has had, 0 if it is not alive
  now,      \* complete steps
  advances  \* advances that make a step

vars == <<alive, time, now, advances>>

Began == now * advances
Ends == Began + advances

Init ==
  /\ alive \in SUBSET Particles /\ time = [p \in Particles |-> 0]
  /\ now = 0 /\ advances \in Nat \ {0}

(* New particles start from the time the step began *)
Emit ==
  /\ alive \subseteq alive'
  /\ time' = [p \in Particles |-> IF p \in alive' \ alive THEN Began ELSE time[p]]
  /\ UNCHANGED <<now, advances>>

(* Some are advanced, which the step has not ended for; some are removed *)
Advance ==
  /\ alive' \subseteq alive
  /\ \A p \in Particles :
       IF p \in alive' THEN \/ time'[p] = time[p]
                              \/ /\ time[p] < Ends
                                 /\ time'[p] = time[p] + 1
                      ELSE time'[p] = 0
  /\ UNCHANGED <<now, advances>>

EndStep ==
  /\ \A p \in alive : time[p] = Ends
  /\ now' = now + 1
  /\ UNCHANGED <<alive, time, advances>>

Next == Emit \/ Advance \/ EndStep

Spec == Init /\ [][Next]_vars

=============================================================================
