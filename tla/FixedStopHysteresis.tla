------------------------- MODULE FixedStopHysteresis -------------------------
(***************************************************************************)
(* What the obstacle-stop module promises about the stop policy of each    *)
(* object (spec 4.2): per uuid, the kind of stop the object caused in the  *)
(* last cycle ("fixed", "rss" or "none") and the longitudinal velocity     *)
(* recorded with it.  The policy has a hysteresis band enter < exit: an    *)
(* object enters the fixed policy only below the enter threshold and       *)
(* leaves it for an RSS stop only above the exit threshold; a fixed stop   *)
(* never carries a velocity above exit, an RSS stop never one below enter. *)
(* An object may stop causing a stop at any time.                          *)
(***************************************************************************)
EXTENDS Integers

CONSTANTS
  Obj,             \* object uuids
  Vels,            \* velocities
  NoVel,           \* the velocity of an object that caused no stop
  EnterFixedStop,
  ExitFixedStop

ASSUME EnterFixedStop < ExitFixedStop /\ NoVel \notin Vels

VARIABLES
  mode,  \* uuid -> "fixed", "rss" or "none"
  vel    \* uuid -> the velocity recorded with its stop, or NoVel

Mode == {"fixed", "rss", "none"}

Init ==
  /\ mode = [o \in Obj |-> "none"]
  /\ vel = [o \in Obj |-> NoVel]

\* One cycle's change of the stop policy of object o.
Step(o) ==
  /\ mode'[o] = "fixed" =>
       /\ vel'[o] <= ExitFixedStop
       /\ mode[o] # "fixed" => vel'[o] < EnterFixedStop
  /\ mode'[o] = "rss" =>
       /\ vel'[o] >= EnterFixedStop
       /\ mode[o] = "fixed" => ExitFixedStop < vel'[o]
  /\ mode'[o] = "none" => vel'[o] = NoVel

Next ==
  /\ mode' \in [Obj -> Mode]
  /\ vel' \in [Obj -> Vels \cup {NoVel}]
  /\ \A o \in Obj : Step(o)

Spec == Init /\ [][Next]_<<mode, vel>>

=============================================================================
