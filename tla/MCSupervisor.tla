--------------------------- MODULE MCSupervisor ---------------------------
(***************************************************************************)
(* Instances of the supervisor for TLC.  p1 is a sensor, p2 an actuator    *)
(* that depends on it.                                                     *)
(***************************************************************************)
EXTENDS SupervisorProps, TLC

CONSTANTS p1, p2

\* One process alone.
OneOrder == <<p1>>
OneDeps == (p1 :> {})
OneRole == (p1 :> "Sensor")
OneCritical == (p1 :> FALSE)
OneIsCritical == (p1 :> TRUE)
OneAlways == (p1 :> "Always")
OneNever == (p1 :> "Never")
OneMax == (p1 :> 1)

TwoOrder == <<p1, p2>>
TwoDeps == (p1 :> {} @@ p2 :> {p1})
TwoRole == (p1 :> "Sensor" @@ p2 :> "Actuator")
NoneCritical == (p1 :> FALSE @@ p2 :> FALSE)
MCPolicy == (p1 :> "Always" @@ p2 :> "Always")
MixedPolicy == (p1 :> "Always" @@ p2 :> "Never")
MCMax == (p1 :> 1 @@ p2 :> 1)
==========================================================================
