----------------------------- MODULE MCCameras -----------------------------
(***************************************************************************)
(* The feeds of the camera server, of its two kinds: they share no state.  *)
(* A behaviour is one of an OpenCV feed or one of the Orbbec feeds; the    *)
(* other kind stays in an initial state.                                   *)
(***************************************************************************)
EXTENDS CameraFeed, OrbbecFeed

VARIABLE kind   (* the feeds that run                                      *)

feeds == <<kind, vars, orbbecVars>>

FeedsInit ==
  /\ kind \in {"opencv", "orbbec"}
  /\ Init /\ cap = CHOOSE c \in Caps : TRUE
  /\ OrbbecInit

OfOpenCv == kind = "opencv" /\ UNCHANGED <<kind, orbbecVars>>
OfOrbbec == kind = "orbbec" /\ UNCHANGED <<kind, vars>>

FeedsNext ==
  \/ OfOpenCv /\ Next
  \/ OfOrbbec /\ OrbbecNext

(* The fairness of the one kind and of the other.                          *)
FeedsFairness ==
  /\ WF_feeds(OfOpenCv /\ Run) /\ WF_feeds(OfOpenCv /\ LatestAges)
  /\ \A x \in Resetters : WF_feeds(OfOpenCv /\ Reset(x))
  /\ WF_feeds(OfOrbbec /\ Feeder) /\ WF_feeds(OfOrbbec /\ OrbbecThread)

FeedsSpec == FeedsInit /\ [][FeedsNext]_feeds /\ FeedsFairness
=============================================================================
