--------------------------- MODULE MCCameraRequests ---------------------------
(* Instances of CameraRequests for TLC. *)
EXTENDS CameraRequests
===============================================================================
