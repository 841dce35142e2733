---------------------------- MODULE MCWindowParts ----------------------------
(***************************************************************************)
(* The parts of the V4L2Viewer window that share no state, checked side by *)
(* side on small instances: a behaviour is one of the display path, of the *)
(* session, of an image conversion or of the logger, and leaves the others *)
(* as they are.                                                            *)
(***************************************************************************)
EXTENDS DisplayPath, ViewerSession, ImageTransform, BaseLogger

CONSTANTS videoOnly, pipeline

VARIABLE part

(* One camera with nothing but its video device, and one with two          *)
(* sub-devices: the first enumerates frame sizes, both can crop.           *)
MCCameras == {videoOnly, pipeline}
MCNumSubs == [c \in MCCameras |-> IF c = videoOnly THEN 0 ELSE 2]
MCSizeFds == [c \in MCCameras |-> IF c = videoOnly THEN {0} ELSE {1}]
MCCropFds == [c \in MCCameras |-> IF c = videoOnly THEN {} ELSE {1, 2}]

parts == <<displayVars, sessionVars, imageVars, loggerVars, part>>

(* A part that is left alone has one initial state. *)
PartsInit ==
  /\ part \in {"display", "session", "image", "logger"}
  /\ DisplayInit
  /\ part # "display" => renderer = "egl"
  /\ SessionInit
  /\ part # "session" => video[videoOnly] = CHOOSE f \in Format : TRUE
  /\ ImageInit
  /\ part # "image" => job = CHOOSE j \in Job : j.layout = "grey" /\ j.filter = "BGGR"
  /\ LoggerInit

PartsNext ==
  \/ part = "display" /\ DisplayNext /\ UNCHANGED <<sessionVars, imageVars, loggerVars, part>>
  \/ part = "session" /\ SessionNext /\ UNCHANGED <<displayVars, imageVars, loggerVars, part>>
  \/ part = "image" /\ ImageNext /\ UNCHANGED <<displayVars, sessionVars, loggerVars, part>>
  \/ part = "logger" /\ LoggerNext /\ UNCHANGED <<displayVars, sessionVars, imageVars, part>>

PartsSpec == PartsInit /\ [][PartsNext]_parts /\ DisplayFairness

(* Every part is type correct. *)
PartsTypeOK == DisplayTypeOK /\ SessionTypeOK /\ ImageTypeOK /\ LoggerTypeOK

=============================================================================
