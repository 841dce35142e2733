--------------------------- MODULE MCCameraControls ---------------------------
(***************************************************************************)
(* CameraControls on a small instance: two cameras one after the other, A  *)
(* with two sub-devices, a gain and a volatile temperature, and B, whose   *)
(* controls are all on the video device, with every kind of control that   *)
(* does not change by itself: a gain, an automatic exposure (a menu), an   *)
(* automatic white balance (a switch) and a menu of integers.              *)
(***************************************************************************)
EXTENDS CameraControls

CONSTANTS A, B

TwoCameras == {A, B}
MCFds == {"lens", "sensor", "video"}
MCControls == {"gain", "temp", "exposure", "balance", "mode"}
MCLayout ==
  [cam \in TwoCameras |->
     IF cam = A THEN << <<"sensor", "gain">>, <<"video", "temp">> >>
     ELSE << <<"video", "gain">>, <<"video", "exposure">>, <<"video", "balance">>,
             <<"video", "mode">> >>]
MCSubDevices == [cam \in TwoCameras |-> IF cam = A THEN <<"lens", "sensor">> ELSE <<>>]
MCKind ==
  [gain |-> "integer", temp |-> "volatile", exposure |-> "menu", balance |-> "switch",
   mode |-> "intmenu"]
MCAutos == {"exposure", "balance"}

=============================================================================
