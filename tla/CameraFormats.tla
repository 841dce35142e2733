---------------------------- MODULE CameraFormats ----------------------------
(***************************************************************************)
(* The part of Camera that sets and reads the image format: on the video   *)
(* device alone, or along a pipeline of sub-devices.  Which device serves  *)
(* frame sizes and cropping is found out by PrepareFrameSize and           *)
(* PrepareCrop and remembered as a file descriptor.                        *)
(*                                                                         *)
(* Descriptors are numbers: the kernel hands out the lowest free one, the  *)
(* video device is opened before its sub-devices and all are closed        *)
(* together, so that a remembered descriptor of one camera is a number     *)
(* that the next camera may use for another device.  What size a           *)
(* sub-device has is left out: the format of the video device is what a    *)
(* stream and the window depend on.                                        *)
(***************************************************************************)
EXTENDS Naturals

Sets == INSTANCE FiniteSetsExt

CONSTANTS
  Cameras,      (* the cameras in the list                                  *)
  NoCamera,     (* m_DeviceFileDescriptor = -1                              *)
  NumSubs,      (* number of sub-devices per camera                         *)
  SizeFds,      (* per camera, the descriptors that enumerate frame sizes   *)
  CropFds,      (* per camera, the descriptors that can crop                *)
  Sizes,        (* widths and heights                                       *)
  PixelFormats,
  MaxSubs,
  Unset         (* a descriptor that is -1                                  *)

Video == 0
SubFds == 1 .. MaxSubs
Subs(c) == 1 .. NumSubs[c]
FdOrUnset == {Unset, Video} \cup SubFds

ASSUME NoCameraAssumption == NoCamera \notin Cameras
ASSUME SubsAssumption ==
  /\ MaxSubs \in Nat /\ Unset \notin 0 .. MaxSubs
  /\ NumSubs \in [Cameras -> 0 .. MaxSubs]
  /\ \A c \in Cameras : SizeFds[c] \cup CropFds[c] \subseteq {Video} \cup Subs(c)

VARIABLES
  camera,    (* the camera whose descriptors are open                       *)
  busy,      (* driver: the video device has buffers                        *)
  video,     (* driver: format of the video device of every camera          *)
  sizeFd,    (* m_FrameSizeFileDescriptor                                   *)
  cropFd     (* m_CropDeviceFileDescriptor                                  *)

formatVars == <<camera, busy, video, sizeFd, cropFd>>

Format == [size : Sizes, pix : PixelFormats]

FormatsTypeOK ==
  /\ camera \in Cameras \cup {NoCamera}
  /\ busy \in BOOLEAN
  /\ video \in [Cameras -> Format]
  /\ sizeFd \in FdOrUnset /\ cropFd \in FdOrUnset

FormatsInit ==
  /\ camera = NoCamera /\ busy = FALSE
  /\ \E f \in Format : video = [c \in Cameras |-> f]
  /\ sizeFd = Unset /\ cropFd = Unset

-----------------------------------------------------------------------------
(* The driver. *)

(* VIDIOC_S_FMT: the driver takes the nearest size it supports, or refuses *)
(* while the device has buffers.                                           *)
SetsFormat(pix) ==
  IF busy THEN UNCHANGED video
  ELSE \E got \in Sizes : video' = [video EXCEPT ![camera] = [size |-> got, pix |-> pix]]
SetsSize == SetsFormat(video[camera].pix)

-----------------------------------------------------------------------------
(* Camera. *)

(* A probe that finds nothing leaves the descriptor of an earlier camera. *)
PrepareFrameSize(c) ==
  sizeFd' = IF Video \in SizeFds[c] THEN Video
            ELSE IF SizeFds[c] # {} THEN Sets!Min(SizeFds[c]) ELSE sizeFd
PrepareCrop(c) ==
  cropFd' = IF Video \in CropFds[c] THEN Video
            ELSE IF CropFds[c] # {} THEN Sets!Max(CropFds[c]) ELSE cropFd

(* Does an ioctl on the remembered descriptor reach a device of the open   *)
(* camera that knows it?                                                   *)
SizeDeviceAnswers == sizeFd \in Subs(camera)
CropDeviceAnswers == cropFd \in CropFds[camera]

(* Along a pipeline the sub-device that serves frame sizes may adjust the  *)
(* size, and the others and the video device follow it; each device may    *)
(* refuse, and without the first one nothing changes.                      *)
SetFrameSize ==
  IF sizeFd = Video THEN SetsSize
  ELSE UNCHANGED video \/ (SizeDeviceAnswers /\ SetsSize)

SetPixelFormat(pix) == SetsFormat(pix)

(* The size at an index of the list; stepwise sizes are refused. *)
SetFrameSizeByIndex ==
  UNCHANGED video \/ ((sizeFd = Video \/ SizeDeviceAnswers) /\ SetsSize)

(* On a sub-device the pipeline and the video format are set to the size   *)
(* of the crop rectangle, even when the selection was refused; a video     *)
(* device that crops may adjust its format itself.                         *)
SetCrop == SetsSize

=============================================================================
