CONSTANTS
  A = A
  B = B
  Cameras <- TwoCameras
  NoCamera = NoCamera
  Fds <- MCFds
  Video = "video"
  Fds0 = "stdin"
  Controls <- MCControls
  Values = {0, 1}
  Layout <- MCLayout
  SubDevices <- MCSubDevices
  Kind <- MCKind
  Autos <- MCAutos
  NoWidget = NoWidget
  Emptied = Emptied
  MaxCounter = 3
  MaxOpens = 2
  MaxSets = 1
  MaxEvents = 1
  MaxWire = 1
SPECIFICATION Spec
INVARIANTS ControlsTypeOK  SetReachesOwner StopAfterRun PolledFdsOpen OnlyFailingErased WindowReopens
PROPERTIES CloseEnds VolatilesShown
CHECK_DEADLOCK FALSE
