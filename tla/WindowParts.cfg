CONSTANTS
  Buffers = {b1, b2}
  NoFrame = NoFrame
  Formats = {f1, f2}
  NoFormat = NoFormat
  MaxHides = 1
  videoOnly = videoOnly
  pipeline = pipeline
  Cameras <- MCCameras
  NoCamera = NoCamera
  NumSubs <- MCNumSubs
  SizeFds <- MCSizeFds
  CropFds <- MCCropFds
  Sizes = {small, large}
  PixelFormats = {grey, rgb}
  MaxSubs = 2
  Unset = Unset
  NoParameters = NoParameters
  MaxDepth = 3
  Widths = {2, 3, 4, 5, 8}
  Heights = {1, 2, 3, 4}
  Paddings = {0, 2}
  Messages = {m1, m2}
  Dumps = {d1}
  Packets = {p1, p2}
SPECIFICATION PartsSpec
INVARIANTS
  PartsTypeOK
  RenderOneHolder
  SavedFrameLive
  RetainedIsHeld
  UploadMatchesFormat
  IdleConsistent
  StreamDescribesDevice
  ShownCurrent
  
  LogComplete
PROPERTIES ImplementsSink StopReturns
CHECK_DEADLOCK FALSE
