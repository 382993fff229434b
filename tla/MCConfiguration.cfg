\* Every combination of the layers, against the reference definitions.
CONSTANTS
  ProcessLayers <- MCProcess
  OverlayLayers <- MCOverlay
  BaseLayers <- MCBase
  OverlayNames <- MCNames
  Atoi <- MCAtoi
  MaxInt = 32767
  Millisecond = 1000
SPECIFICATION Spec
INVARIANTS
  
  AcceptedIsRunnable
  RefusedForItsValue
