\* Three devices that raise their IRQs all along, PICs as QEMU's.
CONSTANTS
  DeviceIrqs <- MCDeviceIrqs
  BootMasks <- MCBootMasks
  BootOffsets <- MCBootOffsets
  BootServed <- MCBootServed
  CascadeChecked = FALSE
SPECIFICATION Spec
INVARIANTS RightHandler NoExceptionVector SegmentsRight OnlyTwoDevices
