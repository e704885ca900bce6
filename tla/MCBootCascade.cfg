\* Three devices that raise their IRQs all along, PICs as the 8259A.
CONSTANTS
  DeviceIrqs <- MCDeviceIrqs
  BootMasks <- MCBootMasks
  BootOffsets <- MCBootOffsets
  BootServed <- MCBootServed
  CascadeChecked = TRUE
SPECIFICATION Spec
INVARIANT MouseVector
