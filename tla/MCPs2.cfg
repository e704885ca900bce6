\* Every machine; the waits and the tries are short.
CONSTANTS
  PS2_TIMEOUT = 2
  PS2_RETRIES = 2
  Machines <- MCMachines
  KeyBytes <- MCKeys
  BootConfig <- MCBootConfig
SPECIFICATION FairSpec
INVARIANTS TypeOK WheelFound WheelIsReal SettingsKept PortHandedOver
PROPERTIES BootGoesOn RebootResets
