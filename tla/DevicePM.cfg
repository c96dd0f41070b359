SPECIFICATION FairSpec
CONSTANTS
  bus = bus
  bridge = bridge
  dev = dev
  disk = disk
  NoDevice = NoDevice
  Devices = {bus, bridge, dev, disk}
  root = bus
  parent <- MCParent
  Async = {bridge, dev}
INVARIANTS
  ListsSound
  HardwareFollows
  FamilyOrder
PROPERTIES
  TransitionEnds
