SPECIFICATION Spec
CONSTANTS
  VolNames <- MCVolNames
  Length <- MCLength
  NAME_SIZE = 32
  Disks <- MCDisks
PROPERTY MountedVolumeFound
