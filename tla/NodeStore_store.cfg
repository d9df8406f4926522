CONSTANTS
  Setting = {"role", "layer", "lr", "loss"}
  Values <- Choices
  Default <- Defaults
  MESH_RESYNC_GRACE = 1
  MESH_REBOOT_GRACE = 2
  MESH_MAX_SOFT_RESETS = 1
  MESH_MAX_AUTO_REBOOTS = 2
  MaxCommands = 3
  MaxCuts = 1
SPECIFICATION Spec
INVARIANTS
  TypeOK
  SettingsAreStored
  RestartsBounded
