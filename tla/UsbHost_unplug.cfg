SPECIFICATION FairSpec
CONSTANTS
  QueueLength = 2
  VbusSwitched = FALSE
  Haste = {"unplug"}
  Devices = {"class", "phone"}
  MaxPlugs = 4
  MaxFails = 3
INVARIANTS TypeOK OneInstance NoLostWakeup HostInv
PROPERTIES EnumeratesEnabled PluggedIsServed DisconnectStands UnplugIsHandled
CHECK_DEADLOCK FALSE
