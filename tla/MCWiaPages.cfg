\* As MCWia.cfg: a feeder whose page range has a minimum and a step of two is among the devices.
SPECIFICATION WiaSpec
CONSTANTS
  Word = 16
  MaxPages = 3
  MaxPageBytes = 3
  MaxTotalBytes = 7
  MaxDimension = 1
  Device = {"d1", "d2"}
  MaxDiscovered = 2
  MaxGeneration = 3
  MinDpi = 3
  MaxDpi = 9
  MaxValues = 8
  MaxPageCount = 3
  Item <- MCItem
  DeviceItems <- MCDeviceItems
  Request <- MCRequest
  Readback <- MCReadback
INVARIANT PagesReported
