SPECIFICATION DeskFairSpec
CONSTANTS
  Subjects = {"limiter", "dialog", "settings", "faults", "space"}
  Workers = {w1, w2, w3}
  Rate = 2
  Capacity = 4
  Requests = {1, 3, 5}
  LongSleep = 2
  MaxElapsed = 3
  None = None
  Addresses = {NamedUrl, OtherUrl}
  NamedAddresses = {NamedUrl}
  BadText = BadText
  NewPaths = {NewPath}
  ProbesAtOnce = 2
  General = General
  Video = Video
  Keys = {Clipboard, Folder, Port}
  Clipboard = Clipboard
  InDialog = {Clipboard, Folder}
  Values = {Default, On}
  On = On
  Default = Default
  Mishaps = {"disk", "kill"}
  Torrent = Torrent
  Drives = {AppData, Other}
  AppData = AppData
  Sizes = {2, 3}
  AppSpace = 4
  DriveSpace = 3
  Headroom = 1
  Early = 1
INVARIANTS
  RateKept
  
  
PROPERTIES
  DialogRight
  GoesOn
