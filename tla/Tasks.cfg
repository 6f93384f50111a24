SPECIFICATION FirmwareSpec
CONSTANTS
  App = App
  Audio = Audio
  Test = Test
  Bsp = Bsp
  Usb = Usb
  Idle = Idle
  Daemon = Daemon
  End = End
  NoSem = NoSem
  AudioSem = AudioSem
  UsbSem = UsbSem
  BspSem = BspSem
  Serial = Serial
  Lock = Lock
  Tasks = {App, Idle, Audio, Test, Bsp, Usb}
  Sems = {AudioSem, UsbSem, BspSem, Serial, Lock}
  TimerPeriod = 1
  TestDelay = 1
  OledDelay = 1
  Instances = {{Audio, Bsp}, {Audio, Test, Usb}}
INVARIANTS
  OnePlace
  NoStrandedWaiter
  HeldOnce
  BootOrder
PROPERTIES
  AudioServed
