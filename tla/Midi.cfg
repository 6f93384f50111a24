\* Two keys; two packets of two events wrap the ring of three, and may lap it.
SPECIFICATION MCMidiSpec
CONSTANTS
  Notes = {36, 48}
  Envelopes = {}
  RingSize = 3
  PacketSize = 2
  MaxPackets = 2
INVARIANTS
  FollowsHost
  NoLostWakeup
PROPERTIES
  Drains
