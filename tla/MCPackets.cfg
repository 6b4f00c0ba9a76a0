\* Every bit of every field of every packet.
CONSTANTS
  PACKET_SIZE = 64
  BITS = 1
  Sizes = {1, 2, 3}
  Fillers <- SmallFillers
SPECIFICATION Spec
INVARIANTS
  FieldsSurvive
  KindsApart
