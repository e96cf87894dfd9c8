CONSTANTS
  Sizes = {1, 2, 3}
  Addresses = {0, 1}
  MaxBytes = 4
  MaxSize = 3
  Statuses = {0, 1}
SPECIFICATION Spec
INVARIANTS StreamInOrder BytesInOrder XspikeCloses
PROPERTY FrameArrives
