SPECIFICATION BufferSpec
CONSTANTS
  Byte = {0, 1}
  defaultSize = 2
  move_line = 1
  extrabuf = 1
  MaxReadable = 3
INVARIANT WasteBounded
PROPERTY BytesImplemented
