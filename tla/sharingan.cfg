\* One call of compress on small images of every colour type; two bits a byte.
SPECIFICATION Spec
CONSTANTS
  Total = 16
  Prefix = 2
  Base = 32
  BufSize = 4
  ByteBits = 2
  Inputs <- MCInputs
  Parameters <- MCParameters
  ClPixels = 4
  ClSamples = 8
  ClKernels = 2
  LocalSize = 2
  Leftovers = {0, 3}
  NotPng = NotPng
  NoPair = NoPair
INVARIANTS TypeOK TransformsInPlace  Lossless
CHECK_DEADLOCK FALSE
