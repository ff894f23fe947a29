CONSTANTS
  Threads = {t1, t2}
  kMaxTypeId = 3
  TypeIds = {0, 1, 3, 4}
  f = f
  g = g
  Decoders = {f, g}
  NoDecoder = NoDecoder
  Registrations <- MCRegistrations
SPECIFICATION Spec
SYMMETRY Symmetry
INVARIANT TypeOK
INVARIANT NoNullCall
INVARIANT PromisesKept
PROPERTY ImplementsDecoderTable
