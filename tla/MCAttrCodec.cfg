CONSTANTS
  Types <- MCTypes
  MaxType = 8
  Datas = {d1, d2}
  NULL = NULL
  AttrLens = {1, 4, 5, 16}
  MaxLen = 56
  NestMaxLen = 28
  HdrLen = 24
  MaxAdds = 3
SPECIFICATION Spec
INVARIANTS RoundTrip AddrDerivation
