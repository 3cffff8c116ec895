SPECIFICATION VerifySpec
CONSTANTS
  idx = idx
  idx0 = idx0
  man1 = man1
  man2 = man2
  cfg = cfg
  layer = layer
  large = large
  other = other
  Content <- MCContent
  Size <- MCSize
  Index = {idx, idx0}
  Entries <- MCEntries
  Platform = "amd64"
  Manifest = {man1, man2}
  Config <- MCConfig
  Layers <- MCLayerDigests
  Filter = {layer, large}
  Declared <- MCDeclared
  Modes = {"blob", "stream", "buffer", "verify"}
  BufLen = 3
  None = None
  SigLayers <- MCSigLayers
  LayersMax = 2
INVARIANTS ArtifactVerified BearerStaysHome AcceptedIffSigned
