CONSTANTS
  i1 = i1
  i2 = i2
  x1 = x1
  x2 = x2
  a1 = a1
  a2 = a2
  r1 = r1
  p1 = p1
  sha1 = sha1
  sha2 = sha2
  Item <- MCItem
  Executable <- MCExecutable
  Artifact <- MCArtifact
  Record <- MCRecord
  Packet <- MCPacket
  Sha <- MCSha
  ArtifactSha <- MCArtifactSha
  PayloadSha <- MCPayloadSha
  Locates <- MCLocates
  Graded = {r1}
  PacketArtifacts <- MCPacketArtifacts
  PacketRecords <- MCPacketRecords
  Change = {change}
  Replacement = {bytes}
  MaxRequests = 2
  MaxPlans = 2
  MaxEdits = 1
  MaxResets = 1
  MaxLinks = 1
  Linkable <- MCExecutable
SPECIFICATION Spec
SYMMETRY Symmetry
CHECK_DEADLOCK FALSE
INVARIANTS
  TypeOK
  ProvenanceIsConnected
  JournalAccountsForNodes
  PlanSeesTheRequestedBytes
  HeldWorkStaysGood
