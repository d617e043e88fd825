------------------------ MODULE MCProjectWorkspace ------------------------
(***************************************************************************)
(* Two items whose requests share their identifiers, two executables with  *)
(* the same bytes (with both analysed the target is ambiguous), an artifact *)
(* for these bytes and one for other bytes, and a record that locates the  *)
(* change in either, added by itself or imported with both artifacts.      *)
(***************************************************************************)
EXTENDS ProjectWorkspace, TLC

CONSTANTS i1, i2, x1, x2, a1, a2, r1, p1, sha1, sha2

MCItem == {i1, i2}
MCExecutable == {x1, x2}
MCArtifact == {a1, a2}
MCRecord == {r1}
MCPacket == {p1}
MCSha == {sha1, sha2}
MCArtifactSha == a1 :> sha1 @@ a2 :> sha2
MCPayloadSha == x1 :> sha1 @@ x2 :> sha1
MCLocates == r1 :> {a1, a2}
MCPacketArtifacts == p1 :> {a1, a2}
MCPacketRecords == p1 :> {r1}

Symmetry == Permutations(MCItem) \union Permutations(MCExecutable)
=============================================================================
