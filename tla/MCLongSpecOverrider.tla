------------------------ MODULE MCLongSpecOverrider ------------------------
(* Small instances of LongSpecOverrider for TLC. *)
EXTENDS LongSpecOverrider

(* Interleaved, descending physical blocks, so that no slot is its position. *)
MCBlockTable ==
  [r \in 0 .. MaxBatch - 1 |->
     [b \in 0 .. MaxModelLen \div BlockSize |-> NumBlocks - 1 - (b * MaxBatch + r)]]

S(k, q) == [k |-> k, q |-> q]
(* Decode rows with no and with two drafts, the same too close to the end to *)
(* draft again, a prefill chunk and a short last chunk of a prompt.          *)
OneRowShapes == {S(3, 1), S(7, 3), S(8, 3), S(5, 5), S(4, 2)}
TwoRowShapes == {S(2, 1), S(5, 3), S(4, 4)}
NoLayers == {}
FirstLayer == {0}
LastLayer == {NumLayers - 1}
=============================================================================
