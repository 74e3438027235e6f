--------------------------- MODULE MCSnapshotRings ---------------------------
\* Constants of SnapshotRings: transfers inside the first chunk and outside of it, and
\* range sets that overflow the write set of a chunk, or of the batch.
EXTENDS SnapshotRings

AllPrograms == {"glaze", "memset", "opcode", "fixing", "server", "breaking", "async"}
TransfersModel == {<<0, 2>>}
RangeSetsModel == {<<0, 0, 0, 0, 0, 1>>}
\* A pass of glaze is of three batches, and memset logs a fourth at its end; opcode and
\* fixing make a pass for every batch; the others come round the ring.
TotalsModel == [p \in AllPrograms |-> CASE p = "glaze" -> {3}
                                        [] p \in {"opcode", "fixing"} -> {2}
                                        [] OTHER -> {4}]
\* A second start matters where recovery does not go by batch numbers.
MaxRunsModel == [p \in AllPrograms |-> IF p \in {"glaze", "opcode", "fixing"} THEN 2 ELSE 1]
==============================================================================
