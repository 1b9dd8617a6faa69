----------------------------- MODULE BlockCommands -----------------------------
(***************************************************************************)
(* The blocks of a READ or a WRITE: how the CDB names them (bytes 0 .. 15, *)
(* most significant first), and what ProcessParallelTask hands to IOCmd.   *)
(***************************************************************************)
EXTENDS Integers

Bytes == 0 .. 255
Cdbs  == [0 .. 15 -> Bytes]

\* OSReadBigInt16, 32 and 64.
Big16(cdb, at) == cdb[at] * 256 + cdb[at + 1]
Big32(cdb, at) == Big16(cdb, at) * 65536 + Big16(cdb, at + 2)
Big64(cdb, at) == Big32(cdb, at) * (65536 * 65536) + Big32(cdb, at + 4)

\* The arguments lba and len of IOCmd.  The first one of READ(6) is cut out
\* of the word that begins with the operation code.
Taken6(cdb) ==
    [lba |-> Big32(cdb, 0) % 2097152, len |-> IF cdb[4] # 0 THEN cdb[4] ELSE 256]
Taken10(cdb) == [lba |-> Big32(cdb, 2), len |-> Big16(cdb, 7)]
Taken12(cdb) == [lba |-> Big32(cdb, 2), len |-> Big32(cdb, 6)]
Taken16(cdb) == [lba |-> Big64(cdb, 2), len |-> Big32(cdb, 10)]

-----------------------------------------------------------------------------
\* External: the SCSI Block Commands.  A field of n bytes that begins at a byte
\* holds a value.
Holds16(cdb, at, v) == cdb[at] = v \div 256 /\ cdb[at + 1] = v % 256
Holds32(cdb, at, v) == Holds16(cdb, at, v \div 65536) /\ Holds16(cdb, at + 2, v % 65536)
Holds64(cdb, at, v) ==
    /\ Holds32(cdb, at, v \div (65536 * 65536))
    /\ Holds32(cdb, at + 4, v % (65536 * 65536))

\* READ(6) has the top five bits of its address beside the unit's number, and
\* no number of blocks but 256 for none.
Names6(cdb, lba, len) ==
    /\ lba < 2097152 /\ 0 < len /\ len <= 256
    /\ cdb[1] % 32 = lba \div 65536 /\ Holds16(cdb, 2, lba % 65536)
    /\ cdb[4] = len % 256
Names10(cdb, lba, len) == Holds32(cdb, 2, lba) /\ Holds16(cdb, 7, len)
Names12(cdb, lba, len) == Holds32(cdb, 2, lba) /\ Holds32(cdb, 6, len)
Names16(cdb, lba, len) == Holds64(cdb, 2, lba) /\ Holds32(cdb, 10, len)
=============================================================================
