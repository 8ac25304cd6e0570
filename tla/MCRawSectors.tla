---------------------------- MODULE MCRawSectors ----------------------------
(* A small instance of RawSectors for TLC: sectors of eight bytes, media of  *)
(* up to three sectors, every format at its own scale.                       *)
EXTENDS RawSectors

V == 3
N == 4
L == 5
X == 6
W == 7

MCNtfs == [sigAt |-> 1, sig |-> <<N, N>>, idAt |-> 5, size |-> 2]
MCFve == [sig |-> <<V, V>>, field |-> 2, min |-> 3, idAt |-> 1, size |-> 2]
MCLuks == [sig |-> <<L, L>>, field |-> 2, idAt |-> <<4, 6>>, size |-> 2, length |-> 10]
MCExt4 == [start |-> 2, length |-> 8, sigAt |-> 1, sig |-> <<X>>, idAt |-> 4, size |-> 2]

MCSwapSig == {<<W, W>>}

MCSector ==
  {<<0, N, N, 0, 0, 1, 2, 0>>,   \* NTFS
   <<V, V, 5, 0, 1, 2, 1, 1>>,   \* FVE, metadata at 5, the last that fits
   <<V, V, 6, 0, 1, 2, 1, 1>>,   \* FVE, identifier runs out of the header
   <<V, V, 1, 0, 0, 0, 2, 2>>,   \* FVE, metadata at 3 and an identifier of zeros
   <<0, V, V, 5, V, V, 1, 2>>,   \* FVE, in the next sector from its last byte on
   <<2, 1, 0, 0, 0, 0, 0, V>>,   \* half a signature, and the end of a header
   <<V, 0, 1, X, 0, 0, 2, 2>>,   \* the other half; ext4
   <<L, L, 1, X, 1, 2, 1, 1>>,   \* LUKS1 and ext4
   <<L, L, 3, 0, W, W, 1, 2>>}   \* LUKS of an unknown version; swap

=============================================================================
