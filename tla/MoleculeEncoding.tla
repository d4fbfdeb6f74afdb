--------------------------- MODULE MoleculeEncoding ---------------------------
(***************************************************************************)
(* Numbers and byte strings as the molecule format of blockchain.h writes  *)
(* them.                                                                    *)
(*                                                                          *)
(* A mol_num_t is a 32-bit number.  It is represented here by its signed    *)
(* residue (-1 is MOL_NUM_MAX), so that the differences of offsets that     *)
(* wrap around in C are the same numbers here; the comparisons say how they *)
(* treat the residues below zero, which are the largest unsigned values.    *)
(***************************************************************************)
EXTENDS Integers, SequencesExt

Byte == 0 .. 255

\* The four bytes of a mol_num_t, least significant first.
LE4(n) == <<n % 256, (n \div 256) % 256, (n \div 65536) % 256, (n \div 16777216) % 256>>

\* mol_unpack_number: the number of four bytes.
Num(b) == b[1] + 256 * b[2] + 65536 * b[3]
            + 16777216 * (IF b[4] < 128 THEN b[4] ELSE b[4] - 256)

\* A length widened to a uint64_t before it is hashed.
LE8(n) == LE4(n) \o <<0, 0, 0, 0>>

Zeros(n) == [i \in 1 .. n |-> 0]

\* A Bytes: its length and its content.
Bytes(content) == LE4(Len(content)) \o content

\* A WitnessArgs table of three fields, each given in its encoded form (the
\* empty sequence is the absent option).
WitnessArgs(lock, input_type, output_type) ==
    LE4(16 + Len(lock) + Len(input_type) + Len(output_type))
      \o LE4(16)
      \o LE4(16 + Len(lock))
      \o LE4(16 + Len(lock) + Len(input_type))
      \o lock \o input_type \o output_type

\* The number at the offset of an encoding, and the bytes between two offsets.
NumAt(b, offset) == Num(SubSeq(b, offset + 1, offset + 4))
Slice(b, from, to) == SubSeq(b, from + 1, to)

\* An encoded BytesOpt: nothing, or a Bytes whose length fills the field.
IsBytesOpt(b) == b = <<>> \/ (Len(b) >= 4 /\ NumAt(b, 0) = Len(b) - 4)

\* An encoded WitnessArgs, whole and consistent.
IsWitnessArgs(b) ==
    /\ Len(b) >= 16
    /\ NumAt(b, 0) = Len(b)
    /\ NumAt(b, 4) = 16
    /\ 16 <= NumAt(b, 8)
    /\ NumAt(b, 8) <= NumAt(b, 12)
    /\ NumAt(b, 12) <= Len(b)
    /\ IsBytesOpt(Slice(b, 16, NumAt(b, 8)))
    /\ IsBytesOpt(Slice(b, NumAt(b, 8), NumAt(b, 12)))
    /\ IsBytesOpt(Slice(b, NumAt(b, 12), Len(b)))

Lock(b) == Slice(b, 16, NumAt(b, 8))
InputType(b) == Slice(b, NumAt(b, 8), NumAt(b, 12))
OutputType(b) == Slice(b, NumAt(b, 12), Len(b))
===============================================================================
