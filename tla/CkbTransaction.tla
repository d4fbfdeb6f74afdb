--------------------------- MODULE CkbTransaction ---------------------------
(***************************************************************************)
(* The data the Nervos app reads: 64-bit capacities, lock arguments,       *)
(* scripts, cells and the annotated transaction the host streams to the    *)
(* device.  Values that the code only compares are members of small sets:  *)
(* a script's code hash is one of the hashes the code knows or "other", a  *)
(* BIP32 path is the public-key hash derived from it (the derivation is    *)
(* injective and belongs to the operating system).                         *)
(***************************************************************************)
EXTENDS Integers, Sequences

CONSTANTS
    WORD,           \* one more than the largest uint64_t; 2^64 on the device
    Hashes,         \* 20-byte blake160 hashes: of public keys, of multisig scripts
    ZeroHash,       \* twenty zero bytes, what memset leaves in a standard_lock_arg_t
    Periods,        \* the values of the 8-byte lock_period of a multisig lock arg
    NoPeriod,       \* the all-zero lock_period, "non-timelock"
    FirstBytes(_, _), \* what the first so many bytes of a lock_arg_t read as
    AsPeriod(_),    \* the period that the first eight bytes of a hash read as
    MAX_INPUTS,     \* bound on the inputs of a transaction
    MAX_CELLS       \* bound on the outputs of a transaction, and of a source

ASSUME WordAssumption == WORD \in Nat \ {0, 1}
ASSUME HashAssumption == ZeroHash \notin Hashes
ASSUME PeriodAssumption == NoPeriod \in Periods
ASSUME SizeAssumption == MAX_INPUTS \in Nat /\ MAX_CELLS \in Nat /\ MAX_CELLS < 31

-----------------------------------------------------------------------------
(* uint64_t arithmetic.  Written with a comparison, which for two operands *)
(* below WORD is reduction modulo WORD.                                    *)

Word == 0 .. WORD - 1

Add(x, y) == IF x + y < WORD THEN x + y ELSE x + y - WORD
Minus(x, y) == IF x >= y THEN x - y ELSE x - y + WORD
Negated(x) == Minus(0, x)

-----------------------------------------------------------------------------
(* standard_lock_arg_t is a hash of 20 bytes; the 28 of lock_arg_t add the  *)
(* period.  FirstBytes tells how much of two of them agrees: nothing of    *)
(* them, their hashes, and all of them at 0, 20 and 28 bytes.              *)

StandardLockArg == Hashes \cup {ZeroHash}
LockArg == [hash: StandardLockArg, lock_period: Periods]
ZeroLockArg == [hash |-> ZeroHash, lock_period |-> NoPeriod]

ASSUME BytesAssumption ==
    /\ \A a, b \in LockArg :
          /\ FirstBytes(a, 0) = FirstBytes(b, 0)
          /\ FirstBytes(a, 20) = FirstBytes(b, 20) <=> a.hash = b.hash
          /\ FirstBytes(a, 28) = FirstBytes(b, 28) <=> a = b
          /\ \A n \in 0 .. 27 :
                FirstBytes(a, n + 1) = FirstBytes(b, n + 1) => FirstBytes(a, n) = FirstBytes(b, n)
    /\ \A h \in StandardLockArg : AsPeriod(h) \in Periods
    /\ AsPeriod(ZeroHash) = NoPeriod

(* The lock scripts, type scripts and cell data the code tells apart.  The *)
(* args of a lock are given by their size in bytes and the first 28 bytes, *)
(* or all there are and zeros.                                             *)
LockScript ==
    {lock \in [code_hash: {"default", "multisig", "other"}, hash_type: {"type", "other"},
               size: Nat, args: LockArg] :
        /\ lock.size <= 20 => lock.args.lock_period = NoPeriod
        /\ lock.size = 0 => lock.args = ZeroLockArg}
TypeScript == [code_hash: {"absent", "dao", "other"},
               hash_type: {"type", "other"},
               args: {"empty", "nonempty"}]
CellData == {d \in [size: Nat, nonzero: BOOLEAN] : d.nonzero => d.size > 0}
Cell == [capacity: Word, lock: LockScript, type_: TypeScript, data: CellData]

HasType(cell) == cell.type_.code_hash # "absent"
IsDao(cell) == cell.type_.code_hash = "dao"

-----------------------------------------------------------------------------
(* AnnotatedCellInput: the input itself and the transaction it spends from. *)
(* index is the output of that transaction the input refers to; a host may *)
(* send one that is out of range.                                          *)
NonEmptySeq(S, n) == {s \in Seq(S) : Len(s) \in 1 .. n}

AnnotatedInput == [index: Nat, source: NonEmptySeq(Cell, MAX_CELLS)]

(* AnnotatedTransaction.  inputCount is the number the host announces ahead *)
(* of the inputs; pathsFit is whether both BIP32 paths have at most as many *)
(* components as bip32_path_t holds.                                       *)
AnnotatedTransaction ==
    [signPath: Hashes, changePath: Hashes, pathsFit: BOOLEAN,
     inputCount: Nat,
     inputs: NonEmptySeq(AnnotatedInput, MAX_INPUTS),
     outputs: NonEmptySeq(Cell, MAX_CELLS)]

(* A running blake2b state is the sequence of the chunks hashed so far     *)
(* (blake2b taken as injective), a chunk is a tuple that names the field.  *)
(* RawHash is the CKB transaction hash: the offset header of a raw         *)
(* transaction with that many inputs, then its fields, where an input is   *)
(* its since, the hash of the transaction it spends from and an index.     *)
SourceHash(i) == <<<<"source", i>>>>
InputChunks(t) ==
    [n \in 1 .. 3 * Len(t.inputs) |->
        LET i == ((n - 1) \div 3) + 1
        IN  CASE n % 3 = 1 -> <<"since", i>>
              [] n % 3 = 2 -> <<"tx_hash", SourceHash(i)>>
              [] n % 3 = 0 -> <<"index", t.inputs[i].index>>]
RawHash(t) ==
    <<<<"offsets", Len(t.inputs)>>, <<"version_and_deps">>, <<"input_count", Len(t.inputs)>>>>
    \o InputChunks(t) \o <<<<"outputs">>, <<"outputs_data">>>>

(* What the sighash-all lock script checks a signature of: the transaction *)
(* hash followed by the witnesses.                                         *)
FinalHash(t) == <<RawHash(t), "witnesses">>
=============================================================================
