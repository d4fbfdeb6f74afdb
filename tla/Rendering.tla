------------------------------ MODULE Rendering ------------------------------
(***************************************************************************)
(* The values of the rows of a prompt (to_string.c, bip32_path_to_string)   *)
(* and the text of a message (apdu_sign.c), as the functions leave them in   *)
(* the buffer they are given: bytes, without the null that ends them.  A     *)
(* 64-bit number is any natural number TLC can hold.                         *)
(***************************************************************************)
EXTENDS Address

CONSTANTS
    MAX_INT_DIGITS,     \* 20, the digits of a 64-bit number
    DECIMAL_DIGITS,     \* 8: a CKB is 10^8 shannons
    MessageWidth,       \* 64, sizeof(display)
    Stale               \* what the stack holds where a handler has not written

CKB_SCALE == 10 ^ DECIMAL_DIGITS

-----------------------------------------------------------------------------
\* Numbers.

Digit(d) == 48 + d

\* The digits from the right, as many as the buffer has room for.
Quotient(number) ==
    LET q[k \in 0 .. MAX_INT_DIGITS] == IF k = 0 THEN number ELSE q[k - 1] \div 10
    IN q
Significant(number) ==
    CHOOSE n \in 1 .. MAX_INT_DIGITS :
        /\ n = MAX_INT_DIGITS \/ Quotient(number)[n] = 0
        /\ n = 1 \/ Quotient(number)[n - 1] # 0

convert_number(number, leading_zeroes) ==
    LET digits == IF leading_zeroes THEN MAX_INT_DIGITS ELSE Significant(number)
    IN [i \in 1 .. digits |-> Digit(Quotient(number)[digits - i] % 10)]

number_to_string(number) == convert_number(number, FALSE)

number_to_string_indirect(size, number) ==
    IF size < MAX_INT_DIGITS + 1 THEN Thrown ELSE number_to_string(number)

UpToLastNot(c, digits) ==
    SubSeq(digits, 1, CHOOSE n \in 0 .. Len(digits) :
                        /\ n = 0 \/ digits[n] # c
                        /\ \A i \in n + 1 .. Len(digits) : digits[i] = c)

\* A whole number of CKB has no decimals; the others have leading zeros and no
\* trailing ones.
Decimals(number) ==
    LET tmp == convert_number(number, TRUE)
    IN UpToLastNot(Digit(0), SubSeq(tmp, MAX_INT_DIGITS - DECIMAL_DIGITS + 1, MAX_INT_DIGITS))

frac_ckb_to_string(number) ==
    number_to_string(number \div CKB_SCALE)
    \o IF number % CKB_SCALE = 0 THEN <<>> ELSE Ascii(".") \o Decimals(number)

frac_ckb_to_string_indirect(size, number) ==
    IF size < MAX_INT_DIGITS + 1 THEN Thrown ELSE frac_ckb_to_string(number)

frac_ckb_tuple_to_string_indirect(size, tuple) ==
    IF size < 2 * MAX_INT_DIGITS + 5
    THEN Thrown
    ELSE frac_ckb_to_string(tuple.fst) \o Ascii(" of ") \o frac_ckb_to_string(tuple.snd)

uint64_tuple_to_string(tuple) ==
    number_to_string(tuple.fst) \o Ascii(" of ") \o number_to_string(tuple.snd)

contract_type_to_string_indirect(contract_type) ==
    Ascii(IF contract_type = "NOT_PRESENT" THEN "Not Present" ELSE "Present")

copy_string(size, src) == IF Len(src) >= size THEN Thrown ELSE src

\* format_hex of the SDK; unlike the others it returns without a word, and with
\* the old text in place, if the buffer is too small.
HexDigit(n) == IF n < 10 THEN 48 + n ELSE 55 + n
format_hex(size, bytes, old) ==
    IF size < 2 * Len(bytes) + 1
    THEN old
    ELSE [i \in 1 .. 2 * Len(bytes) |->
            LET byte == bytes[(i + 1) \div 2]
            IN HexDigit(IF i % 2 = 1 THEN byte \div 16 ELSE byte % 16)]

buffer_to_hex(size, buffer, old) == format_hex(size, SubSeq(buffer.ptr, 1, buffer.size), old)

\* A component has its number and its hardened bit; no number fits what less than
\* MAX_INT_DIGITS + 1 bytes are left for.
bip32_path_to_string(size, path) ==
    LET component(i) ==
            number_to_string(path[i].number)
            \o (IF path[i].hardened THEN <<39>> ELSE <<>>)
            \o (IF i < Len(path) THEN Ascii("/") ELSE <<>>)
        text[i \in 0 .. Len(path)] == IF i = 0 THEN <<>> ELSE text[i - 1] \o component(i)
    IN IF \E i \in DOMAIN path : size - Len(text[i - 1]) < MAX_INT_DIGITS + 1
       THEN Thrown
       ELSE text[Len(path)]

-----------------------------------------------------------------------------
\* The text of a message.  A buffer has its size and the memory it lies in, which
\* goes on behind it.

\* A C string ends at the first null.
CString(bytes) ==
    IF 0 \in ToSet(bytes)
    THEN SubSeq(bytes, 1, (CHOOSE n \in DOMAIN bytes :
                            bytes[n] = 0 /\ \A i \in 1 .. n - 1 : bytes[i] # 0) - 1)
    ELSE bytes

\* copy_buffer zeroes the buffer before.
copy_buffer(size, buffer) ==
    IF buffer.size > size THEN Thrown ELSE CString(SubSeq(buffer.ptr, 1, buffer.size))

Overwritten(memory, at, bytes) ==
    [i \in DOMAIN memory |-> IF i \in at + 1 .. at + Len(bytes) THEN bytes[i - at] ELSE memory[i]]

Zeros(n) == [i \in 1 .. n |-> 0]

\* tmp_msg_buff: the packet, and whatever the stack holds behind it.
StackBuffer == 255
OnStack(packet) ==
    [size |-> Len(packet),
     ptr |-> Overwritten([i \in 1 .. StackBuffer |-> Stale], 0, packet)]

\* "Nervos Message:" is signed and not shown; what follows it moves to the front.
MagicBytes == Ascii("Nervos Message:")
slice_magic_bytes(buff) ==
    LET rest == SubSeq(buff.ptr, Len(MagicBytes) + 1, buff.size)
    IN [size |-> Len(rest), ptr |-> Overwritten(buff.ptr, 0, rest)]

\* The bytes a character takes, by the bits its first byte begins with.
cant_display(byte) == byte > 126 \/ byte < 32
SkippedWith(byte) ==
    IF ~cant_display(byte) THEN 0
    ELSE IF byte >= 240 THEN 3
    ELSE IF byte >= 224 THEN 2
    ELSE IF byte >= 192 THEN 1
    ELSE 0

\* A star for every character that cannot be displayed; what remains of the old
\* text is zeroed.  The size has eight bits and counts down with every character
\* skipped, whether it is there or not.
replace_undisplayable(buff) ==
    LET read(state, byte) ==
            IF state.skip > 0 THEN [state EXCEPT !.skip = @ - 1]
            ELSE [skip |-> SkippedWith(byte),
                  skipped |-> state.skipped + SkippedWith(byte),
                  chars |-> Append(state.chars, IF cant_display(byte) THEN 42 ELSE byte)]
        end == FoldHalves(read, [skip |-> 0, skipped |-> 0, chars |-> <<>>],
                          [skip : Nat, skipped : Nat, chars : Seq(Nat)],
                          SubSeq(buff.ptr, 1, buff.size))
        zeroed == Overwritten(buff.ptr, 0, Zeros(buff.size))
    IN [size |-> (buff.size - end.skipped) % 256, ptr |-> Overwritten(zeroed, 0, end.chars)]

Ellipsis == Ascii("...")
handle_long_message(buff) ==
    IF buff.size > MessageWidth
    THEN [size |-> MessageWidth, ptr |-> Overwritten(buff.ptr, MessageWidth - 3, Ellipsis)]
    ELSE buff

\* display_as_buffer once the first packet of a message has come.
display_as_buffer(packet, display_as_hex) ==
    LET sliced == slice_magic_bytes(OnStack(packet))
    IN handle_long_message(IF display_as_hex THEN sliced ELSE replace_undisplayable(sliced))

-----------------------------------------------------------------------------
\* What a reader makes of the rows.

Value(digits) ==
    LET v[i \in 0 .. Len(digits)] == IF i = 0 THEN 0 ELSE v[i - 1] * 10 + digits[i] - 48
    IN v[Len(digits)]
IsNumber(text) == text # <<>> /\ \A i \in DOMAIN text : text[i] \in 48 .. 57

\* A decimal number is canonical: one text for one number.
SaysNumber(text, number) ==
    IsNumber(text) /\ (Len(text) = 1 \/ text[1] # 48) /\ Value(text) = number

SaysCKB(text, number) ==
    \E n \in 0 .. Len(text) :
        LET whole == SubSeq(text, 1, n)
            decimals == SubSeq(text, n + 2, Len(text))
        IN /\ SaysNumber(whole, number \div CKB_SCALE)
           /\ IF n = Len(text)
              THEN number % CKB_SCALE = 0
              ELSE /\ text[n + 1] = 46
                   /\ IsNumber(decimals) /\ Len(decimals) <= DECIMAL_DIGITS
                   /\ decimals[Len(decimals)] # 48
                   /\ Value(decimals) * 10 ^ (DECIMAL_DIGITS - Len(decimals)) = number % CKB_SCALE

\* Two parts with a text between them.
SaysBoth(text, First(_), between, Second(_)) ==
    \E n \in 0 .. Len(text) - Len(between) :
        /\ SubSeq(text, n + 1, n + Len(between)) = between
        /\ First(SubSeq(text, 1, n))
        /\ Second(SubSeq(text, n + Len(between) + 1, Len(text)))

SaysHex(text, bytes) ==
    /\ Len(text) = 2 * Len(bytes)
    /\ \A i \in DOMAIN bytes :
        /\ text[2 * i - 1] = HexDigit(bytes[i] \div 16)
        /\ text[2 * i] = HexDigit(bytes[i] % 16)

\* Of well-formed UTF-8 every character but for the bytes that continue one.
Continues(byte) == byte \in 128 .. 191
Shown(byte) == IF cant_display(byte) THEN 42 ELSE byte
Abbreviated(text) ==
    IF Len(text) > MessageWidth THEN SubSeq(text, 1, MessageWidth - 3) \o Ellipsis ELSE text
SaysMessage(text, message) ==
    LET firsts == SelectSeq(message, LAMBDA byte : ~Continues(byte))
    IN text = Abbreviated([i \in DOMAIN firsts |-> Shown(firsts[i])])
=============================================================================
