-------------------------------- MODULE PvmOps --------------------------------
(***************************************************************************)
(* What the instructions of the PVM compute (core/pvm-interpreter/ops).    *)
(* A register is a number of 8 bytes of ByteBits bits each; what the code  *)
(* says of 64, 32 and 16 bits is said of 8, 4 and 2 such bytes, and the    *)
(* tricks that depend on the width of a number (masks, splits into halves, *)
(* signed shifts) work on those widths.                                    *)
(***************************************************************************)
EXTENDS Integers, Sequences, FiniteSets, Bitwise

CONSTANTS ByteBits   \* bits of a byte, 8

W64 == 8 * ByteBits
W32 == 4 * ByteBits
W16 == 2 * ByteBits

Signed(v, bits) == IF v >= 2^(bits - 1) THEN v - 2^bits ELSE v

\* registers.ts: what is read from a register, and written to one.
GetLowerU32(v) == v % 2^W32
GetLowerI32(v) == Signed(GetLowerU32(v), W32)
GetI64(v) == Signed(v, W64)
SetU64(v) == v % 2^W64

\* signExtend32To64, with setU32 and setI32; signExtend of 8 and 16 bits.
SignExtend(v, bits) == SetU64(Signed(v % 2^bits, bits))
SignExtend32(v) == SignExtend(v, W32)

-----------------------------------------------------------------------------
(* Arithmetic (math-ops.ts and math-utils.ts).                             *)

Max32 == 2^W32 - 1
AddWithOverflowU32(a, b) ==
    IF a > Max32 - b THEN Max32 - ((Max32 - a) + (Max32 - b)) - 1 ELSE a + b
SubU32(a, b) == IF b > a THEN Max32 - b + a + 1 ELSE a - b
SubU64(a, b) == (2^W64 + a - b) % 2^W64

\* In halves, so that no product leaves the range of a double; `>>` and `&`
\* see a 32-bit signed number.
MulLowerUnsignedU32(a, b) ==
    LET half == 2^W16
        high(v) == Signed(v % 2^W32, W32) \div half
        low(v) == v % half
        carry == high(low(a) * low(b)) + low(low(a) * high(b)) + low(high(a) * low(b))
    IN  IF a > half \/ b > half
        THEN low(low(a) * low(b)) + ((carry * half) % 2^W32)
        ELSE a * b

\* The operands are signed or unsigned, as the instruction says.
MulUpper(a, b) == SetU64((a * b) \div 2^W64)

\* `~~(a / b)` and `a % b`: towards zero, the sign of the dividend.
Abs(v) == IF v < 0 THEN -v ELSE v
Quotient(a, b) == LET q == Abs(a) \div Abs(b) IN IF (a < 0) = (b < 0) THEN q ELSE -q
Remainder(a, b) == LET r == Abs(a) % Abs(b) IN IF a < 0 THEN -r ELSE r

MathOp(op, a, b) ==
    LET a32 == GetLowerU32(a)
        b32 == GetLowerU32(b)
    IN  CASE op = "ADD_32" -> SignExtend32(AddWithOverflowU32(a32, b32))
          [] op = "ADD_64" -> (a + b) % 2^W64
          [] op = "MUL_32" -> SignExtend32(MulLowerUnsignedU32(a32, b32))
          [] op = "MUL_64" -> (a * b) % 2^W64
          [] op = "MUL_UPPER_U_U" -> MulUpper(a, b)
          [] op = "MUL_UPPER_S_S" -> MulUpper(GetI64(a), GetI64(b))
          [] op = "MUL_UPPER_S_U" -> MulUpper(GetI64(a), b)
          [] op = "SUB_32" -> SignExtend32(SubU32(a32, b32))
          [] op = "SUB_64" -> SubU64(a, b)

\* Division by zero gives the largest number, its remainder the dividend;
\* the smallest number divided by -1 is itself.
DivOp(op, a, b) ==
    LET u32(v) == GetLowerU32(v)
        i32(v) == GetLowerI32(v)
        i64(v) == GetI64(v)
        overflows(n, d, bits) == d = -1 /\ n = -(2^(bits - 1))
    IN  CASE op \in {"DIV_U_32", "DIV_S_32"} /\ u32(b) = 0 -> 2^W64 - 1
          [] op \in {"DIV_U_64", "DIV_S_64"} /\ b = 0 -> 2^W64 - 1
          [] op \in {"REM_U_32", "REM_S_32"} /\ u32(b) = 0 -> SignExtend32(u32(a))
          [] op \in {"REM_U_64", "REM_S_64"} /\ b = 0 -> a
          [] op = "DIV_S_32" /\ overflows(i32(a), i32(b), W32) -> SignExtend32(u32(a))
          [] op = "DIV_S_64" /\ overflows(i64(a), i64(b), W64) -> a
          [] op = "REM_S_32" /\ overflows(i32(a), i32(b), W32) -> 0
          [] op = "REM_S_64" /\ overflows(i64(a), i64(b), W64) -> 0
          [] op = "DIV_S_32" -> SignExtend32(Quotient(i32(a), i32(b)))
          [] op = "DIV_U_32" -> SignExtend32(Quotient(u32(a), u32(b)))
          [] op = "DIV_S_64" -> SetU64(Quotient(i64(a), i64(b)))
          [] op = "DIV_U_64" -> Quotient(a, b)
          [] op = "REM_S_32" -> SignExtend32(Remainder(i32(a), i32(b)))
          [] op = "REM_U_32" -> SignExtend32(Remainder(u32(a), u32(b)))
          [] op = "REM_S_64" -> SetU64(Remainder(i64(a), i64(b)))
          [] op = "REM_U_64" -> Remainder(a, b)

MinMaxOp(op, a, b) ==
    CASE op = "MAX" -> IF GetI64(b) > GetI64(a) THEN b ELSE a
      [] op = "MAX_U" -> IF b > a THEN b ELSE a
      [] op = "MIN" -> IF GetI64(b) < GetI64(a) THEN b ELSE a
      [] op = "MIN_U" -> IF b < a THEN b ELSE a

-----------------------------------------------------------------------------
(* Shifts, rotations and bits.                                             *)

\* shift-ops.ts; `>>` is arithmetic on what it takes to be signed.
ShiftOp(op, a, b) ==
    LET n32 == GetLowerU32(b) % W32
        n64 == b % W64
    IN  CASE op = "SHLO_L_32" -> SignExtend32(GetLowerU32(a) * 2^n32)
          [] op = "SHLO_R_32" -> SignExtend32(GetLowerU32(a) \div 2^n32)
          [] op = "SHAR_R_32" -> SignExtend32(GetLowerI32(a) \div 2^n32)
          [] op = "SHLO_L_64" -> SetU64(a * 2^n64)
          [] op = "SHLO_R_64" -> a \div 2^n64
          [] op = "SHAR_R_64" -> SetU64(GetI64(a) \div 2^n64)

\* bit-rotation-ops.ts: `<<` and `>>>` of 32-bit numbers take the shift
\* modulo 32, those of bigints do not.
Rotate32(v, left, right) ==
    SignExtend32(((v * 2^(left % W32)) % 2^W32) | (v \div 2^(right % W32)))
Rotate64(v, left, right) == ((v * 2^left) % 2^W64) | (v \div 2^right)

RotationOp(op, a, b) ==
    LET n32 == GetLowerU32(b) % W32
        n64 == GetLowerU32(b) % W64
    IN  CASE op = "ROT_L_32" -> Rotate32(GetLowerU32(a), n32, W32 - n32)
          [] op = "ROT_R_32" -> Rotate32(GetLowerU32(a), W32 - n32, n32)
          [] op = "ROT_L_64" -> Rotate64(a, n64, W64 - n64)
          [] op = "ROT_R_64" -> Rotate64(a, W64 - n64, n64)

\* `~` of a register, once it is written to one.
Inverted(v) == 2^W64 - 1 - v

BitOp(op, a, b) ==
    CASE op = "AND" -> a & b
      [] op = "XOR" -> a ^^ b
      [] op = "OR" -> a | b
      [] op = "AND_INV" -> a & Inverted(b)
      [] op = "OR_INV" -> a | Inverted(b)
      [] op = "XNOR" -> Inverted(a ^^ b)

BooleanOp(op, a, b) ==
    LET number(p) == IF p THEN 1 ELSE 0
    IN  CASE op = "SET_LT_U" -> number(a < b)
          [] op = "SET_LT_S" -> number(GetI64(a) < GetI64(b))
          [] op = "SET_GT_U" -> number(a > b)
          [] op = "SET_GT_S" -> number(GetI64(a) > GetI64(b))

\* move-ops.ts; `old` is what the register holds.
MoveOp(op, a, b, old) ==
    CASE op = "CMOV_IZ" -> IF b = 0 THEN a ELSE old
      [] op = "CMOV_NZ" -> IF b # 0 THEN a ELSE old

\* bit-utils.ts
CountLeading(v, bits) ==
    LET zeros == {n \in 0..bits : v < 2^(bits - n)}
    IN  CHOOSE n \in zeros : \A m \in zeros : m <= n
Clz64(v) ==
    LET highResult == CountLeading(v \div 2^W32, W32)
    IN  IF highResult < W32 THEN highResult ELSE highResult + CountLeading(v % 2^W32, W32)
Ctz(v, bits) ==
    IF v = 0 THEN bits ELSE CHOOSE n \in 0..(bits - 1) : v % 2^n = 0 /\ v % 2^(n + 1) # 0
RECURSIVE CountBits(_)
CountBits(v) == IF v = 0 THEN 0 ELSE (v % 2) + CountBits(v \div 2)

RECURSIVE ReverseBytes(_, _)
ReverseBytes(v, n) ==
    IF n = 0 THEN 0
    ELSE ((v % 2^ByteBits) * 2^(ByteBits * (n - 1))) + ReverseBytes(v \div 2^ByteBits, n - 1)

\* bit-ops.ts, and the move and the rotation of TwoRegsDispatcher; the
\* instruction that moves the heap is not among them.
OneOperand(op, v) ==
    CASE op = "MOVE_REG" -> v
      [] op = "COUNT_SET_BITS_64" -> CountBits(v)
      [] op = "COUNT_SET_BITS_32" -> CountBits(GetLowerU32(v))
      [] op = "LEADING_ZERO_BITS_64" -> Clz64(v)
      [] op = "LEADING_ZERO_BITS_32" -> CountLeading(GetLowerU32(v), W32)
      [] op = "TRAILING_ZERO_BITS_64" -> Ctz(v, W64)
      [] op = "TRAILING_ZERO_BITS_32" -> Ctz(GetLowerU32(v), W32)
      [] op = "SIGN_EXTEND_8" -> SignExtend(v, ByteBits)
      [] op = "SIGN_EXTEND_16" -> SignExtend(v, W16)
      [] op = "ZERO_EXTEND_16" -> v % 2^W16
      [] op = "REVERSE_BYTES" -> ReverseBytes(v, 8)

-----------------------------------------------------------------------------
(* The instructions that compute, by their number (instruction.ts).        *)

TwoRegisters == <<"MOVE_REG", "SBRK", "COUNT_SET_BITS_64", "COUNT_SET_BITS_32",
    "LEADING_ZERO_BITS_64", "LEADING_ZERO_BITS_32", "TRAILING_ZERO_BITS_64",
    "TRAILING_ZERO_BITS_32", "SIGN_EXTEND_8", "SIGN_EXTEND_16", "ZERO_EXTEND_16", "REVERSE_BYTES">>

ThreeRegisters == <<"ADD_32", "SUB_32", "MUL_32", "DIV_U_32", "DIV_S_32", "REM_U_32", "REM_S_32",
    "SHLO_L_32", "SHLO_R_32", "SHAR_R_32", "ADD_64", "SUB_64", "MUL_64", "DIV_U_64", "DIV_S_64",
    "REM_U_64", "REM_S_64", "SHLO_L_64", "SHLO_R_64", "SHAR_R_64", "AND", "XOR", "OR",
    "MUL_UPPER_S_S", "MUL_UPPER_U_U", "MUL_UPPER_S_U", "SET_LT_U", "SET_LT_S", "CMOV_IZ",
    "CMOV_NZ", "ROT_L_64", "ROT_L_32", "ROT_R_64", "ROT_R_32", "AND_INV", "OR_INV", "XNOR",
    "MAX", "MAX_U", "MIN", "MIN_U">>

\* From ADD_IMM_32 on: what the immediate is to the register, and whether it
\* comes first ("alternative").
WithImmediate == <<<<"ADD_32", FALSE>>, <<"AND", FALSE>>, <<"XOR", FALSE>>, <<"OR", FALSE>>,
    <<"MUL_32", FALSE>>, <<"SET_LT_U", FALSE>>, <<"SET_LT_S", FALSE>>, <<"SHLO_L_32", FALSE>>,
    <<"SHLO_R_32", FALSE>>, <<"SHAR_R_32", FALSE>>, <<"SUB_32", TRUE>>, <<"SET_GT_U", FALSE>>,
    <<"SET_GT_S", FALSE>>, <<"SHLO_L_32", TRUE>>, <<"SHLO_R_32", TRUE>>, <<"SHAR_R_32", TRUE>>,
    <<"CMOV_IZ", TRUE>>, <<"CMOV_NZ", TRUE>>, <<"ADD_64", FALSE>>, <<"MUL_64", FALSE>>,
    <<"SHLO_L_64", FALSE>>, <<"SHLO_R_64", FALSE>>, <<"SHAR_R_64", FALSE>>, <<"SUB_64", TRUE>>,
    <<"SHLO_L_64", TRUE>>, <<"SHLO_R_64", TRUE>>, <<"SHAR_R_64", TRUE>>, <<"ROT_R_64", FALSE>>,
    <<"ROT_R_64", TRUE>>, <<"ROT_R_32", FALSE>>, <<"ROT_R_32", TRUE>>>>

TwoOperands(op, a, b, old) ==
    CASE op \in {"ADD_32", "SUB_32", "MUL_32", "ADD_64", "SUB_64", "MUL_64",
                 "MUL_UPPER_S_S", "MUL_UPPER_U_U", "MUL_UPPER_S_U"} -> MathOp(op, a, b)
      [] op \in {"DIV_U_32", "DIV_S_32", "REM_U_32", "REM_S_32",
                 "DIV_U_64", "DIV_S_64", "REM_U_64", "REM_S_64"} -> DivOp(op, a, b)
      [] op \in {"MAX", "MAX_U", "MIN", "MIN_U"} -> MinMaxOp(op, a, b)
      [] op \in {"SHLO_L_32", "SHLO_R_32", "SHAR_R_32",
                 "SHLO_L_64", "SHLO_R_64", "SHAR_R_64"} -> ShiftOp(op, a, b)
      [] op \in {"ROT_L_64", "ROT_L_32", "ROT_R_64", "ROT_R_32"} -> RotationOp(op, a, b)
      [] op \in {"AND", "XOR", "OR", "AND_INV", "OR_INV", "XNOR"} -> BitOp(op, a, b)
      [] op \in {"SET_LT_U", "SET_LT_S", "SET_GT_U", "SET_GT_S"} -> BooleanOp(op, a, b)
      [] op \in {"CMOV_IZ", "CMOV_NZ"} -> MoveOp(op, a, b, old)

\* branch-ops.ts
Branches == <<"EQ", "NE", "LT_U", "LE_U", "GE_U", "GT_U", "LT_S", "LE_S", "GE_S", "GT_S">>
BranchesOfRegisters == <<"EQ", "NE", "LT_U", "LT_S", "GE_U", "GE_S">>

IsTaken(condition, a, b) ==
    LET i == GetI64(a)
        j == GetI64(b)
    IN  CASE condition = "EQ" -> a = b    [] condition = "NE" -> a # b
          [] condition = "LT_U" -> a < b  [] condition = "LT_S" -> i < j
          [] condition = "LE_U" -> a <= b [] condition = "LE_S" -> i <= j
          [] condition = "GE_U" -> a >= b [] condition = "GE_S" -> i >= j
          [] condition = "GT_U" -> a > b  [] condition = "GT_S" -> i > j

-----------------------------------------------------------------------------
(* What the instructions mean, said of integers and of bits: what the      *)
(* definitions above, which follow the code, are compared with.            *)

\* The register of the integer i, and of its lower half.
Long(i) == i % 2^W64
Word(i) == Long(Signed(i % 2^W32, W32))

Bit(v, i) == (v \div 2^i) % 2
Bits(v, n) == {i \in 0..(n - 1) : Bit(v, i) = 1}
RECURSIVE FromBits(_)
FromBits(bits) == IF bits = {} THEN 0
                  ELSE LET i == CHOOSE i \in bits : TRUE IN 2^i + FromBits(bits \ {i})

\* n = d * q + r, with r smaller than d and of the sign of n.
IsDivision(n, d, q, r) == n = d * q + r /\ Abs(r) < Abs(d) /\ (r = 0 \/ (r < 0) = (n < 0))

IsQuotientOf(v, n, d, bits) ==
    IF d = 0 THEN v = 2^W64 - 1
    ELSE \E q \in -(2^bits)..(2^bits) :
            IsDivision(n, d, q, n - d * q) /\ v = IF bits = W32 THEN Word(q) ELSE Long(q)
IsRemainderOf(v, n, d, bits) ==
    IF d = 0 THEN v = IF bits = W32 THEN Word(n) ELSE Long(n)
    ELSE \E q \in -(2^bits)..(2^bits) :
            IsDivision(n, d, q, n - d * q)
                /\ v = IF bits = W32 THEN Word(n - d * q) ELSE Long(n - d * q)

\* The bits of v, each n places up.
Rotated(v, n, width) == FromBits({(i + n) % width : i \in Bits(v, width)})

\* v is what the instruction computes of a and b (and of the old value).
IsMeantTwo(op, a, b, old, v) ==
    LET u32(w) == w % 2^W32
        s32(w) == Signed(u32(w), W32)
        s64(w) == Signed(w, W64)
        shift32 == u32(b) % W32
        shift64 == b % W64
        all == 0..(W64 - 1)
        A == Bits(a, W64)
        B == Bits(b, W64)
    IN  CASE op = "ADD_32" -> v = Word(a + b)
          [] op = "SUB_32" -> v = Word(a - b)
          [] op = "MUL_32" -> v = Word(a * b)
          [] op = "ADD_64" -> v = Long(a + b)
          [] op = "SUB_64" -> v = Long(a - b)
          [] op = "MUL_64" -> v = Long(a * b)
          [] op = "MUL_UPPER_U_U" -> v = (a * b) \div 2^W64
          [] op = "MUL_UPPER_S_S" -> v = Long((s64(a) * s64(b)) \div 2^W64)
          [] op = "MUL_UPPER_S_U" -> v = Long((s64(a) * b) \div 2^W64)
          [] op = "DIV_U_32" -> IsQuotientOf(v, u32(a), u32(b), W32)
          [] op = "DIV_S_32" -> IsQuotientOf(v, s32(a), s32(b), W32)
          [] op = "REM_U_32" -> IsRemainderOf(v, u32(a), u32(b), W32)
          [] op = "REM_S_32" -> IsRemainderOf(v, s32(a), s32(b), W32)
          [] op = "DIV_U_64" -> IsQuotientOf(v, a, b, W64)
          [] op = "DIV_S_64" -> IsQuotientOf(v, s64(a), s64(b), W64)
          [] op = "REM_U_64" -> IsRemainderOf(v, a, b, W64)
          [] op = "REM_S_64" -> IsRemainderOf(v, s64(a), s64(b), W64)
          [] op = "SHLO_L_32" -> v = Word(a * 2^shift32)
          [] op = "SHLO_R_32" -> v = Word(u32(a) \div 2^shift32)
          [] op = "SHAR_R_32" -> v = Word(s32(a) \div 2^shift32)
          [] op = "SHLO_L_64" -> v = Long(a * 2^shift64)
          [] op = "SHLO_R_64" -> v = a \div 2^shift64
          [] op = "SHAR_R_64" -> v = Long(s64(a) \div 2^shift64)
          [] op = "ROT_L_32" -> v = Word(Rotated(u32(a), shift32, W32))
          [] op = "ROT_R_32" -> v = Word(Rotated(u32(a), W32 - shift32, W32))
          [] op = "ROT_L_64" -> v = Rotated(a, shift64, W64)
          [] op = "ROT_R_64" -> v = Rotated(a, W64 - shift64, W64)
          [] op = "AND" -> Bits(v, W64) = A \cap B
          [] op = "OR" -> Bits(v, W64) = A \cup B
          [] op = "XOR" -> Bits(v, W64) = (A \ B) \cup (B \ A)
          [] op = "AND_INV" -> Bits(v, W64) = A \ B
          [] op = "OR_INV" -> Bits(v, W64) = A \cup (all \ B)
          [] op = "XNOR" -> Bits(v, W64) = all \ ((A \ B) \cup (B \ A))
          [] op = "SET_LT_U" -> v = 1 <=> a < b
          [] op = "SET_LT_S" -> v = 1 <=> s64(a) < s64(b)
          [] op = "SET_GT_U" -> v = 1 <=> a > b
          [] op = "SET_GT_S" -> v = 1 <=> s64(a) > s64(b)
          [] op = "CMOV_IZ" -> v = IF b = 0 THEN a ELSE old
          [] op = "CMOV_NZ" -> v = IF b = 0 THEN old ELSE a
          [] op = "MAX" -> v \in {a, b} /\ s64(v) >= s64(a) /\ s64(v) >= s64(b)
          [] op = "MAX_U" -> v \in {a, b} /\ v >= a /\ v >= b
          [] op = "MIN" -> v \in {a, b} /\ s64(v) <= s64(a) /\ s64(v) <= s64(b)
          [] op = "MIN_U" -> v \in {a, b} /\ v <= a /\ v <= b

IsMeantOne(op, a, v) ==
    LET zerosFrom(bits, width) ==   \* places above the highest of the bits
            Cardinality({i \in 0..(width - 1) : \A j \in bits : j < i})
        zerosTo(bits, width) == Cardinality({i \in 0..(width - 1) : \A j \in bits : j > i})
    IN  CASE op = "MOVE_REG" -> v = a
          [] op = "COUNT_SET_BITS_64" -> v = Cardinality(Bits(a, W64))
          [] op = "COUNT_SET_BITS_32" -> v = Cardinality(Bits(a, W32))
          [] op = "LEADING_ZERO_BITS_64" -> v = zerosFrom(Bits(a, W64), W64)
          [] op = "LEADING_ZERO_BITS_32" -> v = zerosFrom(Bits(a, W32), W32)
          [] op = "TRAILING_ZERO_BITS_64" -> v = zerosTo(Bits(a, W64), W64)
          [] op = "TRAILING_ZERO_BITS_32" -> v = zerosTo(Bits(a, W32), W32)
          [] op = "SIGN_EXTEND_8" -> v = Long(Signed(a % 2^ByteBits, ByteBits))
          [] op = "SIGN_EXTEND_16" -> v = Long(Signed(a % 2^W16, W16))
          [] op = "ZERO_EXTEND_16" -> Bits(v, W64) = Bits(a, W16)
          [] op = "REVERSE_BYTES" ->
                Bits(v, W64) = {(ByteBits * (7 - (i \div ByteBits))) + (i % ByteBits) : i \in Bits(a, W64)}
=============================================================================
