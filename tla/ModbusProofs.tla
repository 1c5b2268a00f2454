------------------------------ MODULE ModbusProofs ------------------------------
(***************************************************************************)
(* Proofs about Modbus: to a master the holding registers are the array of *)
(* RegisterBank, byte registers keep to the ranges of their table, and     *)
(* what a request changes it queues to be saved, for any split of the      *)
(* registers into bytes, shorts and longs, and any width of a byte.        *)
(***************************************************************************)
EXTENDS Modbus, WellFoundedInduction, TLAPS

--------------------------------------------------------------------------------
(* Arithmetic: the two parts of a number, to a base that is not fixed.     *)

\* Products grow with their factors.
LEMMA TimesMonotone ==
    ASSUME NEW d \in Nat, NEW a \in Nat, NEW b \in Nat, a <= b
    PROVE  d * a <= d * b
<1>1. d * b = d * a + d * (b - a) /\ d * (b - a) \in Nat /\ d * a \in Nat
  BY b - a \in Nat
<1>2. QED
  BY <1>1

\* Quotient and remainder are the parts that a number has.
LEMMA Parts ==
    ASSUME NEW d \in Nat \ {0}, NEW x \in Nat
    PROVE  /\ x \div d \in Nat /\ x % d \in 0 .. d - 1
           /\ x = d * (x \div d) + (x % d)
OBVIOUS

\* There is one way only to have them.
LEMMA PartsUnique ==
    ASSUME NEW d \in Nat \ {0}, NEW q \in Nat, NEW r \in 0 .. d - 1
    PROVE  (q * d + r) \div d = q /\ (q * d + r) % d = r
<1> DEFINE x == q * d + r
           p == x \div d
           s == x % d
<1>1. x \in Nat /\ p \in Nat /\ s \in 0 .. d - 1 /\ x = d * p + s
  <2>1. x \in Nat
    OBVIOUS
  <2>2. QED
    BY <2>1, Parts
<1>2. p = q
  <2> HIDE DEF p, s
  <2>1. CASE p < q
    <3>1. d * (p + 1) <= d * q
      BY <1>1, <2>1, TimesMonotone
    <3>2. d * (p + 1) = d * p + d
      BY <1>1
    <3>3. QED
      BY <1>1, <3>1, <3>2
  <2>2. CASE q < p
    <3>1. d * (q + 1) <= d * p
      BY <1>1, <2>2, TimesMonotone
    <3>2. d * (q + 1) = d * q + d
      OBVIOUS
    <3>3. QED
      BY <1>1, <3>1, <3>2
  <2>3. QED
    BY <1>1, <2>1, <2>2
<1>3. s = r
  BY <1>1, <1>2
<1>4. QED
  BY <1>2, <1>3

\* The quotient of a number below d * m is below m.
LEMMA QuotientBound ==
    ASSUME NEW d \in Nat \ {0}, NEW m \in Nat, NEW x \in 0 .. d * m - 1
    PROVE  x \div d \in 0 .. m - 1
<1>1. x \in Nat /\ x < d * m /\ d * m \in Nat
  OBVIOUS
<1>2. x \div d \in Nat /\ x % d \in 0 .. d - 1 /\ x = d * (x \div d) + (x % d)
  BY <1>1, Parts
<1>3. ASSUME m <= x \div d PROVE FALSE
  <2>1. d * m <= d * (x \div d)
    BY <1>2, <1>3, TimesMonotone
  <2>2. QED
    BY <1>1, <1>2, <2>1
<1>4. QED
  BY <1>2, <1>3

\* A number put together of a quotient below m and a remainder is below d * m.
LEMMA PartsBound ==
    ASSUME NEW d \in Nat \ {0}, NEW m \in Nat, NEW q \in 0 .. m - 1, NEW r \in 0 .. d - 1
    PROVE  q * d + r \in 0 .. d * m - 1
<1>1. d * (q + 1) <= d * m
  BY TimesMonotone
<1>2. d * (q + 1) = q * d + d
  OBVIOUS
<1>3. q * d + r \in Nat /\ d * m \in Nat
  OBVIOUS
<1>4. QED
  BY <1>1, <1>2, <1>3

--------------------------------------------------------------------------------
(* Registers: halves of longs, and what hold_reg_get finds of what         *)
(* hold_reg_set has put.                                                   *)

\* The square of the radix, and the widths.
LEMMA Widths ==
    ASSUME ModbusAssumption
    PROVE  /\ Radix \in Nat \ {0} /\ H \in Nat \ {0} /\ Radix <= H
           /\ Byte \subseteq Half /\ 0 \in Byte
<1>1. Radix \in Nat /\ 1 <= Radix
  BY DEF ModbusAssumption
<1>2. Radix * 1 <= Radix * Radix
  BY <1>1, TimesMonotone
<1>3. Radix * Radix \in Nat /\ Radix <= Radix * Radix
  BY <1>1, <1>2
<1>4. QED
  BY <1>1, <1>3 DEF H, Byte, Half

\* A long is its halves, and each can be set without the other.
LEMMA Halves ==
    ASSUME ModbusAssumption, NEW word \in Word, NEW value \in Half
    PROVE  /\ High(word) \in Half /\ Low(word) \in Half
           /\ SetHigh(word, value) \in Word /\ SetLow(word, value) \in Word
           /\ High(SetHigh(word, value)) = value /\ Low(SetHigh(word, value)) = Low(word)
           /\ High(SetLow(word, value)) = High(word) /\ Low(SetLow(word, value)) = value
<1>1. H \in Nat \ {0} /\ word \in 0 .. H * H - 1 /\ value \in 0 .. H - 1
  BY Widths DEF Word, Half
<1>2. word \div H \in 0 .. H - 1
  BY <1>1, QuotientBound
<1>3. word % H \in 0 .. H - 1
  BY <1>1, Parts
<1>4. value * H + (word % H) \in 0 .. H * H - 1 /\ (word \div H) * H + value \in 0 .. H * H - 1
  BY <1>1, <1>2, <1>3, PartsBound
<1> value \in Nat /\ word \div H \in Nat
  BY <1>1, <1>2
<1>5. /\ (value * H + (word % H)) \div H = value
      /\ (value * H + (word % H)) % H = word % H
  BY <1>1, <1>3, PartsUnique, Zenon
<1>6. /\ ((word \div H) * H + value) \div H = word \div H
      /\ ((word \div H) * H + value) % H = value
  BY <1>1, <1>2, PartsUnique, Zenon
<1>7. QED
  BY <1>2, <1>3, <1>4, <1>5, <1>6 DEF High, Low, SetHigh, SetLow, Half, Word

\* The registers of the longs: two by two, an odd one first.
LEMMA LongRegisters ==
    ASSUME ModbusAssumption, NEW reg \in Hold, reg \notin Chars, reg \notin Shorts
    PROVE  /\ LongOf(reg) \in Longs
           /\ \A r \in Hold : /\ r \notin Chars /\ r \notin Shorts /\ LongOf(r) = LongOf(reg)
                             /\ (r % 2 = 1 <=> reg % 2 = 1)
                             => r = reg
BY DEF ModbusAssumption, Hold, Chars, Shorts, Longs, LongOf

\* What is read from a register has its width.
LEMMA GetType ==
    ASSUME ModbusAssumption, NEW p \in SensorPara, NEW reg \in Hold
    PROVE  hold_reg_get(p, reg) \in Half
<1>1. CASE reg \in Chars
  BY <1>1, Widths DEF hold_reg_get, SensorPara
<1>2. CASE reg \notin Chars /\ reg \in Shorts
  BY <1>2 DEF hold_reg_get, SensorPara
<1>3. CASE reg \notin Chars /\ reg \notin Shorts
  <2>1. p.l[LongOf(reg)] \in Word
    BY <1>3, LongRegisters DEF SensorPara
  <2>2. High(p.l[LongOf(reg)]) \in Half /\ Low(p.l[LongOf(reg)]) \in Half
    <3>1. 0 \in Half
      BY Widths
    <3>2. QED
      BY <2>1, <3>1, Halves
  <2>3. QED
    BY <1>3, <2>2 DEF hold_reg_get
<1>4. QED
  BY <1>1, <1>2, <1>3

\* A value that is not refused is what its register reads as, and no other reads differently.
LEMMA SetGet ==
    ASSUME ModbusAssumption, NEW p \in SensorPara, NEW reg \in Hold, NEW value \in Half,
           InRange(reg, value)
    PROVE  /\ hold_reg_set(p, reg, value) \in SensorPara
           /\ \A r \in Hold : hold_reg_get(hold_reg_set(p, reg, value), r)
                             = IF r = reg THEN value ELSE hold_reg_get(p, r)
<1> DEFINE new == hold_reg_set(p, reg, value)
<1>1. /\ p.c \in [Chars -> Byte] /\ p.s \in [Shorts -> Half] /\ p.l \in [Longs -> Word]
      /\ p = [c |-> p.c, s |-> p.s, l |-> p.l]
      /\ Chars \cap Shorts = {}
  BY DEF SensorPara, ModbusAssumption, Chars, Shorts
<1>2. CASE reg \in Chars
  <2>1. value \in Byte /\ value % Radix = value
    <3>1. value <= Most[reg] /\ Most[reg] \in Byte /\ value \in Nat /\ Radix \in Nat \ {0}
      BY <1>2, Widths DEF InRange, ModbusAssumption, Half
    <3>2. QED
      BY <3>1 DEF Byte
  <2>2. new = [p EXCEPT !.c[reg] = value]
    BY <1>1, <1>2, <2>1 DEF hold_reg_set
  <2>3. new.c = [p.c EXCEPT ![reg] = value] /\ new.s = p.s /\ new.l = p.l /\ new \in SensorPara
    BY <1>1, <2>1, <2>2 DEF SensorPara
  <2> HIDE DEF new
  <2>4. \A r \in Hold : hold_reg_get(new, r) = IF r = reg THEN value ELSE hold_reg_get(p, r)
    BY <1>1, <1>2, <2>3 DEF hold_reg_get
  <2>5. QED
    BY <2>3, <2>4 DEF new
<1>3. CASE reg \notin Chars /\ reg \in Shorts
  <2>2. new = [p EXCEPT !.s[reg] = value]
    BY <1>3 DEF hold_reg_set
  <2>3. new.s = [p.s EXCEPT ![reg] = value] /\ new.c = p.c /\ new.l = p.l /\ new \in SensorPara
    BY <1>1, <2>2 DEF SensorPara
  <2> HIDE DEF new
  <2>4. \A r \in Hold : hold_reg_get(new, r) = IF r = reg THEN value ELSE hold_reg_get(p, r)
    BY <1>1, <1>3, <2>3 DEF hold_reg_get
  <2>5. QED
    BY <2>3, <2>4 DEF new
<1>4. CASE reg \notin Chars /\ reg \notin Shorts
  <2> DEFINE k == LongOf(reg)
             word == p.l[k]
             set == IF reg % 2 = 1 THEN SetHigh(word, value) ELSE SetLow(word, value)
  <2>1. k \in Longs /\ word \in Word
    BY <1>1, <1>4, LongRegisters
  <2>2. /\ set \in Word
        /\ reg % 2 = 1 => High(set) = value /\ Low(set) = Low(word)
        /\ reg % 2 # 1 => High(set) = High(word) /\ Low(set) = value
    BY <2>1, Halves
  <2>3. new = [p EXCEPT !.l[k] = set]
    BY <1>4 DEF hold_reg_set
  <2> HIDE DEF new, set
  <2>4. new.l = [p.l EXCEPT ![k] = set] /\ new.c = p.c /\ new.s = p.s /\ new \in SensorPara
    BY <1>1, <2>1, <2>2, <2>3 DEF SensorPara
  <2>5. ASSUME NEW r \in Hold
        PROVE  hold_reg_get(new, r) = IF r = reg THEN value ELSE hold_reg_get(p, r)
    <3>1. CASE r \in Chars \/ r \in Shorts
      BY <3>1, <2>4, <1>4 DEF hold_reg_get
    <3>2. CASE r \notin Chars /\ r \notin Shorts /\ LongOf(r) # k
      <4>1. LongOf(r) \in Longs
        BY <3>2, LongRegisters
      <4>2. QED
        BY <3>2, <2>4, <1>1, <4>1 DEF hold_reg_get
    <3>3. CASE r \notin Chars /\ r \notin Shorts /\ LongOf(r) = k
      <4>1. new.l[k] = set
        BY <2>1, <2>4, <1>1
      <4>2. hold_reg_get(new, r) = IF r % 2 = 1 THEN High(set) ELSE Low(set)
        BY <3>3, <4>1 DEF hold_reg_get
      <4>3. hold_reg_get(p, r) = IF r % 2 = 1 THEN High(word) ELSE Low(word)
        BY <3>3 DEF hold_reg_get
      <4>4. (r % 2 = 1 <=> reg % 2 = 1) => r = reg
        BY <1>4, <3>3, LongRegisters
      <4>5. QED
        BY <4>2, <4>3, <4>4, <2>2
    <3>4. QED
      BY <3>1, <3>2, <3>3
  <2>6. QED
    BY <2>4, <2>5 DEF new
<1>5. QED
  BY <1>2, <1>3, <1>4

--------------------------------------------------------------------------------
(* Induction over the registers of a multiple write.                       *)

\* A set of naturals has a least one.
LEMMA HasLeast ==
    ASSUME NEW S, S \subseteq Nat, S # {}
    PROVE  \E m \in S : \A k \in S : m <= k
<1>1. \E m \in S : \A k \in S : ~ (<<k, m>> \in OpToRel(<, Nat))
  BY NatLessThanWellFounded, WFMin
<1>2. PICK m \in S : \A k \in S : ~ (<<k, m>> \in OpToRel(<, Nat))
  BY <1>1
<1>3. \A k \in S : ~ (k < m)
  BY <1>2 DEF OpToRel
<1>4. \A k \in S : m <= k
  BY <1>3
<1>5. QED
  BY <1>4

\* A set that has 0 and the successor of each of its numbers has them all.
LEMMA SetInduction ==
    ASSUME NEW S, 0 \in S, \A n \in Nat : n \in S => n + 1 \in S
    PROVE  Nat \subseteq S
<1> DEFINE Bad == Nat \ S
<1>1. SUFFICES ASSUME Bad # {} PROVE FALSE
  OBVIOUS
<1>2. PICK m \in Bad : \A k \in Bad : m <= k
  <2> HIDE DEF Bad
  <2> QED BY <1>1, HasLeast, Bad \subseteq Nat DEF Bad
<1>3. m # 0 /\ m \in Nat
  OBVIOUS
<1>4. m - 1 \in Nat /\ m - 1 \notin Bad
  BY <1>2, <1>3
<1>5. QED
  BY <1>4, <1>2, <1>3

\* A set of numbers up to n that is not empty has a greatest.
LEMMA Greatest ==
    ASSUME NEW n \in Nat, NEW S, S \subseteq 0 .. n, S # {}
    PROVE  Max(S) \in S
<1> DEFINE D == {n - k : k \in S}
<1>1. D \subseteq Nat /\ D # {}
  <2>1. \A k \in S : n - k \in Nat
    OBVIOUS
  <2>2. QED
    BY <2>1
<1>2. PICK m \in D : \A k \in D : m <= k
  <2> HIDE DEF D
  <2> QED BY <1>1, HasLeast
<1>3. PICK x \in S : m = n - x
  BY <1>2
<1>4. \A y \in S : n - y \in D
  OBVIOUS
<1>5. \A y \in S : x >= y
  BY <1>2, <1>3, <1>4
<1>6. QED
  BY <1>3, <1>5 DEF Max

\* f follows Storing up to N.
StoringUpTo(reg, params, f, N) ==
    f = [n \in 0 .. N |-> IF n = 0 THEN para ELSE hold_reg_set(f[n - 1], reg + n - 1, params[n])]

\* There is such a function.
LEMMA StoringExists ==
    ASSUME NEW reg, NEW params, NEW N \in Nat PROVE \E f : StoringUpTo(reg, params, f, N)
<1> DEFINE Good == {M \in Nat : \E f : StoringUpTo(reg, params, f, M)}
<1>1. 0 \in Good
  <2> DEFINE one == [n \in 0 .. 0 |-> para]
  <2>1. StoringUpTo(reg, params, one, 0)
    BY DEF StoringUpTo
  <2>2. QED BY <2>1
<1>2. ASSUME NEW M \in Nat, M \in Good PROVE M + 1 \in Good
  <2>1. PICK f : StoringUpTo(reg, params, f, M)
    BY <1>2
  <2> DEFINE next(g, n) == IF n = 0 THEN para ELSE hold_reg_set(g[n - 1], reg + n - 1, params[n])
             g == [n \in 0 .. M + 1 |-> next(f, n)]
  <2>2. \A n \in 0 .. M : g[n] = f[n]
    BY <2>1 DEF StoringUpTo
  <2>3. \A n \in 0 .. M + 1 : g[n] = next(g, n)
    <3>1. TAKE n \in 0 .. M + 1
    <3>2. CASE n = 0 BY <3>2
    <3>3. CASE n # 0
      <4>1. n - 1 \in 0 .. M
        BY <3>3
      <4>2. g[n - 1] = f[n - 1]
        BY <4>1, <2>2
      <4> HIDE DEF g
      <4>3. g[n] = next(f, n)
        BY DEF g
      <4>4. QED BY <4>2, <4>3
    <3>4. QED BY <3>2, <3>3
  <2>4. StoringUpTo(reg, params, g, M + 1)
    <3> HIDE DEF g
    <3>1. g = [n \in 0 .. M + 1 |-> g[n]]
      BY DEF g
    <3> QED BY <2>3, <3>1 DEF StoringUpTo
  <2>5. QED BY <2>4
<1>3. N \in Good
  <2> HIDE DEF Good
  <2> QED BY <1>1, <1>2, SetInduction
<1>4. QED BY <1>3

\* The registers are written one after the other, and no other changes.
LEMMA StoresInPlace ==
    ASSUME ModbusAssumption, para \in SensorPara, NEW reg \in Hold, NEW params \in Seq(Half),
           reg + Len(params) <= SplitHold3, NEW m \in 0 .. Len(params),
           \A i \in 1 .. m : InRange(reg + i - 1, params[i])
    PROVE  /\ Storing(reg, params)[m] \in SensorPara
           /\ \A r \in Hold : hold_reg_get(Storing(reg, params)[m], r)
                             = IF reg <= r /\ r < reg + m THEN params[r - reg + 1]
                               ELSE hold_reg_get(para, r)
<1> DEFINE f == Storing(reg, params)
           Right(k) == /\ f[k] \in SensorPara
                       /\ \A r \in Hold : hold_reg_get(f[k], r)
                                         = IF reg <= r /\ r < reg + k THEN params[r - reg + 1]
                                           ELSE hold_reg_get(para, r)
           Good == {k \in Nat : k <= m => Right(k)}
<1>1. Len(params) \in Nat /\ m \in Nat /\ m <= Len(params) /\ reg \in Nat
  BY DEF Hold
<1>2. StoringUpTo(reg, params, f, Len(params))
  <2>1. \E g : StoringUpTo(reg, params, g, Len(params))
    BY <1>1, StoringExists
  <2>2. QED
    BY <2>1 DEF StoringUpTo, Storing
<1> HIDE DEF f
<1>3. \A n \in 0 .. Len(params) :
        f[n] = IF n = 0 THEN para ELSE hold_reg_set(f[n - 1], reg + n - 1, params[n])
  BY <1>2 DEF StoringUpTo
<1>4. 0 \in Good
  <2>1. f[0] = para
    BY <1>1, <1>3
  <2>2. QED
    BY <2>1, <1>1 DEF Hold
<1>5. ASSUME NEW k \in Nat, k \in Good PROVE k + 1 \in Good
  <2> SUFFICES ASSUME k + 1 <= m PROVE Right(k + 1)
    OBVIOUS
  <2>1. Right(k)
    BY <1>1, <1>5
  <2> DEFINE new == reg + k
  <2>2. new \in Hold /\ params[k + 1] \in Half /\ InRange(new, params[k + 1])
    <3>1. k + 1 \in 1 .. m /\ k + 1 \in 1 .. Len(params) /\ reg + (k + 1) - 1 = new
      BY <1>1
    <3>2. new \in Hold
      BY <1>1, <3>1 DEF Hold, ModbusAssumption
    <3>3. QED
      BY <3>1, <3>2
  <2>3. f[k + 1] = hold_reg_set(f[k], new, params[k + 1])
    <3>1. k + 1 \in 0 .. Len(params) /\ k + 1 # 0 /\ k + 1 - 1 = k /\ reg + (k + 1) - 1 = new
      BY <1>1
    <3>2. QED
      BY <1>3, <3>1
  <2>4. /\ f[k + 1] \in SensorPara
        /\ \A r \in Hold : hold_reg_get(f[k + 1], r)
                          = IF r = new THEN params[k + 1] ELSE hold_reg_get(f[k], r)
    <3> HIDE DEF new
    <3> QED BY <2>1, <2>2, <2>3, SetGet
  <2>5. ASSUME NEW r \in Hold
        PROVE  hold_reg_get(f[k + 1], r)
               = IF reg <= r /\ r < reg + (k + 1) THEN params[r - reg + 1] ELSE hold_reg_get(para, r)
    <3>1. r \in Nat
      BY DEF Hold
    <3>2. CASE r = new
      <4>1. r - reg + 1 = k + 1 /\ reg <= r /\ r < reg + (k + 1)
        BY <1>1, <3>1, <3>2
      <4>2. QED
        BY <2>4, <3>2, <4>1
    <3>3. CASE r # new
      <4>1. (reg <= r /\ r < reg + (k + 1)) <=> (reg <= r /\ r < reg + k)
        BY <1>1, <3>1, <3>3
      <4>2. hold_reg_get(f[k + 1], r) = hold_reg_get(f[k], r)
        BY <2>4, <3>3
      <4>3. QED
        BY <2>1, <4>1, <4>2
    <3>4. QED
      BY <3>2, <3>3
  <2>6. QED
    BY <2>4, <2>5
<1>6. m \in Good
  <2> HIDE DEF Good
  <2> QED BY <1>1, <1>4, <1>5, SetInduction
<1>7. QED
  BY <1>6, <1>1 DEF f

--------------------------------------------------------------------------------
(* The steps.                                                              *)

\* The inductive invariant: a register that is in its range can be set to what it is.
IInv == TypeOK /\ RangesKept

LEMMA InitInv == ASSUME ModbusAssumption, Init PROVE IInv
<1>1. para \in SensorPara /\ data \in SensorData /\ slave \in Byte
  <2>1. 0 \in Half /\ 0 \in Word
    BY Widths DEF Half, Word
  <2>2. para \in SensorPara /\ 0 \in Chars
    BY DEF Init, ModbusAssumption, Chars
  <2>3. slave \in Byte
    BY <2>2 DEF Init, SensorPara
  <2>4. data \in SensorData
    BY <2>1 DEF Init, SensorData
  <2>5. QED
    BY <2>2, <2>3, <2>4
<1>2. m_info \in Ranges \cup {None} /\ event \in Ranges \cup {None} /\ reply = [fn |-> "none"]
  BY DEF Init
<1>3. RangesKept
  BY DEF Init, RangesKept, ModbusAssumption, Chars
<1>4. QED
  BY <1>1, <1>2, <1>3 DEF IInv, TypeOK

\* The parameters of a multiple write are halves.
LEMMA ParamsType ==
    ASSUME ModbusAssumption, NEW byte_count \in Byte, NEW values \in Seq(Half)
    PROVE  Params(byte_count, values) \in Seq(Half) /\ Len(Params(byte_count, values)) = Len(values)
<1>1. Radix \in Nat \ {0} /\ H = Radix * Radix
  BY Widths DEF H
<1>2. ASSUME NEW x \in Half PROVE x \div Radix \in Byte /\ x % Radix \in Byte
  <2>1. x \in 0 .. Radix * Radix - 1 /\ x \in Nat /\ Radix \in Nat
    BY <1>1 DEF Half
  <2>2. x \div Radix \in 0 .. Radix - 1
    BY <1>1, <2>1, QuotientBound
  <2>3. x % Radix \in 0 .. Radix - 1
    BY <1>1, <2>1, Parts
  <2>4. QED
    BY <2>2, <2>3 DEF Byte
<1>3. ASSUME NEW b \in Byte, NEW a \in Byte PROVE Radix * b + a \in Half
  <2>1. b * Radix + a \in 0 .. Radix * Radix - 1
    BY <1>1, PartsBound DEF Byte
  <2>2. Radix * b = b * Radix
    BY <1>1 DEF Byte
  <2>3. QED
    BY <2>1, <2>2, <1>1 DEF Half
<1> DEFINE first(i) == IF i = 1 THEN byte_count ELSE values[i - 1] % Radix
           n == Len(values)
<1>4. n \in Nat /\ DOMAIN values = 1 .. n /\ \A i \in 1 .. n : values[i] \in Half
  OBVIOUS
<1>5. ASSUME NEW i \in 1 .. n PROVE first(i) \in Byte
  <2>1. CASE i = 1
    BY <2>1
  <2>2. CASE i # 1
    <3>1. i - 1 \in 1 .. n
      BY <1>4, <2>2
    <3>2. QED
      BY <1>2, <1>4, <2>2, <3>1
  <2>3. QED
    BY <2>1, <2>2
<1>6. \A i \in 1 .. n : Radix * first(i) + (values[i] \div Radix) \in Half
  <2> HIDE DEF first
  <2> QED BY <1>2, <1>3, <1>4, <1>5
<1>7. Params(byte_count, values) = [i \in 1 .. n |-> Radix * first(i) + (values[i] \div Radix)]
  BY <1>4 DEF Params
<1>8. QED
  <2> HIDE DEF first
  <2> QED BY <1>4, <1>6, <1>7

\* What a multiple write comes to that is within the registers.
LEMMA ManyWritten ==
    ASSUME ModbusAssumption, para \in SensorPara, NEW reg \in Hold, NEW params \in Seq(Half),
           reg + Len(params) <= SplitHold3
    PROVE  LET n == Written(reg, params)
               p == Storing(reg, params)[n]
           IN  /\ n \in 0 .. Len(params)
               /\ p \in SensorPara
               /\ \A r \in Hold : ~(reg <= r /\ r < reg + Len(params)) =>
                                    hold_reg_get(p, r) = hold_reg_get(para, r)
               /\ \A r \in Hold : \/ hold_reg_get(p, r) = hold_reg_get(para, r)
                                 \/ InRange(r, hold_reg_get(p, r))
<1> DEFINE S == {k \in 0 .. Len(params) : \A i \in 1 .. k : InRange(reg + i - 1, params[i])}
           n == Written(reg, params)
           p == Storing(reg, params)[n]
<1>1. Len(params) \in Nat /\ reg \in Nat
  BY DEF Hold
<1>2. n \in S
  <2>1. 0 \in S
    BY <1>1
  <2>2. n = Max(S)
    BY DEF Written
  <2> HIDE DEF S, n
  <2>3. S \subseteq 0 .. Len(params)
    BY DEF S
  <2>4. QED
    BY <1>1, <2>1, <2>2, <2>3, Greatest
<1> HIDE DEF n
<1>3. n \in 0 .. Len(params) /\ \A i \in 1 .. n : InRange(reg + i - 1, params[i])
  BY <1>2
<1>4. /\ p \in SensorPara
      /\ \A r \in Hold : hold_reg_get(p, r) = IF reg <= r /\ r < reg + n THEN params[r - reg + 1]
                                              ELSE hold_reg_get(para, r)
  BY <1>3, StoresInPlace
<1> HIDE DEF p
<1>5. ASSUME NEW r \in Hold
      PROVE  /\ ~(reg <= r /\ r < reg + Len(params)) => hold_reg_get(p, r) = hold_reg_get(para, r)
             /\ hold_reg_get(p, r) = hold_reg_get(para, r) \/ InRange(r, hold_reg_get(p, r))
  <2>1. r \in Nat
    BY DEF Hold
  <2>2. CASE reg <= r /\ r < reg + n
    <3>1. r - reg + 1 \in 1 .. n /\ reg + (r - reg + 1) - 1 = r /\ r < reg + Len(params)
      BY <1>1, <1>3, <2>1, <2>2
    <3>2. InRange(r, params[r - reg + 1])
      BY <1>3, <3>1
    <3>3. QED
      BY <1>4, <2>2, <3>1, <3>2
  <2>3. CASE ~(reg <= r /\ r < reg + n)
    BY <1>4, <2>3
  <2>4. QED
    BY <2>2, <2>3
<1>6. QED
  BY <1>3, <1>4, <1>5 DEF n, p

\* The ranges, said of what is read from the registers.
LEMMA RangesRead ==
    ASSUME ModbusAssumption, para \in SensorPara, para' \in SensorPara, RangesKept,
           \A r \in Hold : \/ hold_reg_get(para', r) = hold_reg_get(para, r)
                         \/ InRange(r, hold_reg_get(para', r)),
           slave' = slave
    PROVE  RangesKept'
<1>1. ASSUME NEW r \in Chars PROVE Least[r] <= para'.c[r] /\ para'.c[r] <= Most[r]
  <2>1. r \in Hold
    BY DEF Chars, Hold, ModbusAssumption
  <2>2. hold_reg_get(para', r) = para'.c[r] /\ hold_reg_get(para, r) = para.c[r]
    <3>1. r \notin Shorts
      BY DEF Chars, Shorts, ModbusAssumption
    <3>2. QED
      BY <3>1 DEF hold_reg_get
  <2>3. QED
    BY <2>1, <2>2 DEF InRange, RangesKept
<1>2. QED
  BY <1>1 DEF RangesKept

\* What a step of the server keeps, with the promises about it.
Saves == \A r \in Hold : hold_reg_get(para, r) # hold_reg_get(para', r) =>
           event' # None /\ event'.reg <= r /\ r < event'.reg + event'.reg_no
Sound == IInv' /\ Bank!Next /\ Saves

\* A range is not the empty sequence that stands for none.
LEMMA SomeRange == ASSUME NEW a, NEW b PROVE [reg |-> a, reg_no |-> b] # None
<1>1. "reg" \in DOMAIN [reg |-> a, reg_no |-> b]
  OBVIOUS
<1>2. DOMAIN None = {}
  BY DEF None
<1>3. QED
  BY <1>1, <1>2

\* Registers read: from the first on, within the limit that was tested.
LEMMA ReadHoldStep ==
    ASSUME ModbusAssumption, IInv, NEW reg \in Hold, NEW reg_no \in 0 .. MaxRegNo,
           ReadHold(reg, reg_no)
    PROVE  Sound
<1>1. para' = para /\ data' = data /\ slave' = slave /\ m_info' = None /\ event' = None
  BY DEF ReadHold, Done
<1>2. RangesKept'
  BY <1>1 DEF IInv, RangesKept
<1>3. Saves
  BY <1>1 DEF Saves
<1>4. CASE Addressed(reg, reg_no, SplitHold3) /\ reply' = [fn |-> "read_hold", reg |-> reg,
                       data |-> [i \in 1 .. reg_no |-> hold_reg_get(para, reg + i - 1)]]
  <2>1. reply'.fn = "read_hold" /\ reply'.reg = reg
        /\ reply'.data = [i \in 1 .. reg_no |-> hold_reg_get(para, reg + i - 1)]
    BY <1>4
  <2>2. \A i \in 1 .. reg_no : reg + i - 1 \in Hold
    BY <1>4 DEF Addressed, Hold, ModbusAssumption
  <2>3. \A i \in 1 .. reg_no : reply'.data[i] \in Half
    BY <2>1, <2>2, GetType DEF IInv, TypeOK
  <2>4. TypeOK'
    BY <1>1, <2>1, <2>3 DEF IInv, TypeOK
  <2>5. Bank!Read
    BY <1>1, <2>1, <2>2 DEF Bank!Read
  <2>6. QED
    BY <1>2, <1>3, <2>4, <2>5 DEF Sound, IInv, Bank!Next
<1>5. CASE reply' = Exception
  <2>1. reply'.fn = "exception"
    BY <1>5 DEF Exception
  <2>2. TypeOK'
    BY <1>1, <2>1 DEF IInv, TypeOK
  <2>3. Bank!Refuse
    BY <1>1, <2>1 DEF Bank!Refuse
  <2>4. QED
    BY <1>2, <1>3, <2>2, <2>3 DEF Sound, IInv, Bank!Next
<1>6. QED
  BY <1>4, <1>5 DEF ReadHold

LEMMA ReadInputStep ==
    ASSUME ModbusAssumption, IInv, NEW reg \in Hold, NEW reg_no \in 0 .. MaxRegNo,
           ReadInput(reg, reg_no)
    PROVE  Sound
<1>1. para' = para /\ data' = data /\ slave' = slave /\ m_info' = None /\ event' = None
  BY DEF ReadInput, Done
<1>2. RangesKept'
  BY <1>1 DEF IInv, RangesKept
<1>3. Saves
  BY <1>1 DEF Saves
<1>4. CASE Addressed(reg, reg_no, SplitInput2) /\ reply' = [fn |-> "read_input", reg |-> reg,
                       data |-> [i \in 1 .. reg_no |-> input_reg_get(data, reg + i - 1)]]
  <2>1. reply'.fn = "read_input"
        /\ reply'.data = [i \in 1 .. reg_no |-> input_reg_get(data, reg + i - 1)]
    BY <1>4
  <2>2. ASSUME NEW i \in 1 .. reg_no PROVE input_reg_get(data, reg + i - 1) \in Half
    <3> DEFINE r == reg + i - 1
    <3>1. r \in 0 .. SplitInput2 - 1
      BY <1>4 DEF Addressed, Hold, ModbusAssumption
    <3>2. CASE r \in InputShorts
      <4>1. data.s[r] \in Nat
        BY <3>2 DEF IInv, TypeOK, SensorData, Half
      <4>2. data.s[r] % Radix \in Byte
        BY <4>1, Widths, Parts DEF Byte
      <4>3. QED
        BY <3>2, <4>2, Widths DEF input_reg_get
    <3>3. CASE r \notin InputShorts
      <4> DEFINE word == data.l[(r - SplitInput1) \div 2]
      <4>1. (r - SplitInput1) \div 2 \in InputLongs
        BY <3>1, <3>3 DEF InputShorts, InputLongs, ModbusAssumption
      <4>2. word \in Word
        BY <4>1 DEF IInv, TypeOK, SensorData
      <4>3. High(word) \in Half /\ Low(word) \in Half
        <5>1. 0 \in Half
          BY Widths
        <5>2. QED
          BY <4>2, <5>1, Halves
      <4>4. QED
        BY <3>3, <4>3 DEF input_reg_get
    <3>4. QED
      BY <3>2, <3>3
  <2>3. TypeOK'
    BY <1>1, <2>1, <2>2 DEF IInv, TypeOK
  <2>4. Bank!Other
    BY <1>1, <2>1 DEF Bank!Other
  <2>5. QED
    BY <1>2, <1>3, <2>3, <2>4 DEF Sound, IInv, Bank!Next
<1>5. CASE reply' = Exception
  <2>1. reply'.fn = "exception"
    BY <1>5 DEF Exception
  <2>2. TypeOK'
    BY <1>1, <2>1 DEF IInv, TypeOK
  <2>3. Bank!Refuse
    BY <1>1, <2>1 DEF Bank!Refuse
  <2>4. QED
    BY <1>2, <1>3, <2>2, <2>3 DEF Sound, IInv, Bank!Next
<1>6. QED
  BY <1>4, <1>5 DEF ReadInput

\* A single write: its register, if the value is in its range.
LEMMA WriteOneStep ==
    ASSUME ModbusAssumption, IInv, NEW reg \in Hold, NEW value \in Sent, WriteOne(reg, value)
    PROVE  Sound
<1>1. data' = data /\ slave' = slave /\ m_info' = AskedOne(reg) /\ event' = AskedOne(reg)
  BY DEF WriteOne, Done
<1>2. AskedOne(reg) \in Ranges /\ AskedOne(reg) # None
      /\ AskedOne(reg).reg = reg /\ AskedOne(reg).reg_no = 1
  BY SomeRange DEF AskedOne, Ranges, ModbusAssumption
<1>3. value \in Half /\ para \in SensorPara
  BY DEF ModbusAssumption, IInv, TypeOK
<1>4. CASE /\ InRange(reg, value)
           /\ para' = hold_reg_set(para, reg, value)
           /\ reply' = [fn |-> "write_one", reg |-> reg, data |-> <<value>>]
  <2>1. /\ para' \in SensorPara
        /\ \A r \in Hold : hold_reg_get(para', r) = IF r = reg THEN value ELSE hold_reg_get(para, r)
    BY <1>3, <1>4, SetGet
  <2>2. reply'.fn = "write_one" /\ reply'.reg = reg /\ reply'.data[1] = value
    BY <1>4
  <2>3. TypeOK'
    BY <1>1, <1>2, <2>1, <2>2 DEF IInv, TypeOK
  <2>4. RangesKept'
    BY <1>1, <1>3, <1>4, <2>1, RangesRead DEF IInv
  <2>5. Bank!WriteOne
    BY <2>1, <2>2 DEF Bank!WriteOne
  <2>6. Saves
    <3>1. \A r \in Hold : hold_reg_get(para, r) # hold_reg_get(para', r) => r = reg
      BY <2>1
    <3>2. reg <= reg /\ reg < reg + 1
      BY DEF Hold
    <3>3. QED
      BY <1>1, <1>2, <3>1, <3>2 DEF Saves
  <2>7. QED
    BY <2>3, <2>4, <2>5, <2>6 DEF Sound, IInv, Bank!Next
<1>5. CASE reply' = Exception /\ UNCHANGED para
  <2>1. reply'.fn = "exception"
    BY <1>5 DEF Exception
  <2>2. TypeOK'
    BY <1>1, <1>2, <1>5, <2>1 DEF IInv, TypeOK
  <2>3. RangesKept'
    BY <1>1, <1>5 DEF IInv, RangesKept
  <2>4. Bank!Refuse
    BY <1>5, <2>1 DEF Bank!Refuse
  <2>5. Saves
    BY <1>5 DEF Saves
  <2>6. QED
    BY <2>2, <2>3, <2>4, <2>5 DEF Sound, IInv, Bank!Next
<1>6. QED
  BY <1>4, <1>5 DEF WriteOne

\* A multiple write: no register beside those it names, whether or not it gets through.
LEMMA WriteManyStep ==
    ASSUME ModbusAssumption, IInv, NEW reg \in Hold, NEW byte_count \in Byte,
           NEW values \in SeqOf(Sent, MaxRegNo), WriteMany(reg, byte_count, values)
    PROVE  Sound
<1> DEFINE params == Params(byte_count, values)
           n == Written(reg, params)
           reg_no == Len(values)
           range == [reg |-> reg, reg_no |-> reg_no]
<1>1. data' = data /\ slave' = slave /\ m_info' = range /\ event' = range
  BY DEF WriteMany, Done
<1>2. values \in Seq(Half) /\ reg_no \in 0 .. MaxRegNo
  <2>1. PICK k \in 0 .. MaxRegNo : values \in [1 .. k -> Sent]
    BY DEF SeqOf
  <2>2. MaxRegNo \in Nat /\ Sent \subseteq Half
    BY DEF ModbusAssumption
  <2>3. k \in Nat /\ values \in [1 .. k -> Half]
    BY <2>1, <2>2
  <2>4. QED
    BY <2>1, <2>3
<1>3. params \in Seq(Half) /\ Len(params) = reg_no
  BY <1>2, ParamsType
<1>4. range \in Ranges /\ range # None /\ range.reg = reg /\ range.reg_no = reg_no
  BY <1>2, SomeRange DEF Ranges
<1>5. para \in SensorPara
  BY DEF IInv, TypeOK
<1>6. CASE /\ Addressed(reg, reg_no, SplitHold3)
           /\ para' = Storing(reg, params)[n]
           /\ reply' = IF n = reg_no THEN [fn |-> "write_many", reg |-> reg, no |-> reg_no]
                       ELSE Refusal(reg, reg_no)
  <2>1. reg + Len(params) <= SplitHold3
    BY <1>2, <1>3, <1>6 DEF Addressed, Hold, ModbusAssumption
  <2>2. /\ para' \in SensorPara
        /\ \A r \in Hold : ~(reg <= r /\ r < reg + reg_no) =>
                            hold_reg_get(para', r) = hold_reg_get(para, r)
        /\ \A r \in Hold : \/ hold_reg_get(para', r) = hold_reg_get(para, r)
                          \/ InRange(r, hold_reg_get(para', r))
    <3> HIDE DEF params
    <3> QED BY <1>3, <1>5, <1>6, <2>1, ManyWritten
  <2> HIDE DEF params, n, range, reg_no
  <2>3. RangesKept'
    BY <1>1, <1>5, <2>2, RangesRead DEF IInv
  <2>4. /\ reply'.fn \in {"write_many", "exception"} /\ reply'.reg = reg /\ reply'.no = reg_no
        /\ {"reg", "no"} \subseteq DOMAIN reply'
    BY <1>6 DEF Refusal
  <2>5. TypeOK'
    BY <1>1, <1>4, <2>2, <2>4 DEF IInv, TypeOK
  <2>6. Bank!WriteMany \/ Bank!Refuse
    <3> DEFINE bank == [r \in Hold |-> hold_reg_get(para, r)]
    <3>1. bank' = [r \in Hold |-> hold_reg_get(para', r)]
      OBVIOUS
    <3>2. bank' \in [Hold -> Half]
      BY <2>2, <3>1, GetType
    <3>3. \A r \in Hold \ Bank!Run(reply'.reg, reply'.no) : bank'[r] = bank[r]
      BY <2>2, <2>4, <3>1 DEF Bank!Run
    <3> HIDE DEF bank
    <3>4. QED
      BY <2>4, <3>2, <3>3 DEF Bank!WriteMany, Bank!Refuse, bank
  <2>7. Saves
    BY <1>1, <1>4, <2>2 DEF Saves
  <2>8. QED
    BY <2>3, <2>5, <2>6, <2>7 DEF Sound, IInv, Bank!Next
<1>7. CASE reply' = Refusal(reg, reg_no) /\ UNCHANGED para
  <2> HIDE DEF params, n, range, reg_no
  <2>1. reply'.fn = "exception"
    BY <1>7 DEF Refusal
  <2>2. TypeOK'
    BY <1>1, <1>4, <1>7, <2>1 DEF IInv, TypeOK
  <2>3. RangesKept'
    BY <1>1, <1>7 DEF IInv, RangesKept
  <2>4. Bank!Refuse
    BY <1>7, <2>1 DEF Bank!Refuse
  <2>5. Saves
    BY <1>7 DEF Saves
  <2>6. QED
    BY <2>2, <2>3, <2>4, <2>5 DEF Sound, IInv, Bank!Next
<1>8. QED
  BY <1>6, <1>7 DEF WriteMany

\* Another function, a measurement and a new address leave the registers alone.
LEMMA OtherSteps ==
    ASSUME ModbusAssumption, IInv, OtherFunction \/ Measure \/ SlaveSet
    PROVE  IInv' /\ Saves /\ (Bank!Next \/ UNCHANGED reply) /\ para' = para
<1>1. para' = para
  BY DEF OtherFunction, Done, Measure, SlaveSet
<1>2. Saves
  BY <1>1 DEF Saves
<1>3. CASE OtherFunction
  <2>1. reply'.fn = "other" /\ m_info' = m_info /\ event' = m_info /\ data' = data /\ slave' = slave
    BY <1>3 DEF OtherFunction, Done
  <2>2. TypeOK' /\ RangesKept'
    BY <1>1, <2>1 DEF IInv, TypeOK, RangesKept
  <2>3. Bank!Other
    BY <1>1, <2>1 DEF Bank!Other
  <2>4. QED
    BY <1>1, <1>2, <2>2, <2>3 DEF IInv, Bank!Next
<1>4. CASE Measure
  <2>1. slave' = slave /\ m_info' = m_info /\ reply' = reply /\ event' = event
    BY <1>4 DEF Measure
  <2>2. data' \in SensorData
    <3>1. Readings \subseteq Half /\ Readings \subseteq Word
      <4>1. H * 1 <= H * H /\ H \in Nat /\ H * H \in Nat
        BY Widths, TimesMonotone
      <4>2. QED
        BY <4>1 DEF ModbusAssumption, Half, Word
    <3>2. data \in SensorData
      BY DEF IInv, TypeOK
    <3>3. CASE \E i \in InputShorts, v \in Readings : data' = [data EXCEPT !.s[i] = v]
      BY <3>1, <3>2, <3>3 DEF SensorData
    <3>4. CASE \E i \in InputLongs, v \in Readings : data' = [data EXCEPT !.l[i] = v]
      BY <3>1, <3>2, <3>4 DEF SensorData
    <3>5. QED
      BY <1>4, <3>3, <3>4 DEF Measure
  <2>3. TypeOK' /\ RangesKept'
    BY <1>1, <2>1, <2>2 DEF IInv, TypeOK, RangesKept
  <2>4. QED
    BY <1>1, <1>2, <2>1, <2>3 DEF IInv
<1>5. CASE SlaveSet
  <2>1. slave' = para.c[0] /\ data' = data /\ m_info' = m_info /\ reply' = reply /\ event' = event
    BY <1>5 DEF SlaveSet
  <2>2. 0 \in Chars /\ para.c[0] \in Byte
    BY DEF Chars, ModbusAssumption, IInv, TypeOK, SensorPara
  <2>3. TypeOK' /\ RangesKept'
    BY <1>1, <2>1, <2>2 DEF IInv, TypeOK, RangesKept
  <2>4. QED
    BY <1>1, <1>2, <2>1, <2>3 DEF IInv
<1>6. QED
  BY <1>3, <1>4, <1>5

\* Every step keeps the invariant, is one of RegisterBank or changes nothing of
\* it, and has what it changes saved.
LEMMA NextStep ==
    ASSUME ModbusAssumption, IInv, Next
    PROVE  IInv' /\ Saves /\ (Bank!Next \/ (para' = para /\ reply' = reply))
<1>1. CASE Request
  BY <1>1, ReadHoldStep, ReadInputStep, WriteOneStep, WriteManyStep DEF Request, Sound
<1>2. CASE OtherFunction \/ Measure \/ SlaveSet
  BY <1>2, OtherSteps
<1>3. QED
  BY <1>1, <1>2 DEF Next

LEMMA Stutter == ASSUME IInv, UNCHANGED vars PROVE IInv'
BY DEF IInv, TypeOK, RangesKept, vars

\* What is in the registers at the start.
LEMMA BankInit == ASSUME ModbusAssumption, Init PROVE Bank!Init
<1>1. para \in SensorPara /\ reply = [fn |-> "none"]
  BY InitInv DEF IInv, TypeOK, Init
<1>2. QED
  BY <1>1, GetType DEF Bank!Init

--------------------------------------------------------------------------------
(* IInv is inductive: it holds in every reachable state.                   *)
THEOREM Invariance == ASSUME ModbusAssumption PROVE Spec => []IInv
<1>1. Init => IInv
  BY InitInv
<1>2. IInv /\ [Next]_vars => IInv'
  BY NextStep, Stutter
<1>3. QED
  BY <1>1, <1>2, PTL DEF Spec

(* The registers and the requests keep their types: bytes are bytes, and   *)
(* the halves that reg_operate puts into a long never overflow it.         *)
THEOREM TypeCorrect == ASSUME ModbusAssumption PROVE Spec => []TypeOK
<1>1. IInv => TypeOK
  BY DEF IInv
<1>2. QED
  BY <1>1, Invariance, PTL

(* reg_operate's check of the range, made on every register of every       *)
(* write, keeps the link address, the one in force included, and the baud  *)
(* rate within what t_hold_reg_0_6 allows.                                 *)
THEOREM AddressInRange == ASSUME ModbusAssumption PROVE Spec => []RangesKept
<1>1. IInv => RangesKept
  BY DEF IInv
<1>2. QED
  BY <1>1, Invariance, PTL

(* Bytes, shorts and halves of longs are an array to a master: the server  *)
(* of modbus_reply implements RegisterBank, step by step.                  *)
THEOREM IsBank == ASSUME ModbusAssumption PROVE Spec => BankSpec
<1>1. Init => Bank!Init
  BY BankInit
<1>2. IInv /\ [Next]_vars => [Bank!Next]_<<[r \in Hold |-> hold_reg_get(para, r)], reply>>
  BY NextStep DEF vars
<1>3. QED
  BY <1>1, <1>2, Invariance, PTL DEF Spec, BankSpec, Bank!Spec

(* package_event_handler queues a save of every register that a request    *)
(* has changed, also if it was refused half-way.                           *)
THEOREM NothingUnsaved == ASSUME ModbusAssumption PROVE Spec => ChangesAreSaved
<1>1. IInv /\ [Next]_vars => [para' # para => Saves]_vars
  BY NextStep
<1>2. QED
  BY <1>1, Invariance, PTL DEF Spec, ChangesAreSaved, Saves
================================================================================
