-------------------------- MODULE ConversionsProofs --------------------------
(***************************************************************************)
(* Proofs about the operators of Protocol, MouseTypes and Conversions: a   *)
(* setting of any kind comes back from its bytes, a configuration from its *)
(* message, a message from the profile it was stored as.  Nothing here     *)
(* refers to a state; CodecsProofs and MouseSettingsProofs build on it.    *)
(*                                                                         *)
(* What a recursive function computes is shown with an induction over a    *)
(* set of numbers (Induction).                                             *)
(***************************************************************************)
EXTENDS Conversions, FiniteSetTheorems, TLAPS

-----------------------------------------------------------------------------
(* Induction: a set of numbers with zero and every successor has them all.  If k were     *)
(* missing, the successor would map its members below k into those but zero: fewer.       *)

LEMMA Induction ==
    ASSUME NEW S, 0 \in S, \A n \in Nat : n \in S => n + 1 \in S
    PROVE  Nat \subseteq S
  <1> SUFFICES ASSUME NEW k \in Nat, k \notin S PROVE FALSE  OBVIOUS
  <1> DEFINE A == {n \in 0..k : n \in S}
             f == [n \in A |-> n + 1]
  <1>1. IsFiniteSet(A) /\ Cardinality(A) \in Nat
    <2>1. IsFiniteSet(0..k)
      <3> 0 \in Int /\ k \in Int  OBVIOUS
      <3> QED  BY FS_Interval
    <2>2. A \in SUBSET (0..k)  OBVIOUS
    <2> HIDE DEF A
    <2>3. IsFiniteSet(A)  BY <2>1, <2>2, FS_Subset
    <2> QED  BY <2>3, FS_CardinalityType
  <1>2. 0 \in A  OBVIOUS
  <1>3. \A n \in A : n \in Nat /\ n + 1 \in A \ {0}
    <2> SUFFICES ASSUME NEW n \in A PROVE n \in Nat /\ n + 1 \in A \ {0}  OBVIOUS
    <2>1. n \in 0..k /\ n \in S /\ n # k  OBVIOUS
    <2> QED  BY <2>1
  <1> HIDE DEF A
  <1>4. f \in [A -> A \ {0}] /\ \A m, n \in A : f[m] = f[n] => m = n
    BY <1>3
  <1>5. IsFiniteSet(A \ {0}) /\ Cardinality(A \ {0}) = Cardinality(A) - 1
    BY <1>1, <1>2, FS_RemoveElement
  <1>6. \E m, n \in A : m # n /\ f[m] = f[n]
    <2>1. Cardinality(A \ {0}) < Cardinality(A)  BY <1>1, <1>5
    <2> HIDE DEF f
    <2> QED  BY <1>1, <1>4, <1>5, <2>1, FS_PigeonHole
  <1> QED  BY <1>4, <1>6

-----------------------------------------------------------------------------
(* Sums. *)

\* The sums of the first n bytes, for n up to N.
AreSums(f, bytes, N) == f = [n \in 0..N |-> IF n = 0 THEN 0 ELSE f[n - 1] + bytes[n]]

\* The partial sums of a sequence exist, up to any length.
LEMMA SumsExist ==
    ASSUME NEW bytes, NEW N \in Nat
    PROVE  \E f : AreSums(f, bytes, N)
  <1> DEFINE S == {n \in Nat : \E f : AreSums(f, bytes, n)}
  <1>1. 0 \in S
    <2>1. AreSums([n \in 0..0 |-> 0], bytes, 0)  BY DEF AreSums
    <2> QED  BY <2>1
  <1>2. ASSUME NEW n \in Nat, n \in S PROVE n + 1 \in S
    <2>1. PICK f : AreSums(f, bytes, n)  BY <1>2
    <2> DEFINE g == [k \in 0..(n + 1) |-> IF k = n + 1 THEN f[n] + bytes[n + 1] ELSE f[k]]
    <2>2. \A k \in 0..n : f[k] = IF k = 0 THEN 0 ELSE f[k - 1] + bytes[k]
      BY <2>1 DEF AreSums
    <2>3. \A k \in 0..(n + 1) : g[k] = IF k = 0 THEN 0 ELSE g[k - 1] + bytes[k]
      <3>1. ASSUME NEW k \in 0..n PROVE g[k] = IF k = 0 THEN 0 ELSE g[k - 1] + bytes[k]
        <4>1. k # n + 1 /\ k \in 0..(n + 1) /\ (k # 0 => k - 1 \in 0..(n + 1) /\ k - 1 # n + 1)
          OBVIOUS
        <4> QED  BY <2>2, <4>1
      <3>2. g[n + 1] = g[(n + 1) - 1] + bytes[n + 1] /\ n + 1 # 0  OBVIOUS
      <3>3. \A k \in 0..(n + 1) : k = n + 1 \/ k \in 0..n  OBVIOUS
      <3> HIDE DEF g
      <3> QED  BY <3>1, <3>2, <3>3
    <2>4. AreSums(g, bytes, n + 1)
      <3>1. g = [k \in 0..(n + 1) |-> g[k]]  OBVIOUS
      <3> HIDE DEF g
      <3> QED  BY <2>3, <3>1 DEF AreSums
    <2> QED  BY <2>4
  <1> HIDE DEF S
  <1>3. Nat \subseteq S  BY <1>1, <1>2, Induction
  <1> QED  BY <1>3 DEF S

\* The total is the last of the partial sums.
LEMMA TotalIs ==
    ASSUME NEW bytes, Len(bytes) \in Nat
    PROVE  \E f : AreSums(f, bytes, Len(bytes)) /\ Total(bytes) = f[Len(bytes)]
  BY SumsExist DEF AreSums, Total

-----------------------------------------------------------------------------
(* Bytes, words, checksums. *)

\* Sequences of length N that agree but for one element.
AgreeBut(a, b, N, i) ==
    \A n \in 1..N : a[n] \in Int /\ b[n] \in Int /\ (n # i => a[n] = b[n])

\* Their sums differ by what the element does.
LEMMA SumsCompared ==
    ASSUME NEW a, NEW b, NEW N \in Nat, NEW f, NEW g, AreSums(f, a, N), AreSums(g, b, N),
           NEW i \in 1..N, AgreeBut(a, b, N, i)
    PROVE  f[N] \in Int /\ g[N] \in Int /\ g[N] - f[N] = b[i] - a[i]
  <1> DEFINE P(n) == /\ f[n] \in Int /\ g[n] \in Int
                     /\ g[n] - f[n] = IF n < i THEN 0 ELSE b[i] - a[i]
             S == {n \in Nat : n <= N => P(n)}
  <1>1. \A n \in 0..N : /\ f[n] = IF n = 0 THEN 0 ELSE f[n - 1] + a[n]
                        /\ g[n] = IF n = 0 THEN 0 ELSE g[n - 1] + b[n]
    BY DEF AreSums
  <1>0. \A n \in 1..N : a[n] \in Int /\ b[n] \in Int /\ (n # i => a[n] = b[n])
    BY DEF AgreeBut
  <1>2. P(0)
    <2>1. f[0] = 0 /\ g[0] = 0  BY <1>1
    <2> QED  BY <2>1
  <1>3. ASSUME NEW n \in Nat, n + 1 <= N, P(n) PROVE P(n + 1)
    <2>1. n + 1 \in 0..N /\ n + 1 \in 1..N /\ n + 1 # 0 /\ (n + 1) - 1 = n  BY <1>3
    <2>2. f[n + 1] = f[n] + a[n + 1] /\ g[n + 1] = g[n] + b[n + 1]  BY <1>1, <2>1
    <2>3. a[n + 1] \in Int /\ b[n + 1] \in Int /\ (n + 1 # i => a[n + 1] = b[n + 1])
      BY <1>0, <2>1
    <2>4. f[n] \in Int /\ g[n] \in Int /\ g[n] - f[n] = IF n < i THEN 0 ELSE b[i] - a[i]
      BY <1>3
    <2>5. a[i] \in Int /\ b[i] \in Int  BY <1>0
    <2> QED  BY <2>1, <2>2, <2>3, <2>4, <2>5
  <1> HIDE DEF P
  <1>4. 0 \in S /\ \A n \in Nat : n \in S => n + 1 \in S  BY <1>2, <1>3
  <1> HIDE DEF S
  <1>5. Nat \subseteq S  BY <1>4, Induction
  <1>6. P(N)  BY <1>5 DEF S
  <1> QED  BY <1>6 DEF P

\* Bytes and words by their bounds.
LEMMA ByteIs ==
    \A x : x \in Byte <=> x \in Int /\ 0 <= x /\ x <= 255
  BY DEF Byte

LEMMA WordIs ==
    \A x : x \in Word <=> x \in Int /\ 0 <= x /\ x < 65536
  <1> DEFINE m == 65535
  <1>1. m \in Int /\ m + 1 = 65536  OBVIOUS
  <1>2. Word = 0..m  BY DEF Word
  <1> HIDE DEF m
  <1> QED  BY <1>1, <1>2

\* A word and its two halves.
LEMMA WordSplit ==
    ASSUME NEW w \in Word
    PROVE  /\ 256 * (w \div 256) + (w % 256) = w
           /\ (w % 256) + 256 * (w \div 256) = w
           /\ w \div 256 \in Byte /\ w % 256 \in Byte
  <1> DEFINE high == w \div 256  low == w % 256
  <1>1. w \in Int /\ 0 <= w /\ w < 65536  BY WordIs
  <1>2. low + 256 * high = w  BY <1>1
  <1>3. /\ high \in Int /\ 0 <= high /\ high <= 255
        /\ low \in Int /\ 0 <= low /\ low <= 255
    BY <1>1
  <1> HIDE DEF high, low
  <1>4. 256 * high + low = w  BY <1>1, <1>2, <1>3
  <1>5. high \in Byte /\ low \in Byte  BY <1>3, ByteIs
  <1> QED  BY <1>2, <1>4, <1>5 DEF high, low

\* Sequences that agree but for element i have totals that differ by what it differs.
LEMMA TotalsCompared ==
    ASSUME NEW a, NEW b, NEW N \in Nat, Len(a) = N, Len(b) = N, NEW i \in 1..N,
           AgreeBut(a, b, N, i)
    PROVE  Total(a) \in Int /\ Total(b) \in Int /\ Total(b) - Total(a) = b[i] - a[i]
  <1>1. PICK f : AreSums(f, a, N) /\ Total(a) = f[N]  BY TotalIs
  <1>2. PICK g : AreSums(g, b, N) /\ Total(b) = g[N]  BY TotalIs
  <1>3. AreSums(f, a, N) /\ AreSums(g, b, N)  BY <1>1, <1>2
  <1>5. f[N] \in Int /\ g[N] \in Int /\ g[N] - f[N] = b[i] - a[i]
    <2>1. N \in Nat /\ i \in 1..N  OBVIOUS
    <2> HIDE DEF AreSums
    <2> QED  BY <2>1, <1>3, SumsCompared
  <1> QED  BY <1>1, <1>2, <1>5

\* A checksum is a byte.
LEMMA ComplementIsByte ==
    ASSUME NEW a, NEW N \in Nat \ {0}, Len(a) = N, \A n \in 1..N : a[n] \in Int
    PROVE  Complement(a) \in Byte
  <1>1. Total(a) \in Int
    <2> 1 \in 1..N  OBVIOUS
    <2> AgreeBut(a, a, N, 1)  BY DEF AgreeBut
    <2> QED  BY TotalsCompared
  <1> DEFINE t == 85 - Total(a)
  <1>2. t \in Int  BY <1>1
  <1> HIDE DEF t
  <1>3. t % 256 \in 0..255  BY <1>2
  <1> QED  BY <1>3 DEF Complement, Byte, t

\* Equal bytes have equal checksums.
LEMMA ComplementsAgree ==
    ASSUME NEW a, NEW b, NEW N \in Nat \ {0}, Len(a) = N, Len(b) = N,
           \A n \in 1..N : a[n] \in Byte /\ b[n] = a[n]
    PROVE  Complement(a) = Complement(b)
  <1>1. 1 \in 1..N  OBVIOUS
  <1>2. AgreeBut(a, b, N, 1)  BY ByteIs DEF AgreeBut
  <1>3. Total(a) \in Int /\ Total(b) \in Int /\ Total(b) - Total(a) = b[1] - a[1]
    BY <1>1, <1>2, TotalsCompared
  <1>4. a[1] \in Int /\ b[1] = a[1]  BY <1>1, ByteIs
  <1>5. Total(a) = Total(b)  BY <1>3, <1>4
  <1> QED  BY <1>5 DEF Complement

-----------------------------------------------------------------------------
(* Sequences. *)

\* Elements, concatenations and parts of sequences.
LEMMA ElementsOf ==
    ASSUME NEW X, NEW s \in Seq(X)
    PROVE  Len(s) \in Nat /\ DOMAIN s = 1..Len(s) /\ \A i \in 1..Len(s) : s[i] \in X
  OBVIOUS

LEMMA Concatenated ==
    ASSUME NEW X, NEW s \in Seq(X), NEW t \in Seq(X)
    PROVE  /\ s \o t \in Seq(X) /\ Len(s \o t) = Len(s) + Len(t)
           /\ \A i \in 1..Len(s) : (s \o t)[i] = s[i]
           /\ \A i \in 1..Len(t) : (s \o t)[Len(s) + i] = t[i]
  OBVIOUS

LEMMA Appended ==
    ASSUME NEW X, NEW s \in Seq(X), NEW x \in X
    PROVE  /\ Append(s, x) \in Seq(X) /\ Len(Append(s, x)) = Len(s) + 1
           /\ \A i \in 1..Len(s) : Append(s, x)[i] = s[i]
           /\ Append(s, x)[Len(s) + 1] = x
  OBVIOUS

LEMMA Prefix ==
    ASSUME NEW X, NEW s \in Seq(X), NEW n \in 0..Len(s)
    PROVE  /\ SubSeq(s, 1, n) \in Seq(X) /\ Len(SubSeq(s, 1, n)) = n
           /\ \A i \in 1..n : SubSeq(s, 1, n)[i] = s[i]
  OBVIOUS

LEMMA Slice ==
    ASSUME NEW X, NEW s \in Seq(X), NEW m \in Nat, NEW n \in Nat, m + n <= Len(s),
           NEW first, NEW last, first = m + 1, last = m + n
    PROVE  /\ SubSeq(s, first, last) \in Seq(X) /\ Len(SubSeq(s, first, last)) = n
           /\ \A i \in 1..n : SubSeq(s, first, last)[i] = s[m + i]
  OBVIOUS

LEMMA SameSequence ==
    ASSUME NEW X, NEW s \in Seq(X), NEW t \in Seq(X), Len(s) = Len(t),
           \A i \in 1..Len(s) : s[i] = t[i]
    PROVE  s = t
  OBVIOUS

\* Bytes filled up with zeros.
LEMMA FilledIs ==
    ASSUME NEW data \in Seq(Byte), NEW size \in Nat, Len(data) <= size
    PROVE  /\ Filled(data, size) \in Seq(Byte) /\ Len(Filled(data, size)) = size
           /\ \A i \in 1..Len(data) : Filled(data, size)[i] = data[i]
           /\ \A i \in (Len(data) + 1)..size : Filled(data, size)[i] = 0
  <1> DEFINE zeros == [i \in 1..size - Len(data) |-> 0]
  <1>1. 0 \in Byte  BY DEF Byte
  <1>2. zeros \in Seq(Byte) /\ Len(zeros) = size - Len(data)
    <2>1. size - Len(data) \in Nat  OBVIOUS
    <2> QED  BY <1>1, <2>1
  <1>3. \A i \in 1..size - Len(data) : zeros[i] = 0  OBVIOUS
  <1>4. Filled(data, size) = data \o zeros  BY DEF Filled
  <1> HIDE DEF zeros
  <1>5. data \o zeros \in Seq(Byte) /\ Len(data \o zeros) = size  BY <1>2
  <1>6. \A i \in 1..Len(data) : (data \o zeros)[i] = data[i]  BY <1>2
  <1>7. \A i \in (Len(data) + 1)..size : (data \o zeros)[i] = zeros[i - Len(data)]  BY <1>2
  <1> QED  BY <1>3, <1>4, <1>5, <1>6, <1>7

\* What is where in a report of the device.
-----------------------------------------------------------------------------
(* Settings of one value. *)

\* A DPI value is rounded down to a step.
LEMMA DpiReadsBack ==
    ASSUME NEW v \in DPI_MIN..DPI_MAX
    PROVE  decode_dpi(encode_dpi(v)) = v - (v % DPI_STEP)
  <1> DEFINE steps == v \div DPI_STEP
             code == steps - 1
             high == (code \div 256) % 4
             third == 4 * high + 64 * high
             bytes == <<code % 256, code % 256, third>>
  <1>1. v \in Int /\ 50 <= v /\ v <= 26000
    <2>1. DPI_MIN \in Int /\ DPI_MAX \in Int /\ DPI_MIN = 50 /\ DPI_MAX = 26000
      BY DEF DPI_MIN, DPI_MAX
    <2> QED  BY <2>1
  <1>2. steps \in Int /\ 1 <= steps /\ steps <= 520 /\ 50 * steps = v - (v % DPI_STEP)
    BY <1>1 DEF DPI_STEP
  <1>3. encode_dpi(v) = Append(bytes, Complement(bytes))  BY <1>2 DEF encode_dpi
  <1> HIDE DEF steps
  <1>4. code \in Int /\ 0 <= code /\ code <= 519 /\ code + 1 = steps  BY <1>2
  <1> HIDE DEF code
  <1>5. high \in Int /\ 0 <= high /\ high <= 2 /\ 256 * high + (code % 256) = code  BY <1>4
  <1> HIDE DEF high
  <1>6. (third \div 4) % 4 = high  BY <1>5
  <1> HIDE DEF third
  <1>7. encode_dpi(v)[1] = code % 256 /\ encode_dpi(v)[3] = third  BY <1>3
  <1>8. decode_dpi(encode_dpi(v)) = ((code % 256) + 256 * high + 1) * 50
    BY <1>6, <1>7 DEF decode_dpi, DPI_STEP
  <1>9. ((code % 256) + 256 * high + 1) * 50 = 50 * steps
    <2>1. code % 256 \in Int  BY <1>4
    <2> QED  BY <1>4, <1>5, <2>1
  <1> QED  BY <1>2, <1>8, <1>9

\* A color comes back without its checksum.
LEMMA ColorReadsBack ==
    ASSUME NEW color \in Color
    PROVE  SubSeq(encode_dpi_color(color), 1, 3) = color
  <1>1. PICK x \in Byte, y \in Byte, z \in Byte : color = <<x, y, z>>  BY DEF Color
  <1> DEFINE c == Complement(color)
             whole == Append(color, c)
             n == 3
             part == SubSeq(whole, 1, n)
  <1>2. color \in Seq(Byte) /\ Len(color) = n  BY <1>1
  <1>3. \A k \in 1..n : color[k] \in Int  BY <1>1, ByteIs
  <1>4. encode_dpi_color(color) = whole  BY DEF encode_dpi_color
  <1>5. n \in Nat \ {0} /\ SubSeq(whole, 1, 3) = part  OBVIOUS
  <1> HIDE DEF n
  <1>6. c \in Byte  BY <1>2, <1>3, <1>5, ComplementIsByte
  <1> HIDE DEF c
  <1>7. /\ whole \in Seq(Byte) /\ Len(whole) = Len(color) + 1
        /\ \A i \in 1..Len(color) : whole[i] = color[i]
    BY <1>2, <1>6, Appended
  <1> HIDE DEF whole
  <1>8. part \in Seq(Byte) /\ Len(part) = n /\ \A i \in 1..n : part[i] = whole[i]
    <2>1. n \in 0..Len(whole)  BY <1>2, <1>5, <1>7
    <2> QED  BY <1>7, <2>1, Prefix
  <1> HIDE DEF part
  <1>9. part = color
    <2>1. \A i \in 1..Len(part) : part[i] = color[i]  BY <1>2, <1>7, <1>8
    <2> QED  BY <1>2, <1>8, <2>1, SameSequence
  <1> QED  BY <1>4, <1>5, <1>9

\* A rate has two codes, and comes back from either.
LEMMA RateReadsBack ==
    ASSUME NEW hz \in PollingRate
    PROVE  /\ decode_report_rate(PollingRateCode[hz]) = hz
           /\ FromCode(PollingRateCode, encode_report_rate(hz)) = hz
  <1>1. PollingRate = {125, 250, 500, 1000, 2000, 4000, 8000}  BY DEF PollingRate, PollingRateCode
  <1>2. /\ PollingRateCode[125] = 8 /\ PollingRateCode[250] = 4 /\ PollingRateCode[500] = 2
        /\ PollingRateCode[1000] = 1 /\ PollingRateCode[2000] = 16
        /\ PollingRateCode[4000] = 32 /\ PollingRateCode[8000] = 64
    BY DEF PollingRateCode
  <1>3. decode_report_rate(PollingRateCode[hz]) = hz  BY <1>1, <1>2 DEF decode_report_rate
  <1>4. encode_report_rate(hz) = PollingRateCode[hz]  BY <1>1, <1>2 DEF encode_report_rate
  <1>5. \A v \in PollingRate : PollingRateCode[v] = PollingRateCode[hz] => v = hz
    BY <1>1, <1>2
  <1>6. DOMAIN PollingRateCode = PollingRate  BY DEF PollingRate
  <1> QED  BY <1>3, <1>4, <1>5, <1>6 DEF FromCode

\* A lift-off distance comes back from its code, and from the next one.
LEMMA LiftOffReadsBack ==
    ASSUME NEW d \in LiftOffDistance
    PROVE  /\ FromCode(LiftOffCode, LiftOffCode[d]) = d
           /\ PrevLiftOff[NextLiftOff[d]] = d
  <1>1. LiftOffDistance = {7, 10, 20}  BY DEF LiftOffDistance, LiftOffCode
  <1>2. LiftOffCode[7] = 3 /\ LiftOffCode[10] = 1 /\ LiftOffCode[20] = 2  BY DEF LiftOffCode
  <1>3. \A v \in LiftOffDistance : LiftOffCode[v] = LiftOffCode[d] => v = d  BY <1>1, <1>2
  <1>4. DOMAIN LiftOffCode = LiftOffDistance  BY DEF LiftOffDistance
  <1>5. PrevLiftOff[NextLiftOff[d]] = d  BY <1>1 DEF PrevLiftOff, NextLiftOff
  <1> QED  BY <1>3, <1>4, <1>5 DEF FromCode

\* A sleep time comes back from its code.
LEMMA SleepTimeReadsBack ==
    ASSUME NEW t \in SleepTime
    PROVE  FromCode(SleepTimeCode, SleepTimeCode[t]) = t
  <1>1. SleepTime = {10, 30, 60, 300, 600, 1800}  BY DEF SleepTime, SleepTimeCode
  <1>2. \A v \in SleepTime : SleepTimeCode[v] = v \div 10  BY DEF SleepTime, SleepTimeCode
  <1>3. \A v \in SleepTime : SleepTimeCode[v] = SleepTimeCode[t] => v = t  BY <1>1, <1>2
  <1>4. DOMAIN SleepTimeCode = SleepTime  BY DEF SleepTime
  <1> QED  BY <1>3, <1>4 DEF FromCode

\* After the next rate and the one before it: the same rate, at the ends of the list too.
LEMMA PrevOfNextRate ==
    ASSUME NEW hz \in PollingRate
    PROVE  PrevRate(NextRate(hz)) = hz
  <1> DEFINE at(r) == CHOOSE i \in 1..7 : RatesAscending[i] = r
             Places == {1, 2, 3, 4, 5, 6, 7}
  <1>1. PollingRate = {125, 250, 500, 1000, 2000, 4000, 8000}  BY DEF PollingRate, PollingRateCode
  <1>2. 1..7 = Places  OBVIOUS
  <1>3. \A i, j \in Places : RatesAscending[i] = RatesAscending[j] => i = j
    BY DEF RatesAscending
  <1>4. \A r \in PollingRate : \E i \in Places : RatesAscending[i] = r
    BY <1>1 DEF RatesAscending
  <1>5. \A i \in Places : at(RatesAscending[i]) = i  BY <1>2, <1>3
  <1>6. PICK i \in Places : RatesAscending[i] = hz  BY <1>4
  <1> DEFINE next == (i % 7) + 1
  <1>7. next \in Places /\ ((next + 5) % 7) + 1 = i  OBVIOUS
  <1>8. NextRate(hz) = RatesAscending[next]  BY <1>5, <1>6 DEF NextRate
  <1>9. at(RatesAscending[next]) = next  BY <1>5, <1>7
  <1>10. PrevRate(RatesAscending[next]) = RatesAscending[((next + 5) % 7) + 1]
    BY <1>9 DEF PrevRate
  <1> QED  BY <1>6, <1>7, <1>8, <1>10

\* A level comes back from its brightness, and a level there is not as the nearest one.
LEMMA BrightnessReadsBack ==
    ASSUME NEW level \in Byte
    PROVE  decode_brightness(encode_brightness(level)) = Clamp(level, 1, 10)
  <1> DEFINE l == Clamp(level, 1, 10)
             Levels == {1, 2, 3, 4, 5, 6, 7, 8, 9, 10}
  <1>1. level \in Int /\ 0 <= level  BY ByteIs
  <1>2. /\ l \in Int /\ 1 <= l /\ l <= 10
        /\ l = IF level = 0 THEN 1 ELSE IF level > 10 THEN 10 ELSE level
    BY <1>1 DEF Clamp, MinOf
  <1>3. encode_brightness(level) = BRIGHTNESS_TABLE[l]  BY <1>2 DEF encode_brightness
  <1> HIDE DEF l
  <1>4. 1..10 = Levels  OBVIOUS
  <1>5. l \in Levels  BY <1>2
  <1>6. \A i \in Levels : i \in Int /\ BRIGHTNESS_TABLE[i] \in Nat  BY DEF BRIGHTNESS_TABLE
  <1>7. \A i, j \in Levels : i < j => BRIGHTNESS_TABLE[i] < BRIGHTNESS_TABLE[j]
    BY DEF BRIGHTNESS_TABLE
  <1> HIDE DEF Levels
  <1> DEFINE first(k) == /\ BRIGHTNESS_TABLE[l] <= BRIGHTNESS_TABLE[k]
                         /\ \A j \in 1..k - 1 : BRIGHTNESS_TABLE[j] < BRIGHTNESS_TABLE[l]
  <1>8. first(l)
    <2>1. \A j \in 1..l - 1 : j \in Levels /\ j < l  BY <1>2, <1>4
    <2> QED  BY <1>5, <1>6, <1>7, <2>1
  <1>9. ASSUME NEW k \in Levels, first(k) PROVE k = l
    <2>1. k \in Int /\ l \in Int /\ 1 <= l  BY <1>2, <1>6
    <2>2. ~(k < l)  BY <1>5, <1>6, <1>7, <1>9
    <2>3. l < k => l \in 1..k - 1  BY <2>1
    <2>4. ~(l < k)  BY <1>5, <1>6, <1>9, <2>3
    <2> QED  BY <2>1, <2>2, <2>4
  <1>10. l \in 1..10  BY <1>2
  <1>11. decode_brightness(BRIGHTNESS_TABLE[l]) = CHOOSE k \in 1..10 : first(k)
    BY DEF decode_brightness
  <1> HIDE DEF first
  <1>12. (CHOOSE k \in 1..10 : first(k)) = l  BY <1>4, <1>8, <1>9, <1>10
  <1> QED  BY <1>3, <1>11, <1>12 DEF l

\* A count of cycles is cut to its limits once and for all.
LEMMA CyclesReadBack ==
    ASSUME NEW v \in Byte
    PROVE  CycleByte(CycleByte(v)) = IF v \in {0, 251, 252} THEN Clamp(v, 1, 250) ELSE v
  <1>1. v \in Int /\ 0 <= v /\ v <= 255  BY ByteIs
  <1>2. \A n \in Int : n \in 253..255 <=> 253 <= n /\ n <= 255  OBVIOUS
  <1> DEFINE in(n) == 253 <= n /\ n <= 255
  <1>3. \A n \in Int : CycleByte(n) = IF in(n) THEN n ELSE IF n < 1 THEN 1
                                       ELSE IF n < 250 THEN n ELSE 250
    BY <1>2 DEF CycleByte, Clamp, MinOf
  <1>4. CycleByte(v) \in Int  BY <1>1, <1>3
  <1> QED  BY <1>1, <1>3, <1>4 DEF Clamp, MinOf

-----------------------------------------------------------------------------
(* Events. *)

\* An event of a shortcut, down or up.
LEMMA ShortcutEventReadsBack ==
    ASSUME NEW e \in ShortcutEvent
    PROVE  DecodeShortcutEvent(EncodeShortcutEvent(e)) = e
  <1> DEFINE down == IF e.key_down THEN 128 ELSE 64
             first == e.key_type + down
             low == e.key_code % 256
             high == e.key_code \div 256
  <1>1. e.key_down \in BOOLEAN /\ e.key_type \in ShortcutKeyType /\ e.key_code \in Word
    BY DEF ShortcutEvent
  <1>2. e = [key_down |-> e.key_down, key_type |-> e.key_type, key_code |-> e.key_code]
    BY DEF ShortcutEvent
  <1>3. e.key_type \in Int /\ 0 <= e.key_type /\ e.key_type <= 2  BY <1>1 DEF ShortcutKeyType
  <1>4. first % 16 = e.key_type /\ (first >= 128 <=> e.key_down)  BY <1>1, <1>3
  <1>5. low + 256 * high = e.key_code  BY <1>1, WordIs
  <1>6. EncodeShortcutEvent(e) = <<first, low, high>>  BY DEF EncodeShortcutEvent
  <1> HIDE DEF first, low, high
  <1>7. (first >= 128) = e.key_down  BY <1>1, <1>4
  <1>8. DecodeShortcutEvent(<<first, low, high>>) =
          [key_down |-> first >= 128, key_type |-> first % 16, key_code |-> low + 256 * high]
    BY <1>1, <1>4 DEF DecodeShortcutEvent
  <1> QED  BY <1>2, <1>4, <1>5, <1>6, <1>7, <1>8

\* An event of a macro, with its delay.
LEMMA MacroEventReadsBack ==
    ASSUME NEW e \in MacroEvent
    PROVE  DecodeMacroEvent(EncodeMacroEvent(e)) = e
  <1> DEFINE down == IF e.key_down THEN 64 ELSE 128
             first == e.key_type + down
             low == e.key_code % 256
             high == e.key_code \div 256
             above == e.delay_ms \div 256
             below == e.delay_ms % 256
  <1>1. /\ e.key_down \in BOOLEAN /\ e.key_type \in MacroEventKeyType
        /\ e.key_code \in Word /\ e.delay_ms \in Word
    BY DEF MacroEvent
  <1>2. e = [key_down |-> e.key_down, key_type |-> e.key_type, key_code |-> e.key_code,
             delay_ms |-> e.delay_ms]
    BY DEF MacroEvent
  <1>3. e.key_type \in Int /\ 1 <= e.key_type /\ e.key_type <= 4
    BY <1>1 DEF MacroEventKeyType
  <1>4. first % 16 = e.key_type /\ (first \div 64 = 1 <=> e.key_down)  BY <1>1, <1>3
  <1>5. low + 256 * high = e.key_code /\ 256 * above + below = e.delay_ms  BY <1>1, WordIs
  <1>6. EncodeMacroEvent(e) = <<first, low, high, above, below>>  BY DEF EncodeMacroEvent
  <1> HIDE DEF first, low, high, above, below
  <1>7. (first \div 64 = 1) = e.key_down  BY <1>1, <1>4
  <1>8. DecodeMacroEvent(<<first, low, high, above, below>>) =
          [key_down |-> first \div 64 = 1, key_type |-> first % 16,
           key_code |-> low + 256 * high, delay_ms |-> 256 * above + below]
    BY <1>1, <1>4 DEF DecodeMacroEvent
  <1> QED  BY <1>2, <1>4, <1>5, <1>6, <1>7, <1>8

-----------------------------------------------------------------------------
(* Configurations and profiles. *)

\* The numbers of rates and distances in a message, and the distances of a profile.
LEMMA RatesAndDistances ==
    /\ \A hz \in PollingRate : RateToProto(hz) \in 1..7 /\ RateFromProto(RateToProto(hz)) = hz
    /\ \A n \in 1..7 : /\ RateFromProto(n) \in PollingRate
                       /\ hz_to_proto_polling_rate(RateFromProto(n)) = n
    /\ \A d \in LiftOffDistance : LodToProto(d) \in 1..3 /\ LodFromProto(LodToProto(d)) = d
    /\ \A n \in 1..3 : /\ LodFromProto(n) \in LiftOffDistance
                       /\ NearestLod(10 * LodFromProto(n)) = LodFromProto(n)
                       /\ mm_to_proto_lod(10 * LodFromProto(n)) = n
  <1> DEFINE Seven == {1, 2, 3, 4, 5, 6, 7}  Three == {1, 2, 3}
  <1>1. PollingRate = {125, 250, 500, 1000, 2000, 4000, 8000}  BY DEF PollingRate, PollingRateCode
  <1>2. LiftOffDistance = {7, 10, 20}  BY DEF LiftOffDistance, LiftOffCode
  <1>3. 1..7 = Seven /\ 1..3 = Three  OBVIOUS
  <1>4. /\ \A i \in Seven : RatesAscending[i] \in PollingRate
        /\ \A i, j \in Seven : RatesAscending[i] = RatesAscending[j] => i = j
        /\ \A hz \in PollingRate : \E i \in Seven : RatesAscending[i] = hz
    BY <1>1 DEF RatesAscending
  <1>5. /\ \A i \in Three : LodAscending[i] \in LiftOffDistance
        /\ \A i, j \in Three : LodAscending[i] = LodAscending[j] => i = j
        /\ \A d \in LiftOffDistance : \E i \in Three : LodAscending[i] = d
    BY <1>2 DEF LodAscending
  <1>6. \A d \in LiftOffDistance : NearestLod(10 * d) = d
    <2> SUFFICES ASSUME NEW d \in LiftOffDistance PROVE NearestLod(10 * d) = d  OBVIOUS
    <2>1. \A x \in LiftOffDistance : 10 * x = 10 * d => x = d  BY <1>2
    <2>2. FromMm100(10 * d) = d  BY <2>1 DEF FromMm100
    <2>3. d # Invalid  BY <1>2, InvalidAssumption
    <2> QED  BY <2>2, <2>3 DEF NearestLod
  <1> HIDE DEF Seven, Three
  <1>7. /\ \A hz \in PollingRate : RateToProto(hz) \in Seven /\ RatesAscending[RateToProto(hz)] = hz
        /\ \A d \in LiftOffDistance : LodToProto(d) \in Three /\ LodAscending[LodToProto(d)] = d
    BY <1>3, <1>4, <1>5 DEF RateToProto, LodToProto
  <1>8. /\ \A n \in Seven : RateFromProto(n) = RatesAscending[n]
        /\ \A n \in Three : LodFromProto(n) = LodAscending[n]
    BY <1>3 DEF RateFromProto, LodFromProto
  <1>9. \A n \in Seven : hz_to_proto_polling_rate(RatesAscending[n]) = n
    BY <1>4, <1>7 DEF hz_to_proto_polling_rate
  <1>10. \A n \in Three : mm_to_proto_lod(10 * LodAscending[n]) = n
    BY <1>5, <1>6, <1>7 DEF mm_to_proto_lod
  <1>11. \A n \in Seven : RateFromProto(n) \in PollingRate
                          /\ hz_to_proto_polling_rate(RateFromProto(n)) = n
    BY <1>4, <1>8, <1>9
  <1>12. \A n \in Three : /\ LodFromProto(n) \in LiftOffDistance
                          /\ NearestLod(10 * LodFromProto(n)) = LodFromProto(n)
                          /\ mm_to_proto_lod(10 * LodFromProto(n)) = n
    BY <1>5, <1>6, <1>8, <1>10
  <1>13. \A hz \in PollingRate : RateToProto(hz) \in Seven /\ RateFromProto(RateToProto(hz)) = hz
    BY <1>7, <1>8
  <1>14. \A d \in LiftOffDistance : LodToProto(d) \in Three /\ LodFromProto(LodToProto(d)) = d
    BY <1>7, <1>8
  <1> QED  BY <1>3, <1>11, <1>12, <1>13, <1>14

\* What is no rejection.
LEMMA SettingsAreValid ==
    /\ \A r \in PollingRate \cup LiftOffDistance \cup Nat : r # Invalid
    /\ \A b \in Byte : TryU8(b) = b
    /\ \A n \in Word : TryU16(n) = n /\ AsU16(n) = n
  <1>1. PollingRate \subseteq Nat  BY DEF PollingRate, PollingRateCode
  <1>2. LiftOffDistance \subseteq Nat  BY DEF LiftOffDistance, LiftOffCode
  <1>3. \A r \in PollingRate \cup LiftOffDistance \cup Nat : r # Invalid
    BY <1>1, <1>2, InvalidAssumption
  <1>4. \A b \in Byte : TryU8(b) = b  BY ByteIs DEF TryU8
  <1>5. \A n \in Word : TryU16(n) = n /\ AsU16(n) = n  BY WordIs DEF TryU16, AsU16
  <1> QED  BY <1>3, <1>4, <1>5

\* A list of DPI stages passes a message as it is.
LEMMA StagesReadBack ==
    ASSUME NEW stages \in Seq(DpiStage)
    PROVE  /\ StagesFromProto(stages) = stages /\ stages # Invalid
           /\ [i \in DOMAIN stages |-> StageToProto(stages[i])] = stages
  <1>1. \A i \in DOMAIN stages : stages[i] \in DpiStage  OBVIOUS
  <1>2. \A stage \in DpiStage : StageFromProto(stage) = stage /\ stage # Invalid
    <2> SUFFICES ASSUME NEW stage \in DpiStage
                 PROVE  StageFromProto(stage) = stage /\ stage # Invalid
      OBVIOUS
    <2>1. stage.value \in Word /\ stage.color \in Color  BY DEF DpiStage
    <2>2. PICK x \in Byte, y \in Byte, z \in Byte : stage.color = <<x, y, z>>
      BY <2>1 DEF Color
    <2>3. \A i \in 1..3 : stage.color[i] \in Byte  BY <2>2
    <2>4. TryU16(stage.value) # Invalid
      <3>1. stage.value \in Nat  BY <2>1, WordIs
      <3> QED  BY <2>1, <3>1, SettingsAreValid
    <2>5. \A i \in 1..3 : TryU8(stage.color[i]) # Invalid
      <3>1. \A b \in Byte : b \in Nat  BY ByteIs
      <3>2. \A b \in Byte : TryU8(b) # Invalid  BY <3>1, SettingsAreValid
      <3> QED  BY <2>3, <3>2
    <2>6. stage # Invalid  BY InvalidAssumption
    <2> QED  BY <2>4, <2>5, <2>6 DEF StageFromProto
  <1>3. \A i \in DOMAIN stages : StageFromProto(stages[i]) = stages[i] /\ stages[i] # Invalid
    BY <1>1, <1>2
  <1>4. stages = [i \in DOMAIN stages |-> stages[i]]  OBVIOUS
  <1>5. StagesFromProto(stages) = stages  BY <1>3, <1>4 DEF StagesFromProto
  <1>6. stages # Invalid  BY InvalidAssumption
  <1>7. [i \in DOMAIN stages |-> StageToProto(stages[i])] = stages  BY <1>4 DEF StageToProto
  <1> QED  BY <1>5, <1>6, <1>7

\* A message that the daemon accepts.
Message ==
    [polling_rate : 1..7, lift_off_distance : 1..3, sleep_timeout_seconds : Nat,
     switches : [Switches -> BOOLEAN], dpi_stages : Seq(DpiStage), current_dpi_index : Byte]

\* A message comes back from the profile it was stored as, and that profile configures the
\* mouse as the message would have.
LEMMA ProfileReadsBack ==
    ASSUME NEW p \in Message
    PROVE  /\ profile_to_proto(proto_to_profile_config(p))
                = [p EXCEPT !.sleep_timeout_seconds = AsU16(@)]
           /\ profile_config_to_mouse_config(proto_to_profile_config(p)) = ConfigFromProto(p)
  <1> DEFINE rate == p.polling_rate  lod == p.lift_off_distance  stages == p.dpi_stages
             hz == RateFromProto(rate)  mm10 == LodFromProto(lod)
             sleep == AsU16(p.sleep_timeout_seconds)
             profile == [polling_rate_hz |-> hz, lift_off_distance_mm |-> 10 * mm10,
                         sleep_timeout_seconds |-> sleep, switches |-> p.switches,
                         dpi_stages |-> stages, current_dpi_index |-> p.current_dpi_index]
             carried == [polling_rate |-> hz, lift_off_distance |-> mm10,
                         sleep_timeout_seconds |-> sleep, dpi_stages |-> stages,
                         current_dpi_index |-> p.current_dpi_index]
  <1>1. /\ rate \in 1..7 /\ lod \in 1..3 /\ stages \in Seq(DpiStage)
        /\ p.current_dpi_index \in Byte
    BY DEF Message
  <1>2. p = [polling_rate |-> rate, lift_off_distance |-> lod,
             sleep_timeout_seconds |-> p.sleep_timeout_seconds, switches |-> p.switches,
             dpi_stages |-> stages, current_dpi_index |-> p.current_dpi_index]
    BY DEF Message
  <1> HIDE DEF rate, lod, stages
  <1>3. /\ hz \in PollingRate /\ mm10 \in LiftOffDistance
        /\ hz_to_proto_polling_rate(hz) = rate /\ mm_to_proto_lod(10 * mm10) = lod
        /\ NearestLod(10 * mm10) = mm10
    BY <1>1, RatesAndDistances
  <1>4. hz # Invalid /\ mm10 # Invalid  BY <1>3, SettingsAreValid
  <1>5. TryU8(p.current_dpi_index) # Invalid
    <2>1. p.current_dpi_index \in Nat  BY <1>1, ByteIs
    <2> QED  BY <1>1, <2>1, SettingsAreValid
  <1>6. /\ StagesFromProto(stages) = stages /\ stages # Invalid
        /\ [i \in DOMAIN stages |-> StageToProto(stages[i])] = stages
    BY <1>1, StagesReadBack
  <1>7. proto_to_profile_config(p) = profile
    BY <1>4, <1>5, <1>6 DEF proto_to_profile_config, rate, lod, stages
  <1>8. ConfigFromProto(p) = WithDefaults(carried, p.switches)
    BY <1>4, <1>5, <1>6 DEF ConfigFromProto, rate, lod, stages
  <1>9. profile_config_to_mouse_config(profile) = WithDefaults(carried, p.switches)
    BY <1>3 DEF profile_config_to_mouse_config
  <1>10. profile_to_proto(profile) =
           [polling_rate |-> rate, lift_off_distance |-> lod, sleep_timeout_seconds |-> sleep,
            switches |-> p.switches, dpi_stages |-> stages,
            current_dpi_index |-> p.current_dpi_index]
    BY <1>3, <1>6 DEF profile_to_proto
  <1>11. [p EXCEPT !.sleep_timeout_seconds = AsU16(@)] =
           [polling_rate |-> rate, lift_off_distance |-> lod, sleep_timeout_seconds |-> sleep,
            switches |-> p.switches, dpi_stages |-> stages,
            current_dpi_index |-> p.current_dpi_index]
    BY <1>2
  <1> QED  BY <1>7, <1>8, <1>9, <1>10, <1>11

-----------------------------------------------------------------------------
(* Tables of events. *)

\* Of a shortcut, of a macro.
EntrySizes == {3, 5}

\* Entry, and place in it, of a place in a table.
LEMMA PlaceInTable ==
    ASSUME NEW q \in Nat, NEW size \in EntrySizes, NEW r \in Nat, r < size
    PROVE  /\ size * q + r \in Nat
           /\ (size * q + r) \div size = q /\ (size * q + r) % size = r
           /\ \A n \in Nat : q < n => size * q + size <= size * n
  <1>0. size = 3 \/ size = 5  BY DEF EntrySizes
  <1>1. CASE size = 3
    <2>1. (3 * q + r) \div 3 = q /\ (3 * q + r) % 3 = r  BY <1>1
    <2>2. \A n \in Nat : q < n => 3 * q + 3 <= 3 * n  OBVIOUS
    <2> QED  BY <1>1, <2>1, <2>2
  <1>2. CASE size = 5
    <2>1. (5 * q + r) \div 5 = q /\ (5 * q + r) % 5 = r  BY <1>2
    <2>2. \A n \in Nat : q < n => 5 * q + 5 <= 5 * n  OBVIOUS
    <2> QED  BY <1>2, <2>1, <2>2
  <1> QED  BY <1>0, <1>1, <1>2

\* A table with entries of `size` bytes.
IsTable(parts, size) ==
    parts \in Seq(Seq(Byte)) /\ \A k \in 1..Len(parts) : Len(parts[k]) = size

LEMMA PlaceOf ==
    ASSUME NEW n \in Nat, NEW size \in EntrySizes, NEW i \in 1..size * n
    PROVE  /\ (i - 1) \div size \in Nat /\ 1 + (i - 1) \div size \in 1..n
           /\ (i - 1) % size \in Nat /\ 1 + ((i - 1) % size) \in 1..size
  <1>0. size = 3 \/ size = 5  BY DEF EntrySizes
  <1>1. CASE size = 3
    <2>1. i \in Int /\ 1 <= i /\ i <= 3 * n  BY <1>1
    <2>2. /\ (i - 1) \div 3 \in Nat /\ (i - 1) \div 3 < n
          /\ (i - 1) % 3 \in Nat /\ (i - 1) % 3 < 3
      BY <2>1
    <2> QED  BY <1>1, <2>2
  <1>2. CASE size = 5
    <2>1. i \in Int /\ 1 <= i /\ i <= 5 * n  BY <1>2
    <2>2. /\ (i - 1) \div 5 \in Nat /\ (i - 1) \div 5 < n
          /\ (i - 1) % 5 \in Nat /\ (i - 1) % 5 < 5
      BY <2>1
    <2> QED  BY <1>2, <2>2
  <1> QED  BY <1>0, <1>1, <1>2

\* What is where in a table.
LEMMA FlattenedIs ==
    ASSUME NEW size \in EntrySizes, NEW parts, IsTable(parts, size)
    PROVE  /\ Flattened(parts, size) \in Seq(Byte)
           /\ Len(Flattened(parts, size)) = size * Len(parts)
           /\ \A k \in 1..Len(parts), j \in 1..size :
                /\ size * (k - 1) + j \in 1..size * Len(parts)
                /\ Flattened(parts, size)[size * (k - 1) + j] = parts[k][j]
  <1> DEFINE n == Len(parts)  N == size * n
             flat == [i \in 1..N |-> parts[1 + (i - 1) \div size][1 + ((i - 1) % size)]]
  <1>0. size = 3 \/ size = 5  BY DEF EntrySizes
  <1>1. n \in Nat /\ \A k \in 1..n : parts[k] \in Seq(Byte) /\ Len(parts[k]) = size
    BY ElementsOf DEF IsTable
  <1> HIDE DEF n
  <1>2. N \in Nat  BY <1>0, <1>1
  <1>3. Flattened(parts, size) = flat  BY DEF Flattened, n
  <1>4. ASSUME NEW i \in 1..N PROVE flat[i] \in Byte
    <2> DEFINE k == 1 + (i - 1) \div size  j == 1 + ((i - 1) % size)
    <2>1. k \in 1..n /\ j \in 1..size  BY <1>1, PlaceOf
    <2>2. flat[i] = parts[k][j]  OBVIOUS
    <2> HIDE DEF k, j, flat
    <2>3. parts[k] \in Seq(Byte) /\ Len(parts[k]) = size  BY <1>1, <2>1
    <2>4. parts[k][j] \in Byte  BY <2>1, <2>3, ElementsOf
    <2> QED  BY <2>2, <2>4
  <1>5. ASSUME NEW k \in 1..n, NEW j \in 1..size
        PROVE  size * (k - 1) + j \in 1..N /\ flat[size * (k - 1) + j] = parts[k][j]
    <2> DEFINE q == k - 1  r == j - 1  i == size * q + j
    <2>1. q \in Nat /\ q < n /\ r \in Nat /\ r < size /\ size \in Nat /\ j \in Nat /\ j <= size
          /\ 1 <= j /\ 1 + q = k /\ 1 + r = j
      BY <1>0, <1>1
    <2> HIDE DEF q, r
    <2>2. /\ size * q + r \in Nat /\ (size * q + r) \div size = q
          /\ (size * q + r) % size = r /\ size * q + size <= N
      BY <1>1, <2>1, PlaceInTable
    <2> DEFINE p == size * q  top == N
    <2>3. p \in Int /\ top \in Int  BY <1>0, <1>2, <2>1
    <2>4. i \in 1..top /\ i - 1 = p + r
      <3>1. p + size <= top /\ i = p + j  BY <2>2
      <3>2. 0 <= p  BY <1>0, <2>1
      <3> HIDE DEF p, top, i
      <3> QED  BY <2>1, <2>3, <3>1, <3>2
    <2>5. i \in 1..N /\ (i - 1) \div size = q /\ (i - 1) % size = r  BY <2>2, <2>4
    <2> HIDE DEF p, top, i
    <2>6. flat[i] = parts[1 + (i - 1) \div size][1 + ((i - 1) % size)]  BY <2>5
    <2>7. flat[i] = parts[k][j]  BY <2>1, <2>5, <2>6
    <2> QED  BY <2>5, <2>7 DEF i, q
  <1>6. flat \in Seq(Byte) /\ Len(flat) = N
    <2>1. flat = [i \in 1..N |-> flat[i]]  OBVIOUS
    <2> HIDE DEF flat, N
    <2>2. flat \in [1..N -> Byte]  BY <1>4, <2>1
    <2> QED  BY <1>2, <2>2
  <1> HIDE DEF flat
  <1> QED  BY <1>3, <1>5, <1>6 DEF n

\* data has the table at its place.
Holds(data, base, parts, size) ==
    /\ data \in Seq(Byte) /\ base + size * Len(parts) <= Len(data)
    /\ \A i \in 1..size * Len(parts) : data[base + i] = Flattened(parts, size)[i]

\* A table is read entry by entry.
LEMMA EntriesAre ==
    ASSUME NEW size \in EntrySizes, NEW parts, IsTable(parts, size),
           NEW base \in Nat, NEW data, Holds(data, base, parts, size)
    PROVE  Entries(data, base, size, Len(parts)) = parts
  <1> DEFINE n == Len(parts)  N == size * n
             flat == Flattened(parts, size)
             fits == {k \in 0..n - 1 : base + (k + 1) * size <= Len(data)}
             part(k) == SubSeq(data, base + (k - 1) * size + 1, base + k * size)
  <1>0. size = 3 \/ size = 5  BY DEF EntrySizes
  <1>1. /\ n \in Nat /\ parts \in Seq(Seq(Byte))
        /\ \A k \in 1..n : parts[k] \in Seq(Byte) /\ Len(parts[k]) = size
    BY ElementsOf DEF IsTable
  <1>2. data \in Seq(Byte) /\ base + N <= Len(data) /\ Len(data) \in Nat
        /\ \A i \in 1..N : data[base + i] = flat[i]
    BY DEF Holds
  <1>3. \A k \in 1..n, j \in 1..size :
          size * (k - 1) + j \in 1..N /\ flat[size * (k - 1) + j] = parts[k][j]
    BY FlattenedIs
  <1> HIDE DEF n, flat
  <1>4. size \in Nat /\ N \in Nat
    <2>1. n \in Nat  BY <1>1
    <2> QED  BY <1>0, <2>1
  <1>5. ASSUME NEW q \in Nat, q < n
        PROVE  /\ base + (q + 1) * size <= Len(data)
               /\ size * q \in Nat /\ (q + 1) * size = size * q + size
    <2>1. 0 \in Nat /\ 0 < size  BY <1>0
    <2>2. size * q + 0 \in Nat /\ size * q + size <= N  BY <1>1, <1>5, <2>1, PlaceInTable
    <2>3. (q + 1) * size = size * q + size
      <3>1. CASE size = 3  BY <3>1
      <3>2. CASE size = 5  BY <3>2
      <3> QED  BY <1>0, <3>1, <3>2
    <2>4. size * q \in Nat
      <3>1. CASE size = 3  BY <3>1
      <3>2. CASE size = 5  BY <3>2
      <3> QED  BY <1>0, <3>1, <3>2
    <2> DEFINE p == size * q  top == N  step == (q + 1) * size
    <2>5. p \in Nat /\ top \in Nat /\ p + size <= top /\ step = p + size
          /\ base + top <= Len(data)
      BY <1>2, <1>4, <2>2, <2>3, <2>4
    <2> HIDE DEF p, top, step
    <2>6. base + step <= Len(data)  BY <1>2, <1>4, <2>5
    <2> QED  BY <2>3, <2>4, <2>6 DEF step
  <1> HIDE DEF N
  <1>6. fits = 0..n - 1
    <2>1. \A k \in 0..n - 1 : k \in Nat /\ k < n  BY <1>1
    <2> QED  BY <1>5, <2>1
  <1>7. Cardinality(fits) = n
    <2> DEFINE m == n - 1
    <2>1. m \in Int /\ 0 \in Int /\ n = m + 1 /\ -1 <= m  BY <1>1
    <2>2. fits = 0..m  BY <1>6
    <2> HIDE DEF m, fits
    <2>3. Cardinality(0..m) = IF 0 > m THEN 0 ELSE m - 0 + 1  BY <2>1, FS_Interval
    <2> QED  BY <2>1, <2>2, <2>3
  <1>8. ASSUME NEW k \in 1..n PROVE part(k) = parts[k]
    <2> DEFINE q == k - 1  m == base + size * q  first == base + (k - 1) * size + 1
               last == base + k * size  a == SubSeq(data, first, last)
    <2>1. q \in Nat /\ q < n /\ q + 1 = k  BY <1>1
    <2>2. /\ base + (q + 1) * size <= Len(data)
          /\ size * q \in Nat /\ (q + 1) * size = size * q + size
      BY <1>5, <2>1
    <2>3. q * size = size * q
      <3>1. CASE size = 3  BY <3>1
      <3>2. CASE size = 5  BY <3>2
      <3> QED  BY <1>0, <3>1, <3>2
    <2>4. m \in Nat /\ m + size <= Len(data) /\ first = m + 1 /\ last = m + size
      <3> DEFINE p == size * q  r == q * size  t == (q + 1) * size
      <3>1. /\ p \in Nat /\ r = p /\ t = p + size /\ base + t <= Len(data)
            /\ m = base + p /\ first = base + r + 1 /\ last = base + t
        BY <2>1, <2>2, <2>3
      <3> HIDE DEF p, r, t, m, first, last
      <3> QED  BY <1>4, <3>1
    <2>5. \A j \in 1..size : data[m + j] = parts[k][j]
      <3> SUFFICES ASSUME NEW j \in 1..size PROVE data[m + j] = parts[k][j]  OBVIOUS
      <3> DEFINE i == size * (k - 1) + j
      <3>1. i \in 1..N /\ flat[i] = parts[k][j]  BY <1>3
      <3>2. m + j = base + i
        <4> DEFINE p == size * (k - 1)
        <4>1. p \in Nat /\ m = base + p /\ i = p + j  BY <2>2
        <4>2. j \in Int  BY <1>4
        <4> HIDE DEF p, m, i
        <4> QED  BY <4>1, <4>2
      <3> HIDE DEF i, m
      <3> QED  BY <1>2, <3>1, <3>2
    <2> HIDE DEF m, first, last, q
    <2>6. /\ a \in Seq(Byte) /\ Len(a) = size /\ \A j \in 1..size : a[j] = data[m + j]
      BY <1>2, <1>4, <2>4, Slice
    <2> HIDE DEF a
    <2>7. parts[k] \in Seq(Byte) /\ Len(parts[k]) = size  BY <1>1
    <2>8. \A j \in 1..Len(a) : a[j] = parts[k][j]  BY <2>5, <2>6
    <2>9. a = parts[k]  BY <2>6, <2>7, <2>8, SameSequence
    <2>10. part(k) = a  BY DEF a, first, last
    <2> QED  BY <2>9, <2>10
  <1>9. Entries(data, base, size, n) = [k \in 1..Cardinality(fits) |-> part(k)]
    BY DEF Entries
  <1>10. [k \in 1..Cardinality(fits) |-> part(k)] = [k \in 1..n |-> parts[k]]
    <2> HIDE DEF part, fits
    <2> QED  BY <1>7, <1>8
  <1>11. parts = [k \in 1..n |-> parts[k]]
    BY <1>1 DEF n
  <1> QED  BY <1>9, <1>10, <1>11 DEF n

\* What is kept of the first n decoded events.
AreKept(f, decoded, N) ==
    f = [n \in 0..N |-> IF n = 0 THEN << >>
                        ELSE IF decoded[n] = Invalid THEN f[n - 1]
                        ELSE Append(f[n - 1], decoded[n])]

\* A first part with the next element is the next first part.
LEMMA PrefixGrows ==
    ASSUME NEW X, NEW s \in Seq(X), NEW n \in Nat, n + 1 <= Len(s)
    PROVE  SubSeq(s, 1, n + 1) = Append(SubSeq(s, 1, n), s[n + 1])
  <1> DEFINE a == SubSeq(s, 1, n)  b == SubSeq(s, 1, n + 1)  m == n + 1
             c == Append(a, s[m])
  <1>1. m \in 0..Len(s) /\ n \in 0..Len(s) /\ m \in 1..Len(s)  OBVIOUS
  <1>2. a \in Seq(X) /\ Len(a) = n /\ \A i \in 1..n : a[i] = s[i]  BY <1>1, Prefix
  <1>3. b \in Seq(X) /\ Len(b) = m /\ \A i \in 1..m : b[i] = s[i]  BY <1>1, Prefix
  <1>4. s[m] \in X  BY <1>1, ElementsOf
  <1> HIDE DEF a, b
  <1>5. /\ c \in Seq(X) /\ Len(c) = n + 1 /\ \A i \in 1..n : c[i] = a[i]
        /\ c[n + 1] = s[m]
    BY <1>2, <1>4, Appended
  <1> HIDE DEF c
  <1>6. \A i \in 1..m : i \in 1..n \/ i = m  OBVIOUS
  <1>7. \A i \in 1..Len(b) : b[i] = c[i]  BY <1>2, <1>3, <1>5, <1>6
  <1>8. b = c  BY <1>3, <1>5, <1>7, SameSequence
  <1> QED  BY <1>8 DEF a, b, c

\* With nothing rejected, the first n events are kept.
LEMMA KeptIs ==
    ASSUME NEW X, NEW s \in Seq(X), NEW f, AreKept(f, s, Len(s)),
           \A i \in 1..Len(s) : s[i] # Invalid
    PROVE  f[Len(s)] = s
  <1> DEFINE N == Len(s)
             S == {n \in Nat : n <= N => f[n] = SubSeq(s, 1, n)}
  <1>1. N \in Nat /\ N \in 0..N  BY ElementsOf
  <1>2. \A n \in 0..N : f[n] = IF n = 0 THEN << >>
                               ELSE IF s[n] = Invalid THEN f[n - 1] ELSE Append(f[n - 1], s[n])
    BY DEF AreKept
  <1>3. 0 \in S
    <2>1. 0 \in 0..N  BY <1>1
    <2>2. f[0] = << >>  BY <1>2, <2>1
    <2>3. SubSeq(s, 1, 0) = << >>  OBVIOUS
    <2> QED  BY <2>2, <2>3
  <1>4. ASSUME NEW n \in Nat, n \in S PROVE n + 1 \in S
    <2> SUFFICES ASSUME n + 1 <= N PROVE f[n + 1] = SubSeq(s, 1, n + 1)  OBVIOUS
    <2>1. f[n] = SubSeq(s, 1, n)  BY <1>1, <1>4
    <2>2. n + 1 \in 0..N /\ n + 1 # 0 /\ (n + 1) - 1 = n /\ n + 1 \in 1..N  BY <1>1
    <2>3. f[n + 1] = Append(f[n], s[n + 1])  BY <1>2, <2>2
    <2> QED  BY <2>1, <2>3, PrefixGrows
  <1> HIDE DEF S
  <1>5. Nat \subseteq S  BY <1>3, <1>4, Induction
  <1>6. f[N] = SubSeq(s, 1, N)  BY <1>1, <1>5 DEF S
  <1>7. SubSeq(s, 1, N) = s
    <2> DEFINE a == SubSeq(s, 1, N)
    <2>1. a \in Seq(X) /\ Len(a) = N /\ \A i \in 1..N : a[i] = s[i]  BY <1>1, Prefix
    <2> HIDE DEF a
    <2>2. a = s  BY <2>1, SameSequence
    <2> QED  BY <2>2 DEF a
  <1> QED  BY <1>6, <1>7

\* Events none of which is rejected are all kept.
LEMMA AllValid ==
    ASSUME NEW X, NEW s \in Seq(X), \A i \in 1..Len(s) : s[i] # Invalid
    PROVE  ValidOnes(s) = s
  <1> DEFINE N == Len(s)
             g == [n \in 0..N |-> SubSeq(s, 1, n)]
  <1>1. N \in Nat  BY ElementsOf
  <1>2. \A n \in 0..N : g[n] = IF n = 0 THEN << >>
                               ELSE IF s[n] = Invalid THEN g[n - 1] ELSE Append(g[n - 1], s[n])
    <2> SUFFICES ASSUME NEW n \in 0..N
                 PROVE  g[n] = IF n = 0 THEN << >>
                               ELSE IF s[n] = Invalid THEN g[n - 1] ELSE Append(g[n - 1], s[n])
      OBVIOUS
    <2>1. g[n] = SubSeq(s, 1, n)  OBVIOUS
    <2>2. CASE n = 0
      <3>1. SubSeq(s, 1, 0) = << >>  OBVIOUS
      <3> HIDE DEF g
      <3> QED  BY <2>1, <2>2, <3>1
    <2>3. CASE n # 0
      <3> DEFINE m == n - 1
      <3>1. m \in Nat /\ m + 1 = n /\ m + 1 <= N /\ m \in 0..N /\ n \in 1..N  BY <1>1, <2>3
      <3>2. g[n - 1] = SubSeq(s, 1, m)  BY <3>1
      <3> HIDE DEF m, g
      <3>3. SubSeq(s, 1, m + 1) = Append(SubSeq(s, 1, m), s[m + 1])  BY <3>1, PrefixGrows
      <3>4. s[n] # Invalid  BY <3>1
      <3> QED  BY <2>1, <2>3, <3>1, <3>2, <3>3, <3>4
    <2> QED  BY <2>2, <2>3
  <1>3. AreKept(g, s, N)
    <2>1. g = [n \in 0..N |-> g[n]]  OBVIOUS
    <2> HIDE DEF g
    <2> QED  BY <1>2, <2>1 DEF AreKept
  <1> HIDE DEF g
  <1>4. \E f : AreKept(f, s, N) /\ ValidOnes(s) = f[N]  BY <1>3 DEF AreKept, ValidOnes
  <1> QED  BY <1>4, KeptIs

\* A table behind some bytes, and zeros behind it.
LEMMA TableBehind ==
    ASSUME NEW size \in EntrySizes, NEW parts, IsTable(parts, size),
           NEW front \in Seq(Byte), NEW total \in Nat, Len(front) + size * Len(parts) <= total
    PROVE  /\ Holds(Filled(front \o Flattened(parts, size), total), Len(front), parts, size)
           /\ \A i \in 1..Len(front) :
                Filled(front \o Flattened(parts, size), total)[i] = front[i]
  <1> DEFINE N == size * Len(parts)  m == Len(front)
             flat == Flattened(parts, size)
             whole == front \o flat
             data == Filled(whole, total)
  <1>1. flat \in Seq(Byte) /\ Len(flat) = N  BY FlattenedIs
  <1>2. m + N <= total /\ m \in Nat  BY ElementsOf
  <1> HIDE DEF flat, N
  <1>3. N \in Nat
    <2>1. Len(flat) \in Nat  BY <1>1, ElementsOf
    <2> QED  BY <1>1, <2>1
  <1>4. /\ whole \in Seq(Byte) /\ Len(whole) = m + N
        /\ \A i \in 1..m : whole[i] = front[i]
        /\ \A i \in 1..N : whole[m + i] = flat[i]
    <2>1. flat \in Seq(Byte) /\ front \in Seq(Byte)  BY <1>1
    <2>2. /\ whole \in Seq(Byte) /\ Len(whole) = Len(front) + Len(flat)
          /\ \A i \in 1..Len(front) : whole[i] = front[i]
          /\ \A i \in 1..Len(flat) : whole[Len(front) + i] = flat[i]
      BY <2>1, Concatenated
    <2>3. Len(flat) = N  BY <1>1
    <2> HIDE DEF whole, m
    <2> QED  BY <2>2, <2>3 DEF m
  <1> HIDE DEF whole, m
  <1>5. /\ data \in Seq(Byte) /\ Len(data) = total
        /\ \A i \in 1..Len(whole) : data[i] = whole[i]
    <2>1. whole \in Seq(Byte) /\ Len(whole) <= total  BY <1>2, <1>4
    <2> QED  BY <2>1, FilledIs
  <1> HIDE DEF data
  <1>6. \A i \in 1..N : data[m + i] = flat[i]
    <2> SUFFICES ASSUME NEW i \in 1..N PROVE data[m + i] = flat[i]  OBVIOUS
    <2>1. m + i \in 1..Len(whole)  BY <1>2, <1>3, <1>4
    <2> QED  BY <1>4, <1>5, <2>1
  <1>7. \A i \in 1..m : data[i] = front[i]
    <2>1. \A i \in 1..m : i \in 1..Len(whole)  BY <1>2, <1>3, <1>4
    <2> QED  BY <1>4, <1>5, <2>1
  <1>8. m + N <= Len(data)  BY <1>2, <1>5
  <1>9. Holds(data, m, parts, size)  BY <1>5, <1>6, <1>8 DEF Holds, flat, N
  <1> QED  BY <1>7, <1>9 DEF data, whole, flat, m

\* It is filled up to the end.
LEMMA TableFilled ==
    ASSUME NEW size \in EntrySizes, NEW parts, IsTable(parts, size),
           NEW front \in Seq(Byte), NEW total \in Nat, Len(front) + size * Len(parts) <= total
    PROVE  Len(Filled(front \o Flattened(parts, size), total)) = total
  <1> DEFINE flat == Flattened(parts, size)
             N == size * Len(parts)
             whole == front \o flat
  <1>1. flat \in Seq(Byte) /\ Len(flat) = N  BY FlattenedIs
  <1>2. Len(front) + N <= total  OBVIOUS
  <1> HIDE DEF flat, N
  <1>3. whole \in Seq(Byte) /\ Len(whole) = Len(front) + Len(flat)  BY <1>1, Concatenated
  <1> HIDE DEF whole
  <1>4. Len(whole) <= total  BY <1>1, <1>2, <1>3
  <1>5. Len(Filled(whole, total)) = total  BY <1>3, <1>4, FilledIs
  <1> QED  BY <1>5 DEF whole, flat

\* The bytes of an event.
LEMMA EventBytes ==
    /\ \A e \in ShortcutEvent :
         EncodeShortcutEvent(e) \in Seq(Byte) /\ Len(EncodeShortcutEvent(e)) = 3
    /\ \A e \in MacroEvent :
         EncodeMacroEvent(e) \in Seq(Byte) /\ Len(EncodeMacroEvent(e)) = 5
  <1>1. ASSUME NEW e \in ShortcutEvent
        PROVE  EncodeShortcutEvent(e) \in Seq(Byte) /\ Len(EncodeShortcutEvent(e)) = 3
    <2> DEFINE first == e.key_type + (IF e.key_down THEN 128 ELSE 64)
               low == e.key_code % 256  high == e.key_code \div 256
    <2>1. e.key_type \in 0..2 /\ e.key_code \in Word  BY DEF ShortcutEvent, ShortcutKeyType
    <2>2. first \in Byte
      <3>1. first \in Int /\ 0 <= first /\ first <= 255  BY <2>1
      <3> HIDE DEF first
      <3> QED  BY <3>1, ByteIs
    <2>3. low \in Byte /\ high \in Byte  BY <2>1, WordSplit
    <2>4. EncodeShortcutEvent(e) = <<first, low, high>>  BY DEF EncodeShortcutEvent
    <2> HIDE DEF first, low, high
    <2> QED  BY <2>2, <2>3, <2>4
  <1>2. ASSUME NEW e \in MacroEvent
        PROVE  EncodeMacroEvent(e) \in Seq(Byte) /\ Len(EncodeMacroEvent(e)) = 5
    <2> DEFINE first == e.key_type + (IF e.key_down THEN 64 ELSE 128)
               low == e.key_code % 256  high == e.key_code \div 256
               above == e.delay_ms \div 256  below == e.delay_ms % 256
    <2>1. e.key_type \in {1, 4} /\ e.key_code \in Word /\ e.delay_ms \in Word
      BY DEF MacroEvent, MacroEventKeyType
    <2>2. first \in Byte
      <3>1. first \in Int /\ 0 <= first /\ first <= 255  BY <2>1
      <3> HIDE DEF first
      <3> QED  BY <3>1, ByteIs
    <2>3. low \in Byte /\ high \in Byte /\ above \in Byte /\ below \in Byte
      BY <2>1, WordSplit
    <2>4. EncodeMacroEvent(e) = <<first, low, high, above, below>>  BY DEF EncodeMacroEvent
    <2> HIDE DEF first, low, high, above, below
    <2> QED  BY <2>2, <2>3, <2>4
  <1> QED  BY <1>1, <1>2

\* A sequence is its own longest first part.
LEMMA WholeIs ==
    ASSUME NEW X, NEW s \in Seq(X)
    PROVE  SubSeq(s, 1, Len(s)) = s
  <1> DEFINE n == Len(s)  a == SubSeq(s, 1, n)
  <1>1. n \in Nat /\ n \in 0..n  BY ElementsOf
  <1>2. a \in Seq(X) /\ Len(a) = n /\ \A i \in 1..n : a[i] = s[i]  BY <1>1, Prefix
  <1> HIDE DEF a
  <1>3. a = s  BY <1>2, SameSequence
  <1> QED  BY <1>3 DEF a

\* A shortcut of up to ten events.
LEMMA ShortcutReadsBack ==
    ASSUME NEW events \in Seq(ShortcutEvent), Len(events) <= MAX_SHORTCUT_EVENTS
    PROVE  /\ DecodeShortcut(EncodeShortcut(events)) = events
           /\ EncodeShortcut(events) \in Seq(Byte) /\ Len(EncodeShortcut(events)) = 32
  <1> DEFINE n == Len(events)
             parts == [i \in DOMAIN events |-> EncodeShortcutEvent(events[i])]
             front == <<n>>
             data == Filled(front \o Flattened(parts, 3), 32)
  <1>1. /\ n \in Nat /\ n <= 10 /\ DOMAIN events = 1..n
        /\ \A i \in 1..n : events[i] \in ShortcutEvent
    BY ElementsOf DEF MAX_SHORTCUT_EVENTS
  <1>2. EncodeShortcut(events) = data
    <2> DEFINE room == (SHORTCUT_KEY_SLOT_SIZE - 1) \div 3
               kept == SubSeq(events, 1, MinOf(Len(events), room))
               body == Flattened([i \in DOMAIN kept |-> EncodeShortcutEvent(kept[i])], 3)
    <2>1. EncodeShortcut(events) = Filled(<<Len(events)>> \o body, SHORTCUT_KEY_SLOT_SIZE)
      BY DEF EncodeShortcut
    <2>2. MinOf(n, room) = n  BY <1>1 DEF MinOf, SHORTCUT_KEY_SLOT_SIZE
    <2>3. kept = events  BY <2>2, WholeIs
    <2> HIDE DEF kept
    <2>4. body = Flattened(parts, 3)  BY <2>3
    <2> HIDE DEF body, parts
    <2> QED  BY <2>1, <2>4 DEF SHORTCUT_KEY_SLOT_SIZE
  <1> HIDE DEF n
  <1>3. DOMAIN parts = 1..n /\ \A i \in 1..n : parts[i] = EncodeShortcutEvent(events[i])
    BY <1>1
  <1>4. parts \in Seq(Seq(Byte)) /\ Len(parts) = n
    <2>1. \A i \in 1..n : parts[i] \in Seq(Byte)  BY <1>1, <1>3, EventBytes
    <2>2. parts = [i \in 1..n |-> parts[i]]  BY <1>1
    <2> HIDE DEF parts
    <2>3. parts \in [1..n -> Seq(Byte)]  BY <2>1, <2>2
    <2> QED  BY <1>1, <2>3
  <1>5. IsTable(parts, 3)
    <2>1. \A i \in 1..n : Len(parts[i]) = 3  BY <1>1, <1>3, EventBytes
    <2> HIDE DEF parts
    <2> QED  BY <1>4, <2>1 DEF IsTable
  <1>6. front \in Seq(Byte) /\ Len(front) = 1 /\ front[1] = n
    <2>1. n \in Byte  BY <1>1, ByteIs
    <2> QED  BY <2>1
  <1>7. \A i \in 1..n : DecodeShortcutEvent(parts[i]) = events[i]
    BY <1>1, <1>3, ShortcutEventReadsBack
  <1> HIDE DEF parts, front
  <1>8. 3 \in EntrySizes /\ 32 \in Nat  BY DEF EntrySizes
  <1>9. Len(front) + 3 * Len(parts) <= 32  BY <1>1, <1>4, <1>6
  <1>10. Holds(data, Len(front), parts, 3) /\ \A i \in 1..Len(front) : data[i] = front[i]
    BY <1>5, <1>6, <1>8, <1>9, TableBehind
  <1>18. Len(data) = 32
    <2>1. Len(Filled(front \o Flattened(parts, 3), 32)) = 32
      BY <1>5, <1>6, <1>8, <1>9, TableFilled
    <2> QED  BY <2>1
  <1> HIDE DEF data
  <1>11. data[1] = n /\ Holds(data, 1, parts, 3)
    <2>1. 1 \in 1..Len(front)  BY <1>6
    <2> QED  BY <1>6, <1>10, <2>1
  <1>12. Entries(data, 1, 3, n) = parts  BY <1>4, <1>5, <1>8, <1>11, EntriesAre
  <1>13. [i \in DOMAIN parts |-> DecodeShortcutEvent(parts[i])] = events
    <2>1. events = [i \in 1..n |-> events[i]]  BY <1>1
    <2> QED  BY <1>3, <1>7, <2>1
  <1>14. ValidOnes(events) = events
    <2>1. \A e \in ShortcutEvent : e # Invalid  BY InvalidAssumption
    <2>2. \A i \in 1..Len(events) : events[i] # Invalid  BY <1>1, <2>1 DEF n
    <2> QED  BY <2>2, AllValid
  <1>15. ~(data[1] > 2 * MAX_SHORTCUT_EVENTS)  BY <1>1, <1>11 DEF MAX_SHORTCUT_EVENTS
  <1>16. DecodeShortcut(data) = ValidOnes([i \in DOMAIN parts |-> DecodeShortcutEvent(parts[i])])
    BY <1>11, <1>12, <1>15 DEF DecodeShortcut
  <1>17. data \in Seq(Byte)  BY <1>10 DEF Holds
  <1> QED  BY <1>2, <1>13, <1>14, <1>16, <1>17, <1>18

-----------------------------------------------------------------------------
(* Texts.  A character of UTF-8 does not begin inside another, and none is the first part *)
(* of another: so what the first bytes of a text read as is its whole characters among    *)
(* them, and U+FFFD for one that is cut.                                                  *)

\* A character that starts at byte f has begun to be read at byte n.
BegunAt(b, f, n) ==
    /\ n - f + 1 \in 1..CharLength(b[f])
    /\ n - f + 1 >= 2 => b[f + 1] \in Second(b[f])
    /\ \A i \in (f + 2)..n : b[i] \in 128..191

\* It ends there.
CharAt(b, f, n) == BegunAt(b, f, n) /\ n - f + 1 = CharLength(b[f])

\* The bytes that follow in a character do not begin one.
LEMMA FirstBytes ==
    \A x \in Byte : /\ CharLength(x) \in 0..4 /\ Second(x) \subseteq 128..191
                    /\ x \in 128..191 => CharLength(x) = 0
  <1> SUFFICES ASSUME NEW x \in Byte
               PROVE  /\ CharLength(x) \in 0..4 /\ Second(x) \subseteq 128..191
                      /\ x \in 128..191 => CharLength(x) = 0
    OBVIOUS
  <1>1. x \in Int /\ 0 <= x /\ x <= 255  BY ByteIs
  <1>2. CharLength(x) \in 0..4 /\ (x \in 128..191 => CharLength(x) = 0)  BY <1>1 DEF CharLength
  <1>3. Second(x) \subseteq 128..191  BY <1>1 DEF Second
  <1> QED  BY <1>2, <1>3

\* Bytes f to n taken by themselves.
LEMMA SliceBegun ==
    ASSUME NEW b \in Seq(Byte), NEW f \in Nat \ {0}, NEW n \in Nat, f <= n, n <= Len(b)
    PROVE  /\ IsBegun(SubSeq(b, f, n)) <=> BegunAt(b, f, n)
           /\ IsChar(SubSeq(b, f, n)) <=> CharAt(b, f, n)
  <1> DEFINE s == SubSeq(b, f, n)  k == n - f + 1  m == f - 1
  <1>1. m \in Nat /\ k \in Nat /\ k >= 1 /\ m + k <= Len(b) /\ f = m + 1 /\ n = m + k
    OBVIOUS
  <1> HIDE DEF k, m
  <1>2. Len(s) = k /\ \A i \in 1..k : s[i] = b[m + i]  BY <1>1, Slice
  <1> HIDE DEF s
  <1>3. s[1] = b[f] /\ (k >= 2 => s[2] = b[f + 1])
    <2>1. 1 \in 1..k /\ (k >= 2 => 2 \in 1..k) /\ m + 2 = f + 1  BY <1>1
    <2> QED  BY <1>1, <1>2, <2>1
  <1>4. (\A i \in 3..k : s[i] \in 128..191) <=> (\A j \in (f + 2)..n : b[j] \in 128..191)
    <2>1. ASSUME \A i \in 3..k : s[i] \in 128..191, NEW j \in (f + 2)..n
          PROVE  b[j] \in 128..191
      <3>1. j - m \in 3..k /\ j - m \in 1..k /\ m + (j - m) = j  BY <1>1
      <3> QED  BY <1>2, <2>1, <3>1
    <2>2. ASSUME \A j \in (f + 2)..n : b[j] \in 128..191, NEW i \in 3..k
          PROVE  s[i] \in 128..191
      <3>1. m + i \in (f + 2)..n /\ i \in 1..k  BY <1>1
      <3> QED  BY <1>2, <2>2, <3>1
    <2> QED  BY <2>1, <2>2
  <1>5. IsBegun(s) <=> /\ k \in 1..CharLength(s[1])
                       /\ k >= 2 => s[2] \in Second(s[1])
                       /\ \A i \in 3..k : s[i] \in 128..191
    BY <1>2 DEF IsBegun
  <1>6. BegunAt(b, f, n) <=> /\ k \in 1..CharLength(b[f])
                             /\ k >= 2 => b[f + 1] \in Second(b[f])
                             /\ \A j \in (f + 2)..n : b[j] \in 128..191
    BY DEF BegunAt, k
  <1>7. IsBegun(s) <=> BegunAt(b, f, n)  BY <1>3, <1>4, <1>5, <1>6
  <1>8. IsChar(s) <=> CharAt(b, f, n)  BY <1>2, <1>3, <1>7 DEF IsChar, CharAt, k
  <1> QED  BY <1>7, <1>8 DEF s

\* None begins inside another, and what has begun at a byte has begun at those before.
LEMMA Inside ==
    ASSUME NEW b \in Seq(Byte), NEW f \in Nat \ {0}, NEW n \in Nat, f <= n, n <= Len(b),
           BegunAt(b, f, n), NEW g \in (f + 1)..n, NEW m \in Int
    PROVE  ~BegunAt(b, g, m)
  <1>1. g \in 1..Len(b) /\ f \in 1..Len(b)  OBVIOUS
  <1>2. b[g] \in Byte /\ b[f] \in Byte  BY <1>1, ElementsOf
  <1>3. b[g] \in 128..191
    <2>1. CASE g = f + 1
      <3>1. n - f + 1 >= 2  BY <2>1
      <3> QED  BY <1>2, <2>1, <3>1, FirstBytes DEF BegunAt
    <2>2. CASE g # f + 1
      <3>1. g \in (f + 2)..n  BY <2>2
      <3> QED  BY <3>1 DEF BegunAt
    <2> QED  BY <2>1, <2>2
  <1>4. CharLength(b[g]) = 0  BY <1>2, <1>3, FirstBytes
  <1> QED  BY <1>4 DEF BegunAt

LEMMA BegunBefore ==
    ASSUME NEW b \in Seq(Byte), NEW f \in Nat \ {0}, NEW n \in Nat, f <= n, n <= Len(b),
           BegunAt(b, f, n), NEW m \in f..n
    PROVE  BegunAt(b, f, m)
  <1>1. f \in 1..Len(b)  OBVIOUS
  <1>2. b[f] \in Byte  BY <1>1, ElementsOf
  <1>3. CharLength(b[f]) \in Int
    <2>1. CharLength(b[f]) \in 0..4  BY <1>2, FirstBytes
    <2> QED  BY <2>1
  <1>4. m - f + 1 \in 1..CharLength(b[f])  BY <1>3 DEF BegunAt
  <1>5. m - f + 1 >= 2 => b[f + 1] \in Second(b[f])
    <2>1. m - f + 1 >= 2 => n - f + 1 >= 2  OBVIOUS
    <2> QED  BY <2>1 DEF BegunAt
  <1>6. \A i \in (f + 2)..m : b[i] \in 128..191
    <2>1. \A i \in (f + 2)..m : i \in (f + 2)..n  OBVIOUS
    <2> QED  BY <2>1 DEF BegunAt
  <1> QED  BY <1>4, <1>5, <1>6 DEF BegunAt

\* Two that have begun at a byte are the same one.
LEMMA OneBegun ==
    ASSUME NEW b \in Seq(Byte), NEW n \in Nat, n <= Len(b),
           NEW f \in 1..n, BegunAt(b, f, n), NEW g \in 1..n, BegunAt(b, g, n)
    PROVE  f = g
  <1>1. CASE f < g
    <2>1. g \in (f + 1)..n /\ f \in Nat \ {0} /\ f <= n /\ n \in Int  BY <1>1
    <2> QED  BY <2>1, Inside
  <1>2. CASE g < f
    <2>1. f \in (g + 1)..n /\ g \in Nat \ {0} /\ g <= n /\ n \in Int  BY <1>2
    <2> QED  BY <2>1, Inside
  <1> QED  BY <1>1, <1>2

\* A text, by the places of its characters.
TextAt(t) ==
    \A i \in 1..Len(t) : \E f, n \in 1..Len(t) : f <= i /\ i <= n /\ CharAt(t, f, n)

LEMMA TextIs ==
    ASSUME NEW t \in Seq(Byte), IsText(t)
    PROVE  TextAt(t)
  <1> SUFFICES ASSUME NEW i \in 1..Len(t)
               PROVE  \E f, n \in 1..Len(t) : f <= i /\ i <= n /\ CharAt(t, f, n)
    BY DEF TextAt
  <1>1. PICK f, n \in 1..Len(t) : f <= i /\ i <= n /\ IsChar(SubSeq(t, f, n))  BY DEF IsText
  <1>2. f \in Nat \ {0} /\ n \in Nat /\ f <= n /\ n <= Len(t)  BY <1>1
  <1>3. CharAt(t, f, n)  BY <1>1, <1>2, SliceBegun
  <1> QED  BY <1>1, <1>3

\* Where a character of a text ends.
LEMMA EndIs ==
    ASSUME NEW t \in Seq(Byte), NEW n \in 1..Len(t)
    PROVE  EndsChar(t, n) <=> \E f \in 1..n : CharAt(t, f, n)
  <1>1. ASSUME EndsChar(t, n) PROVE \E f \in 1..n : CharAt(t, f, n)
    <2>1. PICK k \in 1..MinOf(n, 4) : IsChar(SubSeq(t, n - k + 1, n))
      BY <1>1 DEF EndsChar
    <2> DEFINE f == n - k + 1
    <2>2. k \in Int /\ 1 <= k /\ k <= n  BY <2>1 DEF MinOf
    <2>3. f \in Nat \ {0} /\ n \in Nat /\ f <= n /\ n <= Len(t)  BY <2>2
    <2>4. IsChar(SubSeq(t, f, n))  BY <2>1
    <2> HIDE DEF f
    <2>5. CharAt(t, f, n)  BY <2>3, <2>4, SliceBegun
    <2> QED  BY <2>3, <2>5
  <1>2. ASSUME NEW f \in 1..n, CharAt(t, f, n) PROVE EndsChar(t, n)
    <2> DEFINE k == n - f + 1
    <2>1. f \in Nat \ {0} /\ n \in Nat /\ f <= n /\ n <= Len(t) /\ f \in 1..Len(t)  OBVIOUS
    <2>2. CharLength(t[f]) \in 0..4
      <3>1. t[f] \in Byte  BY <2>1, ElementsOf
      <3> QED  BY <3>1, FirstBytes
    <2>3. k = CharLength(t[f])  BY <1>2 DEF CharAt
    <2>4. IsChar(SubSeq(t, f, n))  BY <1>2, <2>1, SliceBegun
    <2>5. k \in Int /\ n - k + 1 = f /\ 1 <= k /\ k <= n  BY <2>1
    <2> HIDE DEF k
    <2>6. k \in 1..MinOf(n, 4)  BY <2>1, <2>2, <2>3, <2>5 DEF MinOf
    <2>7. IsChar(SubSeq(t, n - k + 1, n))  BY <2>4, <2>5
    <2> QED  BY <2>6, <2>7 DEF EndsChar
  <1> QED  BY <1>1, <1>2

\* The last piece of the first n bytes starts where a character has begun.
LEMMA LastPieceIs ==
    ASSUME NEW b \in Seq(Byte), NEW n \in 1..Len(b), NEW f \in 1..n, BegunAt(b, f, n)
    PROVE  LastPiece(b, n) = n - f + 1
  <1> DEFINE begun == {k \in 2..MinOf(n, 4) : IsBegun(SubSeq(b, n - k + 1, n))}
             k0 == n - f + 1
  <1>1. LastPiece(b, n) = IF begun = {} THEN 1 ELSE CHOOSE k \in begun : TRUE
    BY DEF LastPiece
  <1>2. \A k \in begun : k = k0
    <2> SUFFICES ASSUME NEW k \in 2..MinOf(n, 4), IsBegun(SubSeq(b, n - k + 1, n))
                 PROVE  k = k0
      OBVIOUS
    <2> DEFINE g == n - k + 1
    <2>1. k \in Int /\ 2 <= k /\ k <= n  BY DEF MinOf
    <2>2. g \in Nat \ {0} /\ n \in Nat /\ g <= n /\ n <= Len(b) /\ g \in 1..n /\ k = n - g + 1
      BY <2>1
    <2>3. IsBegun(SubSeq(b, g, n))  OBVIOUS
    <2> HIDE DEF g
    <2>4. BegunAt(b, g, n)  BY <2>2, <2>3, SliceBegun
    <2>5. g = f  BY <2>2, <2>4, OneBegun
    <2> QED  BY <2>2, <2>5
  <1>3. k0 \in 1..4 /\ k0 <= n /\ n - k0 + 1 = f
    <2>1. f \in 1..Len(b)  OBVIOUS
    <2>2. b[f] \in Byte  BY <2>1, ElementsOf
    <2>3. CharLength(b[f]) \in 0..4  BY <2>2, FirstBytes
    <2>4. k0 \in 1..CharLength(b[f])  BY DEF BegunAt
    <2> QED  BY <2>3, <2>4
  <1>4. CASE k0 = 1
    <2>1. \A k \in begun : k # 1  OBVIOUS
    <2>2. begun = {}  BY <1>2, <1>4, <2>1
    <2> HIDE DEF begun, k0
    <2>3. LastPiece(b, n) = k0  BY <1>1, <1>4, <2>2
    <2> QED  BY <2>3 DEF k0
  <1>5. CASE k0 # 1
    <2>1. f \in Nat \ {0} /\ n \in Nat /\ f <= n /\ n <= Len(b)  OBVIOUS
    <2>2. IsBegun(SubSeq(b, f, n))  BY <2>1, SliceBegun
    <2> HIDE DEF k0
    <2>3. k0 \in 2..MinOf(n, 4)  BY <1>3, <1>5 DEF MinOf
    <2>4. IsBegun(SubSeq(b, n - k0 + 1, n))  BY <1>3, <2>2
    <2>5. k0 \in begun  BY <2>3, <2>4
    <2> HIDE DEF begun
    <2>6. (CHOOSE k \in begun : TRUE) \in begun  BY <2>5
    <2>7. LastPiece(b, n) = k0  BY <1>1, <1>2, <2>5, <2>6
    <2> QED  BY <2>7 DEF k0
  <1> QED  BY <1>4, <1>5

\* The character of a text that has byte n: it ends nowhere before its last byte, and a
\* character ends where it starts, unless it is the first.
LEMMA StartIs ==
    ASSUME NEW t \in Seq(Byte), TextAt(t), NEW n \in 1..Len(t)
    PROVE  \E f \in 1..n, last \in n..Len(t) :
             /\ BegunAt(t, f, n) /\ CharAt(t, f, last)
             /\ f - 1 = 0 \/ EndsChar(t, f - 1)
             /\ \A j \in f..last : EndsChar(t, j) <=> j = last
  <1>1. PICK f, last \in 1..Len(t) : f <= n /\ n <= last /\ CharAt(t, f, last)  BY DEF TextAt
  <1>2. /\ Len(t) \in Nat /\ n \in Int /\ f \in Nat \ {0} /\ last \in Nat /\ f <= last
        /\ last <= Len(t) /\ f \in 1..n /\ last \in n..Len(t) /\ n \in f..last
    BY <1>1, ElementsOf
  <1>3. BegunAt(t, f, last)  BY <1>1 DEF CharAt
  <1>4. \A j \in f..last : BegunAt(t, f, j)  BY <1>2, <1>3, BegunBefore
  <1>5. ASSUME NEW j \in f..last PROVE EndsChar(t, j) <=> j = last
    <2>1. j \in 1..Len(t) /\ j \in Nat /\ j <= Len(t) /\ f \in 1..j  BY <1>2
    <2>2. EndsChar(t, j) <=> \E g \in 1..j : CharAt(t, g, j)  BY <2>1, EndIs
    <2>3. ASSUME NEW g \in 1..j, CharAt(t, g, j) PROVE j = last
      <3>1. BegunAt(t, g, j)  BY <2>3 DEF CharAt
      <3>2. g = f  BY <1>4, <2>1, <3>1, OneBegun
      <3>3. j - f + 1 = CharLength(t[f]) /\ last - f + 1 = CharLength(t[f])
        BY <1>1, <2>3, <3>2 DEF CharAt
      <3> QED  BY <1>2, <2>1, <3>3
    <2>4. j = last => CharAt(t, f, j)  BY <1>1
    <2> QED  BY <2>1, <2>2, <2>3, <2>4
  <1>6. f - 1 = 0 \/ EndsChar(t, f - 1)
    <2> DEFINE p == f - 1
    <2> SUFFICES ASSUME p # 0 PROVE EndsChar(t, p)  OBVIOUS
    <2>1. p \in 1..Len(t) /\ p < f  BY <1>2
    <2>2. PICK g, end \in 1..Len(t) : g <= p /\ p <= end /\ CharAt(t, g, end)
      BY <2>1 DEF TextAt
    <2> HIDE DEF p
    <2>3. BegunAt(t, g, end)  BY <2>2 DEF CharAt
    <2>4. end < f
      <3> SUFFICES ASSUME ~(end < f) PROVE FALSE  OBVIOUS
      <3>1. /\ g \in Nat \ {0} /\ end \in Nat /\ g <= end /\ end <= Len(t)
            /\ f \in (g + 1)..end /\ last \in Int
        BY <1>2, <2>1, <2>2
      <3>2. ~BegunAt(t, f, last)  BY <2>3, <3>1, Inside
      <3> QED  BY <1>3, <3>2
    <2>5. end = p  BY <1>2, <2>1, <2>2, <2>4 DEF p
    <2>6. g \in 1..p /\ CharAt(t, g, p)  BY <2>1, <2>2, <2>5
    <2> QED  BY <2>1, <2>6, EndIs
  <1> QED  BY <1>1, <1>2, <1>4, <1>5, <1>6

\* In the first m bytes of a text the characters begin where they do in the text.
LEMMA BegunInCut ==
    ASSUME NEW t \in Seq(Byte), NEW m \in 0..Len(t), NEW b, b = SubSeq(t, 1, m),
           NEW f \in Nat \ {0}, NEW n \in Nat, f <= n, n <= m
    PROVE  /\ BegunAt(b, f, n) <=> BegunAt(t, f, n)
           /\ CharAt(b, f, n) <=> CharAt(t, f, n)
  <1>1. Len(b) = m /\ \A i \in 1..m : b[i] = t[i]  BY Prefix
  <1>2. Len(t) \in Nat /\ m \in Int /\ 0 <= m  BY ElementsOf
  <1>3. b[f] = t[f]
    <2>1. f \in 1..m  BY <1>2
    <2> QED  BY <1>1, <2>1
  <1>4. n - f + 1 >= 2 => b[f + 1] = t[f + 1]
    <2>1. n - f + 1 >= 2 => f + 1 \in 1..m  BY <1>2
    <2> QED  BY <1>1, <2>1
  <1>5. \A i \in (f + 2)..n : b[i] = t[i]
    <2>1. \A i \in (f + 2)..n : i \in 1..m  BY <1>2
    <2> QED  BY <1>1, <2>1
  <1>6. BegunAt(b, f, n) <=> BegunAt(t, f, n)  BY <1>3, <1>4, <1>5 DEF BegunAt
  <1> QED  BY <1>3, <1>6 DEF CharAt

\* What the last piece of the first n bytes reads as, and what they all do.
PieceReads(b, n) ==
    LET piece == SubSeq(b, n - LastPiece(b, n) + 1, n)
    IN  IF IsChar(piece) THEN piece ELSE Replacement

AreRead(f, b, N) ==
    f = [n \in 0..N |-> IF n = 0 THEN << >> ELSE f[n - LastPiece(b, n)] \o PieceReads(b, n)]

\* What the first n bytes of a text read as: its characters, and U+FFFD for a cut one.
CutReads(t, n) ==
    IF n = 0 \/ EndsChar(t, n) THEN SubSeq(t, 1, n)
    ELSE SubSeq(t, 1, (CHOOSE f \in 1..n : BegunAt(t, f, n)) - 1) \o Replacement

LEMMA CutReadsOn ==
    ASSUME NEW t \in Seq(Byte), TextAt(t), NEW m \in 0..Len(t), NEW b, b = SubSeq(t, 1, m),
           NEW n \in 1..m
    PROVE  /\ LastPiece(b, n) \in 1..n
           /\ CutReads(t, n) = CutReads(t, n - LastPiece(b, n)) \o PieceReads(b, n)
  <1>1. n \in 1..Len(t) /\ n \in Nat /\ n <= Len(t) /\ n <= m /\ m \in Nat  BY ElementsOf
  <1>2. PICK f \in 1..n, last \in n..Len(t) :
             /\ BegunAt(t, f, n) /\ CharAt(t, f, last)
             /\ f - 1 = 0 \/ EndsChar(t, f - 1)
             /\ \A j \in f..last : EndsChar(t, j) <=> j = last
    BY <1>1, StartIs
  <1>3. b \in Seq(Byte) /\ Len(b) = m /\ \A i \in 1..m : b[i] = t[i]  BY Prefix
  <1>4. /\ f \in Nat \ {0} /\ n \in Nat /\ f <= n /\ n <= Len(b) /\ n <= m /\ n \in 1..Len(b)
        /\ f \in 1..n /\ n \in f..last
    BY <1>1, <1>3
  <1>5. BegunAt(b, f, n)  BY <1>2, <1>4, BegunInCut
  <1>6. LastPiece(b, n) = n - f + 1  BY <1>3, <1>4, <1>5, LastPieceIs
  <1> DEFINE k == n - f + 1  p == f - 1  a == SubSeq(t, 1, p)  piece == SubSeq(b, f, n)
  <1>7. n - k + 1 = f /\ n - k = p /\ k \in 1..n /\ p \in Nat /\ p <= n /\ p <= Len(t)
    BY <1>1
  <1>8. CutReads(t, p) = a  BY <1>2 DEF CutReads
  <1>9. PieceReads(b, n) = IF IsChar(piece) THEN piece ELSE Replacement
    BY <1>6, <1>7 DEF PieceReads
  <1>10. IsChar(piece) <=> CharAt(t, f, n)
    <2>1. IsChar(piece) <=> CharAt(b, f, n)  BY <1>3, <1>4, SliceBegun
    <2>2. CharAt(b, f, n) <=> CharAt(t, f, n)  BY <1>4, BegunInCut
    <2> QED  BY <2>1, <2>2
  <1>11. CharAt(t, f, n) <=> EndsChar(t, n)
    <2>1. CharAt(t, f, n) => EndsChar(t, n)  BY <1>1, EndIs
    <2>2. EndsChar(t, n) => n = last  BY <1>2, <1>4
    <2> QED  BY <1>2, <2>1, <2>2
  <1>12. CASE EndsChar(t, n)
    <2> DEFINE whole == SubSeq(t, 1, n)  both == a \o piece
    <2>1. whole \in Seq(Byte) /\ Len(whole) = n /\ \A i \in 1..n : whole[i] = t[i]
      BY <1>1, Prefix
    <2>2. a \in Seq(Byte) /\ Len(a) = p /\ \A i \in 1..p : a[i] = t[i]  BY <1>7, Prefix
    <2>3. piece \in Seq(Byte) /\ Len(piece) = k /\ \A i \in 1..k : piece[i] = b[p + i]
      <3>1. p \in Nat /\ k \in Nat /\ p + k <= Len(b) /\ f = p + 1 /\ n = p + k
        BY <1>3, <1>4, <1>7
      <3>2. b \in Seq(Byte)  BY <1>3
      <3> HIDE DEF p, k
      <3> QED  BY <3>1, <3>2, Slice
    <2> HIDE DEF a, piece, whole
    <2>4. /\ both \in Seq(Byte) /\ Len(both) = Len(a) + Len(piece)
          /\ \A i \in 1..Len(a) : both[i] = a[i]
          /\ \A i \in 1..Len(piece) : both[Len(a) + i] = piece[i]
      <3>1. a \in Seq(Byte) /\ piece \in Seq(Byte)  BY <2>2, <2>3
      <3> QED  BY <3>1, Concatenated
    <2> HIDE DEF both
    <2>5. Len(both) = n  BY <1>7, <2>2, <2>3, <2>4
    <2>6. ASSUME NEW i \in 1..n PROVE both[i] = whole[i]
      <3>1. CASE i <= p
        <4>1. i \in 1..p  BY <3>1, <1>7
        <4> QED  BY <2>1, <2>2, <2>4, <4>1
      <3>2. CASE ~(i <= p)
        <4>1. i - p \in 1..k /\ p + (i - p) = i /\ i \in 1..m  BY <1>1, <1>7, <3>2
        <4>2. both[p + (i - p)] = piece[i - p]  BY <2>2, <2>3, <2>4, <4>1
        <4>3. piece[i - p] = b[i]  BY <2>3, <4>1
        <4> QED  BY <1>3, <2>1, <4>1, <4>2, <4>3
      <3> QED  BY <3>1, <3>2
    <2>7. both = whole  BY <2>1, <2>4, <2>5, <2>6, SameSequence
    <2>8. CutReads(t, n) = whole  BY <1>12 DEF CutReads, whole
    <2>9. PieceReads(b, n) = piece  BY <1>9, <1>10, <1>11, <1>12
    <2>10. CutReads(t, n - LastPiece(b, n)) = a  BY <1>6, <1>7, <1>8
    <2>11. LastPiece(b, n) \in 1..n  BY <1>6, <1>7
    <2> QED  BY <2>7, <2>8, <2>9, <2>10, <2>11 DEF both
  <1>13. CASE ~EndsChar(t, n)
    <2>1. \A g \in 1..n : BegunAt(t, g, n) => g = f
      <3>1. n \in Nat /\ n <= Len(t) /\ f \in 1..n /\ BegunAt(t, f, n)  BY <1>1, <1>2
      <3> QED  BY <3>1, OneBegun
    <2>2. (CHOOSE g \in 1..n : BegunAt(t, g, n)) = f  BY <1>2, <2>1
    <2>3. n # 0  OBVIOUS
    <2>4. CutReads(t, n) = SubSeq(t, 1, f - 1) \o Replacement  BY <1>13, <2>2, <2>3 DEF CutReads
    <2>5. PieceReads(b, n) = Replacement  BY <1>9, <1>10, <1>11, <1>13
    <2>6. CutReads(t, n - LastPiece(b, n)) = a  BY <1>6, <1>7, <1>8
    <2>7. LastPiece(b, n) \in 1..n  BY <1>6, <1>7
    <2> QED  BY <2>4, <2>5, <2>6, <2>7
  <1> QED  BY <1>12, <1>13

\* Whatever function reads piece by piece, reads that of the first m bytes of a text.
LEMMA TextReadIs ==
    ASSUME NEW t \in Seq(Byte), TextAt(t), NEW m \in 0..Len(t), NEW b, b = SubSeq(t, 1, m),
           NEW f, AreRead(f, b, m)
    PROVE  f[m] = CutReads(t, m)
  <1> DEFINE S == {n \in Nat : \A j \in 0..n : j <= m => f[j] = CutReads(t, j)}
  <1>1. m \in Nat  BY ElementsOf
  <1>2. \A n \in 0..m : f[n] = IF n = 0 THEN << >>
                               ELSE f[n - LastPiece(b, n)] \o PieceReads(b, n)
    BY DEF AreRead
  <1>3. 0 \in S
    <2>1. SubSeq(t, 1, 0) = << >>  OBVIOUS
    <2>2. CutReads(t, 0) = << >>  BY <2>1 DEF CutReads
    <2>3. f[0] = << >>  BY <1>1, <1>2
    <2>4. \A j \in 0..0 : j = 0  OBVIOUS
    <2> QED  BY <2>2, <2>3, <2>4
  <1>4. ASSUME NEW n \in Nat, n \in S PROVE n + 1 \in S
    <2> SUFFICES ASSUME NEW j \in 0..n + 1, j <= m PROVE f[j] = CutReads(t, j)  OBVIOUS
    <2>1. CASE j <= n
      <3>1. j \in 0..n  BY <2>1
      <3> QED  BY <1>4, <3>1
    <2>2. CASE ~(j <= n)
      <3>1. j = n + 1 /\ j \in 1..m /\ j \in 0..m /\ j # 0  BY <1>1, <2>2
      <3>2. /\ LastPiece(b, j) \in 1..j
            /\ CutReads(t, j) = CutReads(t, j - LastPiece(b, j)) \o PieceReads(b, j)
        BY <3>1, CutReadsOn
      <3>3. j - LastPiece(b, j) \in 0..n /\ j - LastPiece(b, j) <= m  BY <1>1, <3>1, <3>2
      <3>4. f[j - LastPiece(b, j)] = CutReads(t, j - LastPiece(b, j))  BY <1>4, <3>3
      <3>5. f[j] = f[j - LastPiece(b, j)] \o PieceReads(b, j)  BY <1>2, <3>1
      <3> QED  BY <3>2, <3>4, <3>5
    <2> QED  BY <2>1, <2>2
  <1> HIDE DEF S
  <1>5. Nat \subseteq S  BY <1>3, <1>4, Induction
  <1>6. m \in 0..m  BY <1>1
  <1> QED  BY <1>1, <1>5, <1>6 DEF S

LEMMA LossyCut ==
    ASSUME NEW t \in Seq(Byte), TextAt(t), NEW m \in 0..Len(t)
    PROVE  Lossy[SubSeq(t, 1, m)] = CutReads(t, m)
  <1> DEFINE b == SubSeq(t, 1, m)
             g == [n \in 0..m |-> CutReads(t, n)]
  <1>1. m \in Nat /\ Len(b) = m /\ b = SubSeq(t, 1, m)  BY ElementsOf, Prefix
  <1> HIDE DEF b
  <1>2. \A n \in 0..m : g[n] = IF n = 0 THEN << >>
                               ELSE g[n - LastPiece(b, n)] \o PieceReads(b, n)
    <2> SUFFICES ASSUME NEW n \in 0..m
                 PROVE  g[n] = IF n = 0 THEN << >>
                               ELSE g[n - LastPiece(b, n)] \o PieceReads(b, n)
      OBVIOUS
    <2>1. g[n] = CutReads(t, n)  OBVIOUS
    <2>2. CASE n = 0
      <3>1. SubSeq(t, 1, 0) = << >>  OBVIOUS
      <3>2. CutReads(t, 0) = << >>  BY <3>1 DEF CutReads
      <3> HIDE DEF g
      <3> QED  BY <2>1, <2>2, <3>2
    <2>3. CASE n # 0
      <3>1. n \in 1..m  BY <1>1, <2>3
      <3>2. /\ LastPiece(b, n) \in 1..n
            /\ CutReads(t, n) = CutReads(t, n - LastPiece(b, n)) \o PieceReads(b, n)
        BY <1>1, <3>1, CutReadsOn
      <3>3. n - LastPiece(b, n) \in 0..m  BY <1>1, <3>1, <3>2
      <3>4. g[n - LastPiece(b, n)] = CutReads(t, n - LastPiece(b, n))  BY <3>3
      <3> HIDE DEF g
      <3> QED  BY <2>1, <2>3, <3>2, <3>4
    <2> QED  BY <2>2, <2>3
  <1>3. AreRead(g, b, m)
    <2>1. g = [n \in 0..m |-> g[n]]  OBVIOUS
    <2> HIDE DEF g
    <2> QED  BY <1>2, <2>1 DEF AreRead
  <1> HIDE DEF g
  <1>4. \E f : AreRead(f, b, m) /\ Lossy[b] = f[m]
    <2>1. \E f : AreRead(f, b, Len(b)) /\ Lossy[b] = f[Len(b)]
      <3>1. AreRead(g, b, Len(b))  BY <1>1, <1>3
      <3>2. b \in Seq(Byte)  BY <1>1, Prefix
      <3> QED  BY <3>1, <3>2 DEF AreRead, PieceReads, Lossy
    <2> QED  BY <1>1, <2>1
  <1>5. Lossy[b] = CutReads(t, m)  BY <1>1, <1>4, TextReadIs
  <1> QED  BY <1>5 DEF b

\* A text reads as itself.
LEMMA LossyText ==
    ASSUME NEW t \in Seq(Byte), IsText(t)
    PROVE  Lossy[t] = t
  <1> DEFINE m == Len(t)  s == SubSeq(t, 1, m)
  <1>1. TextAt(t)  BY TextIs
  <1>2. m \in Nat /\ m \in 0..Len(t)  BY ElementsOf
  <1> HIDE DEF m
  <1>3. Lossy[s] = CutReads(t, m)  BY <1>1, <1>2, LossyCut
  <1>4. s \in Seq(Byte) /\ Len(s) = m /\ \A i \in 1..m : s[i] = t[i]  BY <1>2, Prefix
  <1>5. m = 0 \/ EndsChar(t, m)
    <2> SUFFICES ASSUME m # 0 PROVE EndsChar(t, m)  OBVIOUS
    <2>1. m \in 1..Len(t)  BY <1>2
    <2>2. PICK f, n \in 1..Len(t) : f <= m /\ m <= n /\ CharAt(t, f, n)
      BY <1>1, <2>1 DEF TextAt
    <2>3. n = m /\ f \in 1..m  BY <1>2, <2>2 DEF m
    <2> QED  BY <2>1, <2>2, <2>3, EndIs
  <1>6. CutReads(t, m) = s  BY <1>5 DEF CutReads
  <1> HIDE DEF s
  <1>7. s = t  BY <1>4, SameSequence DEF m
  <1> QED  BY <1>3, <1>6, <1>7 DEF s

\* The first m bytes of a text read as its last whole characters among them, and U+FFFD
\* if a character is cut.
LEMMA LossyIs ==
    ASSUME NEW t \in Seq(Byte), IsText(t), NEW m \in 0..Len(t),
           NEW whole \in 0..m, whole = 0 \/ EndsChar(t, whole),
           \A j \in (whole + 1)..m : ~EndsChar(t, j)
    PROVE  Lossy[SubSeq(t, 1, m)] =
             SubSeq(t, 1, whole) \o (IF whole < m THEN Replacement ELSE << >>)
  <1>1. TextAt(t)  BY TextIs
  <1>2. Lossy[SubSeq(t, 1, m)] = CutReads(t, m)  BY <1>1, LossyCut
  <1>3. m \in Nat /\ whole \in Nat /\ Len(t) \in Nat  BY ElementsOf
  <1>4. CASE whole = m
    <2> DEFINE s == SubSeq(t, 1, m)
    <2>1. CutReads(t, m) = s  BY <1>4 DEF CutReads
    <2>2. s \in Seq(Byte)  BY Prefix
    <2> HIDE DEF s
    <2>3. s \o << >> = s  BY <2>2
    <2>4. ~(whole < m)  BY <1>3, <1>4
    <2> QED  BY <1>2, <1>4, <2>1, <2>3, <2>4 DEF s
  <1>5. CASE whole # m
    <2>1. m \in 1..Len(t) /\ m \in (whole + 1)..m /\ whole < m /\ m # 0  BY <1>3, <1>5
    <2>2. PICK f \in 1..m, last \in m..Len(t) :
             /\ BegunAt(t, f, m) /\ CharAt(t, f, last)
             /\ f - 1 = 0 \/ EndsChar(t, f - 1)
             /\ \A j \in f..last : EndsChar(t, j) <=> j = last
      BY <1>1, <2>1, StartIs
    <2>3. whole = f - 1
      <3>1. CASE whole < f - 1
        <4>1. f - 1 \in (whole + 1)..m /\ f - 1 # 0  BY <1>3, <3>1
        <4> QED  BY <2>2, <4>1
      <3>2. CASE whole > f - 1
        <4>1. whole \in f..last /\ whole # last /\ whole # 0  BY <1>3, <2>1, <3>2
        <4> QED  BY <2>2, <4>1
      <3> QED  BY <1>3, <3>1, <3>2
    <2>4. \A g \in 1..m : BegunAt(t, g, m) => g = f
      <3>1. m \in Nat /\ m <= Len(t) /\ f \in 1..m /\ BegunAt(t, f, m)  BY <1>3, <2>2
      <3> QED  BY <3>1, OneBegun
    <2>5. (CHOOSE g \in 1..m : BegunAt(t, g, m)) = f  BY <2>2, <2>4
    <2>6. ~EndsChar(t, m)  BY <2>1
    <2>7. CutReads(t, m) = SubSeq(t, 1, f - 1) \o Replacement
      BY <2>1, <2>5, <2>6 DEF CutReads
    <2> QED  BY <1>2, <2>1, <2>3, <2>7
  <1> QED  BY <1>4, <1>5

-----------------------------------------------------------------------------
(* Macros. *)

\* The bytes in front of the events of a macro, and all its bytes.
MacroFront(name, k) == <<Len(name)>> \o Filled(name, 30) \o <<k>>
EventParts(events)  == [i \in DOMAIN events |-> EncodeMacroEvent(events[i])]
MacroBytes(name, events) ==
    Filled(MacroFront(name, Len(events)) \o Flattened(EventParts(events), 5), 384)

\* A macro starts with its name's length and its name, and the count of its events is last.
LEMMA NameIs ==
    ASSUME NEW name \in Seq(Byte), Len(name) <= 30, NEW k \in Nat, k <= 70,
           NEW front, front = MacroFront(name, k)
    PROVE  /\ front \in Seq(Byte) /\ Len(front) = 32 /\ front[1] = Len(name) /\ front[32] = k
           /\ \A i \in 1..Len(name) : front[1 + i] = name[i]
  <1> DEFINE n == Len(name)  a == <<n>>  b == Filled(name, 30)  ab == a \o b  c == <<k>>
  <1>1. n \in Nat /\ n <= 30  BY ElementsOf
  <1>2. n \in Byte /\ k \in Byte  BY <1>1, ByteIs
  <1>3. a \in Seq(Byte) /\ Len(a) = 1 /\ a[1] = n  BY <1>2
  <1>4. c \in Seq(Byte) /\ Len(c) = 1 /\ c[1] = k  BY <1>2
  <1>5. b \in Seq(Byte) /\ Len(b) = 30 /\ \A i \in 1..n : b[i] = name[i]
    <2> DEFINE size == 30
    <2>1. size \in Nat /\ Len(name) <= size  OBVIOUS
    <2> HIDE DEF size
    <2>2. /\ Filled(name, size) \in Seq(Byte) /\ Len(Filled(name, size)) = size
          /\ \A i \in 1..Len(name) : Filled(name, size)[i] = name[i]
      BY <2>1, FilledIs
    <2> HIDE DEF n, b
    <2> QED  BY <2>2 DEF size, n, b
  <1>6. front = ab \o c  BY DEF MacroFront
  <1> HIDE DEF n, a, b, c
  <1>7. a \in Seq(Byte) /\ b \in Seq(Byte) /\ c \in Seq(Byte)  BY <1>3, <1>4, <1>5
  <1>8. /\ ab \in Seq(Byte) /\ Len(ab) = Len(a) + Len(b)
        /\ \A i \in 1..Len(a) : ab[i] = a[i]
        /\ \A i \in 1..Len(b) : ab[Len(a) + i] = b[i]
    BY <1>7, Concatenated
  <1> HIDE DEF ab
  <1>9. /\ ab \o c \in Seq(Byte) /\ Len(ab \o c) = Len(ab) + Len(c)
        /\ \A i \in 1..Len(ab) : (ab \o c)[i] = ab[i]
        /\ \A i \in 1..Len(c) : (ab \o c)[Len(ab) + i] = c[i]
    <2>1. ab \in Seq(Byte)  BY <1>8
    <2> QED  BY <1>7, <2>1, Concatenated
  <1>10. Len(ab) = 31 /\ ab[1] = n /\ \A i \in 1..n : ab[1 + i] = name[i]
    <2>1. Len(a) = 1 /\ Len(b) = 30 /\ a[1] = n  BY <1>3, <1>5
    <2>2. Len(ab) = 31  BY <1>8, <2>1
    <2>3. 1 \in 1..Len(a)  BY <2>1
    <2>4. ab[1] = n  BY <1>8, <2>1, <2>3
    <2>5. \A i \in 1..n : i \in 1..Len(b)  BY <1>1, <2>1
    <2>6. \A i \in 1..n : ab[1 + i] = b[i]  BY <1>8, <2>1, <2>5
    <2> QED  BY <1>5, <2>2, <2>4, <2>6
  <1>11. front \in Seq(Byte) /\ Len(front) = 32 /\ front[32] = k
    <2>1. Len(c) = 1 /\ c[1] = k  BY <1>4
    <2>2. 1 \in 1..Len(c)  BY <2>1
    <2>3. Len(front) = 32  BY <1>6, <1>9, <1>10, <2>1
    <2>4. front[Len(ab) + 1] = k  BY <1>6, <1>9, <2>1, <2>2
    <2>5. Len(ab) + 1 = 32  BY <1>10
    <2>6. front \in Seq(Byte)  BY <1>6, <1>9
    <2>7. front[32] = k  BY <2>4, <2>5
    <2> QED  BY <2>3, <2>6, <2>7
  <1>12. front[1] = n /\ \A i \in 1..n : front[1 + i] = name[i]
    <2>1. 1 \in 1..Len(ab) /\ \A i \in 1..n : 1 + i \in 1..Len(ab)  BY <1>1, <1>10
    <2> QED  BY <1>6, <1>9, <1>10, <2>1
  <1> QED  BY <1>11, <1>12 DEF n

\* The bytes of a macro whose name and events are within their limits.
LEMMA MacroIs ==
    ASSUME NEW name \in Seq(Byte), Len(name) <= 30, \A i \in 1..Len(name) : name[i] # 0,
           NEW events \in Seq(MacroEvent), Len(events) <= 70,
           NEW data, data = MacroBytes(name, events)
    PROVE  /\ DecodeMacro(data) = [name |-> Lossy[name], events |-> events]
           /\ data \in Seq(Byte) /\ Len(data) = 384
  <1> DEFINE n == Len(name)  k == Len(events)
             parts == EventParts(events)
             front == MacroFront(name, k)
             ends == {i \in 1..n : data[i + 1] = 0}
             read == SubSeq(data, 2, n + 1)
  <1>1. n \in Nat /\ n <= 30 /\ \A i \in 1..n : name[i] \in Byte /\ name[i] # 0  BY ElementsOf
  <1>2. k \in Nat /\ k <= 70 /\ DOMAIN events = 1..k /\ \A i \in 1..k : events[i] \in MacroEvent
    BY ElementsOf
  <1>3. /\ front \in Seq(Byte) /\ Len(front) = 32 /\ front[1] = n /\ front[32] = k
        /\ \A i \in 1..n : front[1 + i] = name[i]
    BY <1>2, NameIs
  <1>4. data = Filled(front \o Flattened(parts, 5), 384)  BY DEF MacroBytes
  <1> HIDE DEF n, k, front
  <1> HIDE DEF parts
  <1>5. /\ parts = [i \in 1..k |-> EncodeMacroEvent(events[i])]
        /\ DOMAIN parts = 1..k /\ \A i \in 1..k : parts[i] = EncodeMacroEvent(events[i])
    BY <1>2 DEF EventParts, parts
  <1>6. parts \in Seq(Seq(Byte)) /\ Len(parts) = k
    <2>1. \A i \in 1..k : parts[i] \in Seq(Byte)  BY <1>2, <1>5, EventBytes
    <2>2. parts = [i \in 1..k |-> parts[i]]  BY <1>5
    <2>3. parts \in [1..k -> Seq(Byte)]  BY <2>1, <2>2
    <2> QED  BY <1>2, <2>3
  <1>7. IsTable(parts, 5)
    <2>1. \A i \in 1..k : Len(parts[i]) = 5  BY <1>2, <1>5, EventBytes
    <2> QED  BY <1>6, <2>1 DEF IsTable
  <1>8. \A i \in 1..k : DecodeMacroEvent(parts[i]) = events[i]
    BY <1>2, <1>5, MacroEventReadsBack
  <1>9. 5 \in EntrySizes /\ 384 \in Nat  BY DEF EntrySizes
  <1>10. Len(front) + 5 * Len(parts) <= 384  BY <1>2, <1>3, <1>6
  <1>11. /\ Holds(data, Len(front), parts, 5)
         /\ \A i \in 1..Len(front) : data[i] = front[i]
    <2>1. front \in Seq(Byte)  BY <1>3
    <2> QED  BY <1>4, <1>7, <1>9, <1>10, <2>1, TableBehind
  <1>12. data \in Seq(Byte) /\ 32 <= Len(data) /\ Len(data) \in Nat
    <2>1. data \in Seq(Byte) /\ Len(front) + 5 * Len(parts) <= Len(data)
      BY <1>11 DEF Holds
    <2>2. Len(data) \in Nat  BY <2>1, ElementsOf
    <2> QED  BY <1>2, <1>3, <1>6, <2>1, <2>2
  <1>13. /\ data[1] = n /\ data[32] = k /\ Holds(data, 32, parts, 5)
         /\ \A i \in 1..n : data[1 + i] = name[i]
    <2>1. Len(front) = 32  BY <1>3
    <2>2. 1 \in 1..Len(front) /\ 32 \in 1..Len(front) /\ \A i \in 1..n : 1 + i \in 1..Len(front)
      BY <1>1, <2>1
    <2> QED  BY <1>3, <1>11, <2>1, <2>2
  <1>14. Entries(data, 32, 5, k) = parts
    <2>1. 32 \in Nat  OBVIOUS
    <2> QED  BY <1>6, <1>7, <1>9, <1>13, <2>1, EntriesAre
  <1>15. [i \in DOMAIN parts |-> DecodeMacroEvent(parts[i])] = events
    <2>1. events = [i \in 1..k |-> events[i]]  BY <1>2
    <2> QED  BY <1>5, <1>8, <2>1
  <1>16. ValidOnes(events) = events
    <2>1. \A e \in MacroEvent : e # Invalid  BY InvalidAssumption
    <2>2. \A i \in 1..Len(events) : events[i] # Invalid  BY <1>2, <2>1 DEF k
    <2> QED  BY <2>2, AllValid
  <1>17. ends = {}
    <2>1. \A i \in 1..n : i + 1 = 1 + i  BY <1>1
    <2> QED  BY <1>1, <1>13, <2>1
  <1>18. read = name
    <2> DEFINE m == 1  last == n + 1
    <2>1. m \in Nat /\ m + n <= Len(data) /\ 2 = m + 1 /\ last = m + n  BY <1>1, <1>12
    <2>2. \A i \in 1..n : data[m + i] = name[i]  BY <1>13
    <2> HIDE DEF m, last
    <2>3. read = SubSeq(data, 2, last)  BY DEF last
    <2>4. /\ SubSeq(data, 2, last) \in Seq(Byte) /\ Len(SubSeq(data, 2, last)) = n
          /\ \A i \in 1..n : SubSeq(data, 2, last)[i] = data[m + i]
      BY <1>1, <1>12, <2>1, Slice
    <2> HIDE DEF read
    <2>5. \A i \in 1..Len(read) : read[i] = name[i]  BY <2>2, <2>3, <2>4
    <2>6. read \in Seq(Byte) /\ Len(read) = Len(name)  BY <2>3, <2>4 DEF n
    <2> QED  BY <2>5, <2>6, SameSequence
  <1>19. MinOf(data[1], MAX_NAME_LENGTH) = n /\ MinOf(data[32], MAX_MACRO_EVENTS) = k
    BY <1>1, <1>2, <1>13 DEF MinOf, MAX_NAME_LENGTH, MAX_MACRO_EVENTS
  <1>20. DecodeMacro(data) =
           [name   |-> Lossy[read],
            events |-> ValidOnes([i \in DOMAIN parts |-> DecodeMacroEvent(parts[i])])]
    BY <1>14, <1>17, <1>19 DEF DecodeMacro, EVENT_SIZE
  <1>21. Len(data) = 384
    <2>1. front \in Seq(Byte)  BY <1>3
    <2> DEFINE size == 5  total == 384
    <2>2. /\ size \in EntrySizes /\ total \in Nat /\ IsTable(parts, size)
          /\ Len(front) + size * Len(parts) <= total
      BY <1>7, <1>9, <1>10
    <2>3. data = Filled(front \o Flattened(parts, size), total)  BY <1>4
    <2> HIDE DEF size, total
    <2>4. Len(Filled(front \o Flattened(parts, size), total)) = total
      BY <2>1, <2>2, TableFilled
    <2> QED  BY <2>3, <2>4 DEF total
  <1> QED  BY <1>12, <1>15, <1>16, <1>18, <1>20, <1>21

\* At most 30 bytes of a name without a zero byte come back, read as text, and at most 70
\* events.
LEMMA MacroReadsBack ==
    ASSUME NEW macro, macro.name \in Seq(1..255), macro.events \in Seq(MacroEvent)
    PROVE  /\ DecodeMacro(EncodeMacro(macro)) =
                [name   |-> Lossy[SubSeq(macro.name, 1, MinOf(Len(macro.name), 30))],
                 events |-> SubSeq(macro.events, 1, MinOf(Len(macro.events), 70))]
           /\ EncodeMacro(macro) \in Seq(Byte) /\ Len(EncodeMacro(macro)) = 384
  <1> DEFINE X == 1..255
             all == macro.name  every == macro.events
             p == MinOf(Len(all), 30)  q == MinOf(Len(every), 70)
             name == SubSeq(all, 1, p)
             events == SubSeq(every, 1, q)
             data == MacroBytes(name, events)
  <1>1. all \in Seq(X) /\ every \in Seq(MacroEvent)  OBVIOUS
  <1>2. \A x \in X : x \in Byte /\ x # 0
    <2>1. \A x \in X : x \in Int /\ 1 <= x /\ x <= 255  OBVIOUS
    <2> HIDE DEF X
    <2> QED  BY <2>1, ByteIs
  <1>3. EncodeMacro(macro) = data
    BY DEF EncodeMacro, MacroBytes, MacroFront, EventParts, MAX_NAME_LENGTH,
           MAX_MACRO_EVENTS, EVENT_SIZE, MACRO_SLOT_SIZE
  <1> HIDE DEF all, every, X
  <1>4. Len(all) \in Nat /\ Len(every) \in Nat  BY <1>1, ElementsOf
  <1>5. p \in 0..Len(all) /\ p <= 30 /\ q \in 0..Len(every) /\ q <= 70  BY <1>4 DEF MinOf
  <1> HIDE DEF p, q
  <1>6. name \in Seq(X) /\ Len(name) = p  BY <1>1, <1>5, Prefix
  <1>7. events \in Seq(MacroEvent) /\ Len(events) = q  BY <1>1, <1>5, Prefix
  <1> HIDE DEF name, events
  <1>8. name \in Seq(Byte) /\ \A i \in 1..Len(name) : name[i] # 0
    <2>1. \A i \in 1..Len(name) : name[i] \in X  BY <1>6, ElementsOf
    <2>2. X \subseteq Byte  BY <1>2
    <2> QED  BY <1>2, <1>6, <2>1, <2>2
  <1>9. Len(name) <= 30 /\ Len(events) <= 70  BY <1>5, <1>6, <1>7
  <1>10. /\ DecodeMacro(data) = [name |-> Lossy[name], events |-> events]
         /\ data \in Seq(Byte) /\ Len(data) = 384
    BY <1>7, <1>8, <1>9, MacroIs
  <1> QED  BY <1>3, <1>10 DEF name, events, p, q, all, every
=============================================================================
