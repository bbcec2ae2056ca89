---------------------------- MODULE CodecsProofs ----------------------------
(***************************************************************************)
(* Proofs about Codecs: for every value a codec is called with, what was   *)
(* sent is what is read back; damage to any one byte of a key function or  *)
(* a packet, by any amount, is noticed, and an answer cut short is not     *)
(* misread; the battery's percentage follows its voltage.                  *)
(*                                                                         *)
(* The invariant (Inv) says where the bytes on the wire come from and that *)
(* what was decoded was decoded from them.  The rest is about operators:   *)
(* voltages, what one byte does to a sum, packets, answers, and for every  *)
(* kind of value one lemma that it reads back.  The lemmas on sums, tables *)
(* of events and the values themselves are in ConversionsProofs.           *)
(***************************************************************************)
EXTENDS Codecs, ConversionsProofs

-----------------------------------------------------------------------------
(* Voltages. *)

\* Division keeps the order.
LEMMA DivKeepsOrder ==
    ASSUME NEW a \in Nat, NEW b \in Nat, NEW d \in Nat \ {0}, a <= b
    PROVE  a \div d <= b \div d
  <1> DEFINE q == a \div d  r == b \div d
  <1>1. q \in Nat /\ r \in Nat /\ d * q <= a /\ b < d * r + d
    OBVIOUS
  <1>2. d * q < d * (r + 1)  BY <1>1
  <1> HIDE DEF q, r
  <1>3. ~(q >= r + 1)
    <2> SUFFICES ASSUME q >= r + 1 PROVE FALSE  OBVIOUS
    <2>1. PICK k \in Nat : q = r + 1 + k  BY <1>1
    <2>2. d * q = d * (r + 1) + d * k /\ d * k \in Nat  BY <1>1, <2>1
    <2> QED  BY <1>1, <1>2, <2>2
  <1> QED  BY <1>1, <1>3 DEF q, r

\* Half of the divisor more does not reach the next quotient: this is how the code rounds.
LEMMA DivOfMiddle ==
    ASSUME NEW p \in Nat, NEW d \in Nat \ {0}
    PROVE  (2 * p * d + d) \div (2 * d) = p
  <1>1. 2 * p * d + d = (2 * d) * p + d /\ d < 2 * d /\ 2 * d \in Nat /\ 2 * d > 0  OBVIOUS
  <1> QED  BY <1>1

\* The rows of the table, in the order of their voltages.
LEMMA Rows ==
    /\ TableEnd = 29
    /\ \A i \in 1..29 : Volt(i) \in Nat /\ Percent(i) \in Nat
    /\ \A i \in 2..29 : Volt(i - 1) < Volt(i) /\ Percent(i - 1) <= Percent(i)
  BY DEF TableEnd, Volt, Percent, CUSTOM_VOLTAGE_TABLE

\* Of two rows the later has the higher voltage, and no lower percentage.
LEMMA RowsAscend ==
    \A i, j \in 1..29 : i < j => Volt(i) < Volt(j) /\ Percent(i) <= Percent(j)
  BY DEF Volt, Percent, CUSTOM_VOLTAGE_TABLE

\* A voltage inside the table lies between two of its rows.
LEMMA RowExists ==
    ASSUME NEW mv \in Nat, Volt(1) < mv, mv <= Volt(29)
    PROVE  /\ RowFor(mv) \in 2..29
           /\ Volt(RowFor(mv) - 1) < mv /\ mv <= Volt(RowFor(mv))
  <1>1. \E i \in 2..29 : Volt(i - 1) < mv /\ mv <= Volt(i)
    BY DEF Volt, CUSTOM_VOLTAGE_TABLE
  <1> QED  BY <1>1, Rows DEF RowFor

\* Between two rows the percentage is between theirs, and follows the voltage.
LEMMA BetweenRows ==
    ASSUME NEW i \in 2..29, NEW mv \in Volt(i - 1)..Volt(i)
    PROVE  /\ Interpolated(mv, i) \in Percent(i - 1)..Percent(i)
           /\ \A lower \in Volt(i - 1)..mv : Interpolated(lower, i) <= Interpolated(mv, i)
           /\ Interpolated(Volt(i), i) = Percent(i)
  <1> DEFINE run  == Volt(i) - Volt(i - 1)
             rise == Percent(i) - Percent(i - 1)
             p    == Percent(i - 1)
             v    == Volt(i - 1)
             top(m) == 2 * p * run + 2 * (m - v) * rise + run
  <1>1. /\ run \in Nat \ {0} /\ rise \in Nat /\ p \in Nat /\ v \in Nat
        /\ Volt(i) = v + run /\ Percent(i) = p + rise
    <2>1. i - 1 \in 1..29 /\ i \in 1..29  OBVIOUS
    <2> QED  BY <2>1, Rows
  <1>2. \A m : Interpolated(m, i) = top(m) \div (2 * run)  BY DEF Interpolated
  <1> HIDE DEF run, rise, p, v
  <1>3. ASSUME NEW m \in v..(v + run)
        PROVE  top(m) \in Nat /\ top(v) <= top(m) /\ top(m) <= top(v + run)
    <2>1. PICK k \in 0..run : m = v + k  BY <1>1, <1>3
    <2>2. 2 * p * run \in Nat /\ (m - v) = k /\ (v - v) = 0 /\ (v + run) - v = run
      BY <1>1, <2>1
    <2>3. k * rise \in Nat /\ k * rise <= run * rise /\ run * rise \in Nat
      BY <1>1, <2>1
    <2>4. /\ top(m) = 2 * p * run + 2 * (k * rise) + run
          /\ top(v) = 2 * p * run + run
          /\ top(v + run) = 2 * p * run + 2 * (run * rise) + run
      BY <1>1, <2>2
    <2> QED  BY <1>1, <2>2, <2>3, <2>4
  <1>4. \A l, m \in v..(v + run) : l <= m => top(l) <= top(m)
    <2> SUFFICES ASSUME NEW l \in v..(v + run), NEW m \in v..(v + run), l <= m
                 PROVE  top(l) <= top(m)
      OBVIOUS
    <2>1. PICK j \in Nat, k \in Nat : l = v + j /\ m = v + j + k  BY <1>1
    <2>2. l - v = j /\ m - v = j + k  BY <1>1, <2>1
    <2>3. (j + k) * rise = j * rise + k * rise /\ k * rise \in Nat /\ j * rise \in Nat
      BY <1>1
    <2> QED  BY <1>1, <2>2, <2>3
  <1>5. top(v) \div (2 * run) = p /\ top(v + run) \div (2 * run) = p + rise
    <2>1. top(v) = 2 * p * run + run  BY <1>1
    <2>2. top(v + run) = 2 * (p + rise) * run + run  BY <1>1
    <2>3. \A q \in Nat : (2 * q * run + run) \div (2 * run) = q  BY <1>1, DivOfMiddle
    <2>4. p + rise \in Nat  BY <1>1
    <2> HIDE DEF top
    <2> QED  BY <1>1, <2>1, <2>2, <2>3, <2>4
  <1>6. \A l, m \in v..(v + run) : l <= m => top(l) \div (2 * run) <= top(m) \div (2 * run)
    <2>1. 2 * run \in Nat \ {0}  BY <1>1
    <2> HIDE DEF top
    <2> QED  BY <1>3, <1>4, <2>1, DivKeepsOrder
  <1>7. mv \in v..(v + run) /\ v \in v..(v + run) /\ v + run \in v..(v + run)  BY <1>1 DEF v
  <1>8. /\ top(v) \div (2 * run) <= top(mv) \div (2 * run)
        /\ top(mv) \div (2 * run) <= top(v + run) \div (2 * run)
    <2> HIDE DEF top
    <2> QED BY <1>1, <1>6, <1>7
  <1>9. top(mv) \div (2 * run) \in Nat
    <2> HIDE DEF top
    <2> QED BY <1>1, <1>3, <1>7
  <1>10. Interpolated(mv, i) \in p..(p + rise)
    <2> HIDE DEF top
    <2> QED BY <1>1, <1>2, <1>5, <1>8, <1>9
  <1>11. \A lower \in v..mv : Interpolated(lower, i) <= Interpolated(mv, i)
    <2> HIDE DEF top
    <2> QED BY <1>1, <1>2, <1>6, <1>7
  <1>12. Interpolated(Volt(i), i) = Percent(i)
    <2> HIDE DEF top
    <2> QED BY <1>1, <1>2, <1>5
  <1> QED  BY <1>1, <1>10, <1>11, <1>12 DEF p, v

\* Where a percentage may lie, row by row.
Between(mv, percentage) ==
    /\ percentage \in Nat
    /\ \A i \in 1..29 : /\ Volt(i) <= mv => Percent(i) <= percentage
                        /\ Volt(i) >= mv => percentage <= Percent(i)

\* The percentage of a voltage lies between those of the rows around it.
LEMMA TableIsBetween ==
    ASSUME NEW mv \in Nat
    PROVE  Between(mv, voltage_to_percentage_table(mv))
  <1>0. \A i \in 1..29 : Volt(i) \in Nat /\ Percent(i) \in Nat  BY Rows
  <1>1. CASE mv <= Volt(1)
    <2>1. voltage_to_percentage_table(mv) = Percent(1)  BY <1>1 DEF voltage_to_percentage_table
    <2>2. \A i \in 2..29 : mv < Volt(i) /\ Percent(1) <= Percent(i)  BY <1>0, <1>1, RowsAscend
    <2>3. \A i \in 1..29 : i = 1 \/ i \in 2..29  OBVIOUS
    <2> QED  BY <1>0, <1>1, <2>1, <2>2, <2>3 DEF Between
  <1>2. CASE mv > Volt(1) /\ mv >= Volt(29)
    <2>1. voltage_to_percentage_table(mv) = Percent(29)
      BY <1>0, <1>2, Rows DEF voltage_to_percentage_table
    <2>2. \A i \in 1..28 : Volt(i) < mv /\ Percent(i) <= Percent(29)  BY <1>0, <1>2, RowsAscend
    <2>3. \A i \in 1..29 : i = 29 \/ i \in 1..28  OBVIOUS
    <2> QED  BY <1>0, <1>2, <2>1, <2>2, <2>3 DEF Between
  <1>3. CASE mv > Volt(1) /\ mv < Volt(29)
    <2> DEFINE row == RowFor(mv)
    <2>1. voltage_to_percentage_table(mv) = Interpolated(mv, row)
      BY <1>0, <1>3, Rows DEF voltage_to_percentage_table
    <2>2. row \in 2..29 /\ Volt(row - 1) < mv /\ mv <= Volt(row)
      BY <1>0, <1>3, RowExists
    <2> HIDE DEF row
    <2>3. row - 1 \in 1..29 /\ row \in 1..29  BY <2>2
    <2>4. mv \in Volt(row - 1)..Volt(row)  BY <1>0, <2>2, <2>3
    <2>5. Interpolated(mv, row) \in Percent(row - 1)..Percent(row)  BY <2>2, <2>4, BetweenRows
    <2>6. ASSUME NEW i \in 1..29, Volt(i) <= mv PROVE Percent(i) <= Interpolated(mv, row)
      <3>1. CASE i <= row - 1
        <4>1. Percent(i) <= Percent(row - 1)  BY <1>0, <2>3, <3>1, RowsAscend
        <4> QED  BY <1>0, <2>3, <2>5, <4>1
      <3>2. CASE i >= row
        <4>1. Volt(row) <= Volt(i)  BY <1>0, <2>3, <3>2, RowsAscend
        <4>2. mv = Volt(i) /\ Volt(i) = Volt(row)  BY <1>0, <2>2, <2>3, <2>6, <4>1
        <4>3. i = row  BY <1>0, <2>3, <3>2, <4>2, RowsAscend
        <4>4. Percent(row) = Interpolated(Volt(row), row)  BY <2>2, <2>4, BetweenRows
        <4> QED  BY <1>0, <2>3, <4>2, <4>3, <4>4
      <3> QED  BY <2>2, <3>1, <3>2
    <2>7. ASSUME NEW i \in 1..29, Volt(i) >= mv PROVE Interpolated(mv, row) <= Percent(i)
      <3>1. CASE i <= row - 1
        <4>1. Volt(i) <= Volt(row - 1)  BY <1>0, <2>3, <3>1, RowsAscend
        <4> QED  BY <1>0, <2>2, <2>3, <2>7, <4>1
      <3>2. CASE i >= row
        <4>1. Percent(row) <= Percent(i)  BY <1>0, <2>3, <3>2, RowsAscend
        <4> QED  BY <1>0, <2>3, <2>5, <4>1
      <3> QED  BY <2>2, <3>1, <3>2
    <2>8. Interpolated(mv, row) \in Nat  BY <1>0, <2>3, <2>5
    <2> QED  BY <2>1, <2>6, <2>7, <2>8 DEF Between
  <1>4. mv <= Volt(1) \/ (mv > Volt(1) /\ mv >= Volt(29)) \/ (mv > Volt(1) /\ mv < Volt(29))
    BY <1>0
  <1> QED  BY <1>1, <1>2, <1>3, <1>4

\* The percentage never rises while the voltage falls.
LEMMA PercentageFalls ==
    ASSUME NEW mv \in Nat, NEW lower \in 0..mv
    PROVE  voltage_to_percentage_table(lower) <= voltage_to_percentage_table(mv)
  <1>0. \A i \in 1..29 : Volt(i) \in Nat /\ Percent(i) \in Nat  BY Rows
  <1>1. /\ Between(mv, voltage_to_percentage_table(mv))
        /\ Between(lower, voltage_to_percentage_table(lower))
    BY TableIsBetween
  <1>2. ASSUME NEW i \in 1..29, lower <= Volt(i), Volt(i) <= mv
        PROVE  voltage_to_percentage_table(lower) <= voltage_to_percentage_table(mv)
    <2>1. /\ voltage_to_percentage_table(lower) <= Percent(i)
          /\ Percent(i) <= voltage_to_percentage_table(mv)
      BY <1>0, <1>1, <1>2 DEF Between
    <2> QED  BY <1>0, <1>1, <2>1 DEF Between
  <1>3. CASE \A i \in 1..29 : ~(lower <= Volt(i) /\ Volt(i) <= mv)
    <2>1. CASE mv < Volt(1)
      <3>1. /\ voltage_to_percentage_table(mv) = Percent(1)
            /\ voltage_to_percentage_table(lower) = Percent(1)
        BY <1>0, <2>1 DEF voltage_to_percentage_table
      <3> QED  BY <1>0, <3>1
    <2>2. CASE lower > Volt(29)
      <3>1. /\ voltage_to_percentage_table(mv) = Percent(29)
            /\ voltage_to_percentage_table(lower) = Percent(29)
        BY <1>0, <2>2, Rows, RowsAscend DEF voltage_to_percentage_table
      <3> QED  BY <1>0, <3>1
    <2>3. CASE mv >= Volt(1) /\ lower <= Volt(29)
      <3>1. lower > Volt(1) /\ mv < Volt(29)  BY <1>0, <1>3, <2>3
      <3> DEFINE row == RowFor(mv)
      <3>2. row \in 2..29 /\ Volt(row - 1) < mv /\ mv <= Volt(row)
        BY <1>0, <3>1, RowExists
      <3>3. /\ voltage_to_percentage_table(mv) = Interpolated(mv, row)
            /\ voltage_to_percentage_table(lower) = Interpolated(lower, RowFor(lower))
        BY <1>0, <3>1, Rows DEF voltage_to_percentage_table
      <3>4. /\ RowFor(lower) \in 2..29
            /\ Volt(RowFor(lower) - 1) < lower /\ lower <= Volt(RowFor(lower))
        BY <1>0, <3>1, RowExists
      <3> HIDE DEF row
      <3>5. row - 1 \in 1..29 /\ row \in 1..29  BY <3>2
      <3>6. Volt(row - 1) < lower  BY <1>0, <1>3, <3>2, <3>5
      <3>7. RowFor(lower) = row
        <4> DEFINE other == RowFor(lower)
        <4>1. other \in 2..29 /\ Volt(other - 1) < lower /\ lower <= Volt(other)  BY <3>4
        <4> HIDE DEF other
        <4>2. other - 1 \in 1..29 /\ other \in 1..29  BY <4>1
        <4>3. ~(other <= row - 1)  BY <1>0, <3>5, <3>6, <4>1, <4>2, RowsAscend
        <4>4. ~(row <= other - 1)
          BY <1>0, <1>3, <3>2, <3>5, <4>1, <4>2, RowsAscend
        <4>5. other = row  BY <3>2, <4>1, <4>3, <4>4
        <4> QED  BY <4>5 DEF other
      <3>8. mv \in Volt(row - 1)..Volt(row) /\ lower \in Volt(row - 1)..mv
        BY <1>0, <3>2, <3>5, <3>6
      <3> QED  BY <3>2, <3>3, <3>7, <3>8, BetweenRows
    <2>4. mv < Volt(1) \/ lower > Volt(29) \/ (mv >= Volt(1) /\ lower <= Volt(29))  BY <1>0
    <2> QED  BY <2>1, <2>2, <2>3, <2>4
  <1> QED  BY <1>2, <1>3

-----------------------------------------------------------------------------
(* One damaged byte. *)

\* What may be added to a byte that is damaged.
Changes == 1..255

\* A damaged byte is another byte.
LEMMA DamageChangesByte ==
    ASSUME NEW x \in Byte, NEW d \in Changes
    PROVE  /\ (x + d) % 256 \in Byte
           /\ (x + d) % 256 # x
  <1>1. x \in Int /\ 0 <= x /\ x <= 255 /\ d \in Int /\ 1 <= d /\ d <= 255
    BY ByteIs DEF Changes
  <1> DEFINE y == (x + d) % 256
  <1>2. y \in Int /\ 0 <= y /\ y <= 255 /\ y # x  BY <1>1
  <1> HIDE DEF y
  <1>3. y \in Byte /\ y # x  BY <1>2, ByteIs
  <1> QED  BY <1>3 DEF y

\* One byte more or less gives another checksum.
LEMMA ComplementsDiffer ==
    ASSUME NEW a, NEW b, NEW N \in Nat, Len(a) = N, Len(b) = N, NEW i \in 1..N,
           AgreeBut(a, b, N, i), a[i] \in Byte, b[i] \in Byte, a[i] # b[i]
    PROVE  Complement(a) # Complement(b)
  <1>1. Total(a) \in Int /\ Total(b) \in Int /\ Total(b) - Total(a) = b[i] - a[i]
    BY TotalsCompared
  <1> DEFINE s == Total(a)  t == Total(b)  x == a[i]  y == b[i]
  <1>2. /\ x \in Int /\ 0 <= x /\ x <= 255
        /\ y \in Int /\ 0 <= y /\ y <= 255
        /\ x # y
    BY ByteIs
  <1>3. s \in Int /\ t \in Int /\ t - s = y - x  BY <1>1
  <1> HIDE DEF s, t, x, y
  <1>4. (85 - s) % 256 # (85 - t) % 256  BY <1>2, <1>3
  <1> QED  BY <1>4 DEF Complement, s, t

-----------------------------------------------------------------------------
(* Reports. *)

LEMMA ReportIs ==
    ASSUME NEW cmd \in Byte, NEW address \in Word, NEW data \in Seq(Byte), Len(data) <= 11
    PROVE  LET r == Report(cmd, address, data) IN
           /\ r \in Seq(Byte) /\ Len(r) = 17
           /\ r[1] = 8 /\ r[2] = cmd /\ r[3] = 0 /\ r[6] = Len(data)
           /\ \A i \in 1..Len(data) : r[6 + i] = data[i]
  <1> DEFINE front == <<8, cmd, 0, address \div 256, address % 256, Len(data)>>
             behind == Filled(data, 11)
  <1>1. address \div 256 \in Byte /\ address % 256 \in Byte  BY WordSplit
  <1>2. 8 \in Byte /\ 0 \in Byte /\ Len(data) \in Byte  BY ByteIs
  <1>3. front \in Seq(Byte) /\ Len(front) = 6  BY <1>1, <1>2
  <1>4. front[1] = 8 /\ front[2] = cmd /\ front[3] = 0 /\ front[6] = Len(data)  OBVIOUS
  <1>5. /\ behind \in Seq(Byte) /\ Len(behind) = 11
        /\ \A i \in 1..Len(data) : behind[i] = data[i]
    BY FilledIs
  <1>6. Report(cmd, address, data) = front \o behind  BY DEF Report, REPORT_ID
  <1> HIDE DEF front, behind
  <1>7. front \in Seq(Byte) /\ behind \in Seq(Byte)  BY <1>3, <1>5
  <1>8. /\ front \o behind \in Seq(Byte) /\ Len(front \o behind) = Len(front) + Len(behind)
        /\ \A i \in 1..Len(front) : (front \o behind)[i] = front[i]
        /\ \A i \in 1..Len(behind) : (front \o behind)[Len(front) + i] = behind[i]
    BY <1>7, Concatenated
  <1>9. Len(front) = 6 /\ Len(behind) = 11  BY <1>3, <1>5
  <1>10. Len(front \o behind) = 17  BY <1>8, <1>9
  <1>11. \A i \in 1..6 : (front \o behind)[i] = front[i]  BY <1>8, <1>9
  <1>12. \A i \in 1..Len(data) : (front \o behind)[6 + i] = data[i]
    <2> SUFFICES ASSUME NEW i \in 1..Len(data) PROVE (front \o behind)[6 + i] = data[i]
      OBVIOUS
    <2>1. i \in 1..Len(behind)  BY <1>9
    <2>2. (front \o behind)[Len(front) + i] = behind[i]  BY <1>8, <2>1
    <2>3. Len(front) + i = 6 + i  BY <1>9
    <2> QED  BY <1>5, <2>2, <2>3
  <1>13. 1 \in 1..6 /\ 2 \in 1..6 /\ 3 \in 1..6 /\ 6 \in 1..6  OBVIOUS
  <1> QED  BY <1>4, <1>6, <1>8, <1>10, <1>11, <1>12, <1>13

-----------------------------------------------------------------------------
(* The inductive invariant. *)

\* A value of the kind it says it is.
Typed(s) == s.kind \in Kinds /\ s \in [kind : {s.kind}, v : Sendable(s.kind)]

\* The bytes with one of them changed, as Damage does it.
WithDamage(bytes, i, d) == [bytes EXCEPT ![i] = (@ + d) % 256]

\* What is on the wire is what was sent, or that with one byte damaged, or cut short.
OnWire(s, bytes) ==
    \/ /\ s.kind \in Checked
       /\ \E i \in DOMAIN Encoded(s), d \in Changes :
            bytes = WithDamage(Encoded(s), i, d)
    \/ /\ s.kind = "answer"
       /\ \E n \in 1..16 : n < Len(Encoded(s)) /\ bytes = SubSeq(Encoded(s), 1, n)

\* The invariant: there is no damage before there are bytes; bytes that nothing befell are
\* those that were sent; what was decoded was decoded from the bytes on the wire.
Inv ==
    /\ Typed(subject)
    /\ wire = << >> => ~damaged /\ back = Nothing
    /\ wire # << >> /\ ~damaged => wire = Encoded(subject)
    /\ damaged \in BOOLEAN
    /\ damaged => OnWire(subject, wire)
    /\ back # Nothing => back = Decoded(subject, wire)

\* A key press makes a shortcut of a shortcut.
LEMMA PressesKeepType ==
    ASSUME Typed(subject), NEW press \in KeyPresses, AddPress(press)
    PROVE  Typed(subject')
  <1> DEFINE events == AddKeyPress(subject.v, press.type, press.code)
             new == Press(press.type, press.code)
  <1>1. subject.kind = "shortcut" /\ subject' = [subject EXCEPT !.v = events]  BY DEF AddPress
  <1>2. press.type \in ShortcutKeyType /\ press.code \in Word
    <2> KeyPresses \subseteq [type : ShortcutKeyType, code : Word]  BY SubjectsAssumption
    <2> QED  OBVIOUS
  <1>3. new \in Seq(ShortcutEvent) /\ Len(new) = 2
    BY <1>2 DEF Press, ShortcutEvent
  <1>4. Sendable("shortcut") = {s \in Seq(ShortcutEvent) : Len(s) <= 20}
    BY DEF Sendable
  <1>5. subject.v \in Seq(ShortcutEvent) /\ Len(subject.v) <= 20
    BY <1>1, <1>4 DEF Typed
  <1>6. events \in Seq(ShortcutEvent) /\ Len(events) <= 20
    <2>1. CASE Len(subject.v) + 2 <= 20
      <3>0. Len(subject.v) + 2 <= 2 * MAX_SHORTCUT_EVENTS
        BY <1>5, <2>1 DEF MAX_SHORTCUT_EVENTS
      <3>1. events = subject.v \o new  BY <3>0 DEF AddKeyPress
      <3> HIDE DEF events, new
      <3>2. subject.v \o new \in Seq(ShortcutEvent) /\ Len(subject.v \o new) = Len(subject.v) + 2
        <4>1. new \in Seq(ShortcutEvent) /\ subject.v \in Seq(ShortcutEvent)  BY <1>3, <1>5
        <4>2. Len(new) = 2  BY <1>3
        <4> HIDE DEF new
        <4>3. /\ subject.v \o new \in Seq(ShortcutEvent)
              /\ Len(subject.v \o new) = Len(subject.v) + Len(new)
          BY <4>1, Concatenated
        <4> QED  BY <4>2, <4>3
      <3>3. Len(subject.v) \in Nat  BY <1>5
      <3> QED  BY <2>1, <3>1, <3>2, <3>3
    <2>2. CASE ~(Len(subject.v) + 2 <= 20)
      <3>1. events = subject.v  BY <1>5, <2>2 DEF AddKeyPress, MAX_SHORTCUT_EVENTS
      <3> QED  BY <1>5, <3>1
    <2> QED  BY <2>1, <2>2
  <1> HIDE DEF events
  <1>7. subject \in [kind : {subject.kind}, v : Sendable(subject.kind)]  BY DEF Typed
  <1>8. subject'.kind = "shortcut" /\ subject' \in [kind : {"shortcut"}, v : Sendable("shortcut")]
    BY <1>1, <1>4, <1>6, <1>7
  <1>9. "shortcut" \in Kinds  BY DEF Kinds
  <1> QED  BY <1>8, <1>9 DEF Typed

\* The invariant holds.
THEOREM InvHolds == Spec => []Inv
  <1>1. Init => Inv
    <2> SUFFICES ASSUME Init PROVE Inv  OBVIOUS
    <2>1. Typed(subject)  BY SubjectsAssumption DEF Init, Typed
    <2> QED  BY <2>1 DEF Init, Inv
  <1>2. Inv /\ [Next]_vars => Inv'
    <2> SUFFICES ASSUME Inv, [Next]_vars PROVE Inv'  OBVIOUS
    <2>1. ASSUME NEW press \in KeyPresses, AddPress(press) PROVE Inv'
      <3>1. Typed(subject')  BY <2>1, PressesKeepType DEF Inv
      <3> QED  BY <2>1, <3>1 DEF AddPress, Inv
    <2>2. CASE Encode
      BY <2>2 DEF Encode, Inv
    <2>3. ASSUME NEW i \in 1..16, NEW d \in Damages, Damage(i, d) PROVE Inv'
      <3>1. wire # << >> /\ i \in DOMAIN wire  BY <2>3 DEF Damage
      <3>2. wire = Encoded(subject) /\ subject.kind \in Checked  BY <2>3, <3>1 DEF Damage, Inv
      <3>3. wire' = [wire EXCEPT ![i] = (@ + d) % 256] /\ d \in Changes
        BY <2>3, DamagesAssumption DEF Damage, Changes
      <3>4. subject' = subject /\ damaged' = TRUE /\ back' = back /\ back = Nothing
        BY <2>3 DEF Damage
      <3>5. /\ subject'.kind \in Checked
            /\ wire' = WithDamage(Encoded(subject'), i, d)
            /\ i \in DOMAIN Encoded(subject')
        BY <3>1, <3>2, <3>3, <3>4 DEF WithDamage
      <3>6. OnWire(subject', wire')  BY <3>3, <3>5 DEF OnWire
      <3>7. wire' # << >>  BY <3>1, <3>3
      <3>8. Typed(subject')  BY <3>4 DEF Inv
      <3> QED  BY <3>4, <3>6, <3>7, <3>8 DEF Inv
    <2>4. ASSUME NEW n \in 1..16, Cut(n) PROVE Inv'
      <3>1. subject.kind = "answer" /\ n < Len(wire) /\ wire' = SubSeq(wire, 1, n)  BY <2>4 DEF Cut
      <3>2. wire # << >>
        <4>1. Len(<< >>) = 0  OBVIOUS
        <4> QED  BY <3>1, <4>1
      <3>3. wire = Encoded(subject)  BY <2>4, <3>2 DEF Cut, Inv
      <3>4. OnWire(subject', wire')
        <4>1. subject' = subject  BY <2>4 DEF Cut
        <4>2. /\ subject'.kind = "answer" /\ n < Len(Encoded(subject'))
              /\ wire' = SubSeq(Encoded(subject'), 1, n)
          BY <3>1, <3>3, <4>1
        <4> QED  BY <4>2 DEF OnWire
      <3>5. wire' # << >>
        <4>1. Len(SubSeq(wire, 1, n)) = n  OBVIOUS
        <4>2. Len(<< >>) = 0  OBVIOUS
        <4> QED  BY <3>1, <4>1, <4>2
      <3> QED  BY <2>4, <3>4, <3>5 DEF Cut, Inv
    <2>5. CASE Decode
      <3>1. /\ subject' = subject /\ wire' = wire /\ damaged' = damaged
            /\ wire # << >> /\ back' = Decoded(subject, wire)
        BY <2>5 DEF Decode
      <3>2. Typed(subject')  BY <3>1 DEF Inv
      <3>3. damaged' => OnWire(subject', wire')  BY <3>1 DEF Inv
      <3>4. back' = Decoded(subject', wire')  BY <3>1
      <3>5. wire' # << >> /\ ~damaged' => wire' = Encoded(subject')  BY <3>1 DEF Inv
      <3> QED  BY <3>1, <3>2, <3>3, <3>4, <3>5 DEF Inv
    <2>6. CASE UNCHANGED vars
      <3>1. subject' = subject /\ wire' = wire /\ damaged' = damaged /\ back' = back
        BY <2>6 DEF vars
      <3>2. Typed(subject')  BY <3>1 DEF Inv
      <3>3. damaged' => OnWire(subject', wire')  BY <3>1 DEF Inv
      <3>4. back' # Nothing => back' = Decoded(subject', wire')  BY <3>1 DEF Inv
      <3>5. wire' # << >> /\ ~damaged' => wire' = Encoded(subject')  BY <3>1 DEF Inv
      <3> QED  BY <3>1, <3>2, <3>3, <3>4, <3>5 DEF Inv
    <2> QED  BY <2>1, <2>2, <2>3, <2>4, <2>5, <2>6 DEF Next
  <1> QED  BY <1>1, <1>2, PTL DEF Spec

-----------------------------------------------------------------------------
(* Voltages on the wire. *)

\* A value that no damage befalls arrives as it was sent.
LEMMA SafeOnWire ==
    ASSUME Inv, back # Nothing, subject.kind \notin Checked \cup {"answer"}
    PROVE  back = Decoded(subject, Encoded(subject))
  BY DEF Inv, OnWire

\* The percentage shown never rises while the voltage falls, and stays between the rows of
\* the table around the voltage (voltage_to_percentage_table).
THEOREM PercentFollowsVoltageCorrect == Spec => []PercentFollowsVoltage
  <1>1. Inv => PercentFollowsVoltage
    <2> SUFFICES ASSUME Inv, subject.kind = "voltage", back # Nothing
                 PROVE  /\ voltage_to_percentage_table(subject.v - 1) <= back
                        /\ \A i \in 1..TableEnd :
                             /\ Volt(i) <= subject.v => Percent(i) <= back
                             /\ Volt(i) >= subject.v => back <= Percent(i)
      BY DEF PercentFollowsVoltage
    <2> DEFINE mv == subject.v
    <2>1. mv \in Word
      <3>1. Sendable("voltage") = Word  BY DEF Sendable
      <3> QED  BY <3>1 DEF Inv, Typed
    <2>2. back = Decoded(subject, Encoded(subject))
      <3>1. "voltage" \notin Checked \cup {"answer"}  BY DEF Checked
      <3> QED  BY <3>1, SafeOnWire
    <2>3. Encoded(subject) = <<mv \div 256, mv % 256>>  BY DEF Encoded
    <2>4. back = voltage_to_percentage_table(256 * (mv \div 256) + (mv % 256))
      BY <2>2, <2>3 DEF Decoded
    <2> HIDE DEF mv
    <2>5. back = voltage_to_percentage_table(mv)  BY <2>1, <2>4, WordSplit
    <2>6. mv \in Nat  BY <2>1, WordIs
    <2>7. Between(mv, back)  BY <2>5, <2>6, TableIsBetween
    <2>8. voltage_to_percentage_table(mv - 1) <= back
      <3>1. CASE mv = 0
        <4>1. Volt(1) \in Nat /\ Percent(1) \in Nat  BY Rows
        <4>2. mv - 1 <= Volt(1) /\ mv <= Volt(1)  BY <3>1, <4>1
        <4>3. voltage_to_percentage_table(mv - 1) = Percent(1) /\ back = Percent(1)
          BY <2>5, <4>2 DEF voltage_to_percentage_table
        <4> QED  BY <4>1, <4>3
      <3>2. CASE mv # 0
        <4>1. mv - 1 \in 0..mv  BY <2>6, <3>2
        <4> QED  BY <2>5, <2>6, <4>1, PercentageFalls
      <3> QED  BY <3>1, <3>2
    <2> QED  BY <2>7, <2>8, Rows DEF Between, mv
  <1> QED  BY <1>1, InvHolds, PTL

-----------------------------------------------------------------------------
(* Key functions. *)

\* Bytes one of which is damaged.
LEMMA DamagedIs ==
    ASSUME NEW w \in Seq(Byte), NEW i \in 1..Len(w), NEW d \in Changes
    PROVE  /\ WithDamage(w, i, d) \in Seq(Byte) /\ Len(WithDamage(w, i, d)) = Len(w)
           /\ \A k \in 1..Len(w) : /\ WithDamage(w, i, d)[k] \in Byte
                                   /\ k # i => WithDamage(w, i, d)[k] = w[k]
           /\ WithDamage(w, i, d)[i] # w[i]
  <1> DEFINE y == (w[i] + d) % 256
             v == WithDamage(w, i, d)
  <1>1. y \in Byte /\ y # w[i]
    <2>1. w[i] \in Byte  OBVIOUS
    <2> QED  BY <2>1, DamageChangesByte
  <1>2. v = [w EXCEPT ![i] = y]  BY DEF WithDamage
  <1> HIDE DEF y, v
  <1>3. v \in Seq(Byte) /\ Len(v) = Len(w)  BY <1>1, <1>2
  <1>4. \A k \in 1..Len(w) : v[k] = IF k = i THEN y ELSE w[k]  BY <1>2
  <1> QED  BY <1>1, <1>3, <1>4 DEF v

\* The first m elements are bytes, and one of them is not the same.
Tampered(w, v, m, i) ==
    /\ \A k \in 1..m : v[k] \in Byte /\ w[k] \in Byte /\ (k # i => v[k] = w[k])
    /\ v[i] # w[i]

\* a and b go on from the first n elements of w and v with the same bytes.
Summed(a, w, b, v, n, N) ==
    /\ \A k \in 1..n : a[k] = w[k] /\ b[k] = v[k]
    /\ \A k \in (n + 1)..N : a[k] \in Byte /\ b[k] = a[k]

\* A checksum over the first n bytes does not survive damage to one of n + 1.
LEMMA Spoiled ==
    ASSUME NEW n \in Nat \ {0}, NEW w, NEW v, NEW i \in 1..(n + 1),
           Tampered(w, v, n + 1, i), NEW N \in Nat, n <= N, NEW a, NEW b, Len(a) = N, Len(b) = N,
           Summed(a, w, b, v, n, N), w[n + 1] = Complement(a)
    PROVE  v[n + 1] # Complement(b)
  <1>2. \A k \in 1..(n + 1) : v[k] \in Byte /\ w[k] \in Byte /\ (k # i => v[k] = w[k])
    BY DEF Tampered
  <1>3. v[i] # w[i]  BY DEF Tampered
  <1>4. \A k \in 1..n : a[k] = w[k] /\ b[k] = v[k]  BY DEF Summed
  <1>9. \A k \in (n + 1)..N : a[k] \in Byte /\ b[k] = a[k]  BY DEF Summed
  <1>5. \A k \in 1..N : k \in 1..n \/ k \in (n + 1)..N  OBVIOUS
  <1>6. \A k \in 1..n : k \in 1..(n + 1)  OBVIOUS
  <1>7. CASE i = n + 1
    <2>1. \A k \in 1..N : a[k] \in Byte /\ b[k] = a[k]
      <3>1. \A k \in 1..n : k # i  BY <1>7
      <3> QED  BY <1>2, <1>4, <1>5, <1>6, <1>9, <3>1
    <2>2. N \in Nat \ {0}  OBVIOUS
    <2>3. Complement(a) = Complement(b)  BY <2>1, <2>2, ComplementsAgree
    <2> QED  BY <1>3, <1>7, <2>3
  <1>8. CASE i # n + 1
    <2>1. i \in 1..n /\ i \in 1..N  BY <1>8
    <2>2. v[n + 1] = w[n + 1]
      <3>1. n + 1 \in 1..(n + 1)  OBVIOUS
      <3> QED  BY <1>2, <1>8, <3>1
    <2>3. a[i] \in Byte /\ b[i] \in Byte /\ a[i] # b[i]  BY <1>2, <1>3, <1>4, <1>6, <2>1
    <2>4. \A k \in 1..N : a[k] \in Byte /\ b[k] \in Byte /\ (k # i => a[k] = b[k])
      BY <1>2, <1>4, <1>5, <1>6, <1>9
    <2>5. AgreeBut(a, b, N, i)  BY <2>4, ByteIs DEF AgreeBut
    <2>6. Complement(a) # Complement(b)  BY <2>1, <2>3, <2>5, ComplementsDiffer
    <2> QED  BY <2>2, <2>6
  <1> QED  BY <1>7, <1>8

\* Bytes and their complement behind them.
LEMMA Guarded ==
    ASSUME NEW front \in Seq(Byte), Len(front) # 0
    PROVE  LET w == Append(front, Complement(front)) IN
           /\ w \in Seq(Byte) /\ Len(w) = Len(front) + 1
           /\ \A k \in 1..Len(front) : w[k] = front[k]
           /\ w[Len(front) + 1] = Complement(SubSeq(w, 1, Len(front)))
  <1> DEFINE w == Append(front, Complement(front))
             n == Len(front)
  <1>1. n \in Nat \ {0} /\ \A k \in 1..n : front[k] \in Byte  OBVIOUS
  <1>2. Complement(front) \in Byte
    <2> HIDE DEF n
    <2>1. \A k \in 1..n : front[k] \in Int  BY <1>1, ByteIs
    <2>2. Len(front) = n  BY DEF n
    <2> QED  BY <1>1, <2>1, <2>2, ComplementIsByte
  <1>3. /\ w \in Seq(Byte) /\ Len(w) = n + 1 /\ w[n + 1] = Complement(front)
        /\ \A k \in 1..n : w[k] = front[k]
    BY <1>2, Appended
  <1> HIDE DEF w, n
  <1>4. n \in 0..Len(w)  BY <1>1, <1>3
  <1>5. Len(SubSeq(w, 1, n)) = n /\ \A k \in 1..n : SubSeq(w, 1, n)[k] = w[k]
    BY <1>3, <1>4, Prefix
  <1>6. Len(front) = n  BY DEF n
  <1>7. \A k \in 1..n : front[k] \in Byte /\ SubSeq(w, 1, n)[k] = front[k]  BY <1>1, <1>3, <1>5
  <1>8. Complement(front) = Complement(SubSeq(w, 1, n))
    BY <1>1, <1>5, <1>6, <1>7, ComplementsAgree
  <1> QED  BY <1>3, <1>8 DEF w, n

\* The bytes of a key function.
LEMMA KeyIs ==
    ASSUME NEW key \in KeyFunction
    PROVE  /\ EncodeKey(key) \in Seq(Byte) /\ Len(EncodeKey(key)) = 4
           /\ EncodeKey(key)[1] = key.function_type
           /\ Halves(EncodeKey(key)[2], EncodeKey(key)[3]) = key.parameter
           /\ EncodeKey(key)[4] = Complement(SubSeq(EncodeKey(key), 1, 3))
  <1> DEFINE t == key.function_type  p == key.parameter
             high == p \div 256  low == p % 256
             front == <<t, high, low>>
             w == EncodeKey(key)
  <1>1. t \in KeyFunctionType /\ p \in Word  BY DEF KeyFunction
  <1>2. t \in Byte /\ high \in Byte /\ low \in Byte
    <2>1. t \in Byte  BY <1>1, ByteIs DEF KeyFunctionType
    <2> QED  BY <1>1, <2>1, WordSplit
  <1>3. 256 * high + low = p  BY <1>1, WordSplit
  <1>4. w = Append(front, Complement(front))  BY DEF EncodeKey
  <1> HIDE DEF t, p, high, low, w
  <1>5. front \in Seq(Byte) /\ Len(front) = 3  BY <1>2
  <1>6. front[1] = t /\ front[2] = high /\ front[3] = low  OBVIOUS
  <1> HIDE DEF front
  <1>7. /\ w \in Seq(Byte) /\ Len(w) = Len(front) + 1
        /\ \A k \in 1..Len(front) : w[k] = front[k]
        /\ w[Len(front) + 1] = Complement(SubSeq(w, 1, Len(front)))
    <2>1. front \in Seq(Byte) /\ Len(front) # 0  BY <1>5
    <2> QED  BY <1>4, <2>1, Guarded
  <1>8. Len(front) = 3  BY <1>5
  <1>9. Len(w) = 4 /\ w[4] = Complement(SubSeq(w, 1, 3))  BY <1>7, <1>8
  <1>10. w[1] = t /\ w[2] = high /\ w[3] = low
    <2>1. 1 \in 1..Len(front) /\ 2 \in 1..Len(front) /\ 3 \in 1..Len(front)  BY <1>8
    <2> QED  BY <1>6, <1>7, <2>1
  <1> QED  BY <1>3, <1>7, <1>9, <1>10 DEF Halves, w, t, p

\* A key function with a damaged byte is none (KeyFunction::decode).
LEMMA KeyDamage ==
    ASSUME NEW key \in KeyFunction, NEW i \in DOMAIN EncodeKey(key), NEW d \in Changes
    PROVE  DecodeKey(WithDamage(EncodeKey(key), i, d)) = Invalid
  <1> DEFINE w == EncodeKey(key)
             v == WithDamage(w, i, d)
             n == 3
  <1>1. n \in Nat \ {0}  OBVIOUS
  <1>2. w \in Seq(Byte) /\ Len(w) = n + 1 /\ w[n + 1] = Complement(SubSeq(w, 1, n))
    <2>1. n + 1 = 4  OBVIOUS
    <2> HIDE DEF n, w
    <2> QED  BY <2>1, KeyIs DEF n, w
  <1>3. v[4] # Complement(SubSeq(v, 1, 3)) => DecodeKey(v) = Invalid  BY DEF DecodeKey
  <1>4. n = 3 /\ n + 1 = 4  OBVIOUS
  <1> HIDE DEF n, w
  <1>5. i \in 1..Len(w) /\ i \in 1..(n + 1)  BY <1>2, ElementsOf DEF w
  <1>6. /\ v \in Seq(Byte) /\ Len(v) = Len(w) /\ v[i] # w[i]
        /\ \A k \in 1..Len(w) : v[k] \in Byte /\ (k # i => v[k] = w[k])
    BY <1>2, <1>5, DamagedIs
  <1> HIDE DEF v
  <1>7. \A k \in 1..Len(w) : w[k] \in Byte  BY <1>2, ElementsOf
  <1>8. Tampered(w, v, n + 1, i)  BY <1>2, <1>6, <1>7 DEF Tampered
  <1>9. n \in 0..Len(w) /\ n \in 0..Len(v) /\ (n + 1)..n = {}  BY <1>1, <1>2, <1>6
  <1>10. Len(SubSeq(w, 1, n)) = n /\ \A k \in 1..n : SubSeq(w, 1, n)[k] = w[k]
    BY <1>2, <1>9, Prefix
  <1>11. Len(SubSeq(v, 1, n)) = n /\ \A k \in 1..n : SubSeq(v, 1, n)[k] = v[k]
    BY <1>6, <1>9, Prefix
  <1>12. v[n + 1] # Complement(SubSeq(v, 1, n))
    <2> DEFINE a == SubSeq(w, 1, n)  b == SubSeq(v, 1, n)
    <2> HIDE DEF a, b
    <2>1. /\ Len(a) = n /\ Len(b) = n /\ n <= n /\ w[n + 1] = Complement(a)
          /\ Summed(a, w, b, v, n, n)
      BY <1>1, <1>2, <1>9, <1>10, <1>11 DEF a, b, Summed
    <2>2. n \in Nat \ {0} /\ n \in Nat  BY <1>1
    <2>3. i \in 1..(n + 1)  BY <1>5
    <2>4. v[n + 1] # Complement(b)  BY <1>8, <2>1, <2>2, <2>3, Spoiled
    <2> QED  BY <2>4 DEF b
  <1> QED  BY <1>3, <1>4, <1>12 DEF v, w

\* A key function decodes to what it was encoded from.
LEMMA KeyReadsBack ==
    ASSUME NEW key \in KeyFunction
    PROVE  DecodeKey(EncodeKey(key)) = key
  <1> DEFINE w == EncodeKey(key)
  <1>1. /\ w[1] = key.function_type /\ Halves(w[2], w[3]) = key.parameter
        /\ w[4] = Complement(SubSeq(w, 1, 3))
    BY KeyIs
  <1> HIDE DEF w
  <1>2. key.function_type \in KeyFunctionType  BY DEF KeyFunction
  <1>3. DecodeKey(w) = KeyFor(w[1], Halves(w[2], w[3]))  BY <1>1, <1>2 DEF DecodeKey
  <1>4. key = [function_type |-> key.function_type, parameter |-> key.parameter]
    BY DEF KeyFunction
  <1> QED  BY <1>1, <1>3, <1>4 DEF KeyFor, w

-----------------------------------------------------------------------------
(* Packets. *)

\* The data of a packet, filled up with zeros.
LEMMA PaddedIs ==
    ASSUME NEW data \in Seq(Byte)
    PROVE  /\ Padded(data) \in Seq(Byte) /\ Len(Padded(data)) = 10
           /\ \A k \in 1..Len(Padded(data)) : k <= Len(data) => Padded(data)[k] = data[k]
           /\ \A k \in 1..Len(Padded(data)) : k > Len(data) => Padded(data)[k] = 0
  <1> DEFINE m == 10
             byte(k) == IF k <= Len(data) THEN data[k] ELSE 0
             p == Padded(data)
  <1>1. m \in Nat /\ m = 10  OBVIOUS
  <1>2. p = [k \in 1..m |-> byte(k)]  BY DEF Padded
  <1>3. Len(data) \in Nat /\ \A k \in 1..Len(data) : data[k] \in Byte  BY ElementsOf
  <1>4. 0 \in Byte  BY ByteIs
  <1> HIDE DEF m
  <1>5. \A k \in 1..m : byte(k) \in Byte
    <2>1. \A k \in 1..m : k <= Len(data) => k \in 1..Len(data)  BY <1>1, <1>3
    <2> QED  BY <1>3, <1>4, <2>1
  <1> HIDE DEF p
  <1>6. \A k \in 1..m : p[k] = IF k <= Len(data) THEN data[k] ELSE 0  BY <1>2
  <1> HIDE DEF byte
  <1>7. p \in Seq(Byte) /\ Len(p) = m  BY <1>1, <1>2, <1>5
  <1>8. \A k \in 1..Len(p) : k <= Len(data) => p[k] = data[k]  BY <1>6, <1>7
  <1>9. \A k \in 1..Len(p) : k > Len(data) => p[k] = 0
    <2>1. \A k \in 1..m : k > Len(data) => ~(k <= Len(data))  BY <1>1, <1>3
    <2> QED  BY <1>6, <1>7, <2>1
  <1> QED  BY <1>1, <1>7, <1>8, <1>9 DEF p

\* What a packet carries, and where.
LEMMA PacketIs ==
    ASSUME NEW cmd \in Byte, NEW address \in Word, NEW length \in Byte, NEW data \in Seq(Byte)
    PROVE  LET w == Packet(cmd, address, length, data) IN
           /\ w \in Seq(Byte) /\ Len(w) = 16
           /\ w[1] = cmd /\ PacketAddress(w) = address /\ w[5] = length
           /\ \A k \in 1..Len(Padded(data)) : w[5 + k] = Padded(data)[k]
           /\ verify_response_checksum(w)
  <1> DEFINE high == address \div 256  low == address % 256
             front == <<cmd, 0, high, low, length>>
             padded == Padded(data)
             body == front \o padded
             sum == calculate_checksum(body)
             w == Packet(cmd, address, length, data)
  <1>1. high \in Byte /\ low \in Byte /\ 0 \in Byte /\ 256 * high + low = address
    <2>1. 0 \in Byte  BY ByteIs
    <2>2. high \in Byte /\ low \in Byte  BY WordSplit
    <2>3. 256 * high + low = address  BY WordSplit
    <2> QED  BY <2>1, <2>2, <2>3
  <1>2. w = Append(body, sum)  BY DEF Packet
  <1> HIDE DEF w, high, low
  <1>3. front \in Seq(Byte) /\ Len(front) = 5  BY <1>1
  <1>4. front[1] = cmd /\ front[3] = high /\ front[4] = low /\ front[5] = length  OBVIOUS
  <1>5. padded \in Seq(Byte) /\ Len(padded) = 10  BY PaddedIs
  <1> HIDE DEF front, padded
  <1>6. front \in Seq(Byte) /\ padded \in Seq(Byte)  BY <1>3, <1>5
  <1>7. /\ body \in Seq(Byte) /\ Len(body) = Len(front) + Len(padded)
        /\ \A k \in 1..Len(front) : body[k] = front[k]
        /\ \A k \in 1..Len(padded) : body[Len(front) + k] = padded[k]
    BY <1>6, Concatenated
  <1> HIDE DEF body
  <1> DEFINE n == Len(body)
             guarded == Append(body, REPORT_ID)
  <1>8. REPORT_ID \in Byte  BY ByteIs DEF REPORT_ID
  <1>9. /\ guarded \in Seq(Byte) /\ Len(guarded) = n + 1
        /\ \A k \in 1..n : guarded[k] = body[k]
        /\ guarded[n + 1] = REPORT_ID
    BY <1>7, <1>8, Appended
  <1>10. sum = Complement(guarded)  BY DEF calculate_checksum
  <1>11. n \in Nat /\ n = 15
    <2>1. Len(front) = 5 /\ Len(padded) = 10  BY <1>3, <1>5
    <2> QED  BY <1>7, <2>1
  <1> HIDE DEF sum, guarded
  <1>12. \A k \in 1..Len(guarded) : guarded[k] \in Byte  BY <1>9, ElementsOf
  <1>13. sum \in Byte
    <2>1. \A k \in 1..Len(guarded) : guarded[k] \in Int  BY <1>12, ByteIs
    <2>2. Len(guarded) \in Nat \ {0}  BY <1>9, <1>11
    <2> QED  BY <1>10, <2>1, <2>2, ComplementIsByte
  <1>14. /\ w \in Seq(Byte) /\ Len(w) = n + 1 /\ w[n + 1] = sum
         /\ \A k \in 1..n : w[k] = body[k]
    BY <1>2, <1>7, <1>13, Appended
  <1> DEFINE s == SubSeq(w, 1, n)
             again == Append(s, REPORT_ID)
  <1> HIDE DEF n
  <1>15. s \in Seq(Byte) /\ Len(s) = n /\ \A k \in 1..n : s[k] = w[k]
    <2>1. n \in 0..Len(w)  BY <1>11, <1>14
    <2> QED  BY <1>14, <2>1, Prefix
  <1> HIDE DEF s
  <1>16. /\ Len(again) = Len(s) + 1 /\ again[Len(s) + 1] = REPORT_ID
         /\ \A k \in 1..Len(s) : again[k] = s[k]
    BY <1>8, <1>15, Appended
  <1> HIDE DEF again
  <1>17. Complement(guarded) = Complement(again)
    <2> DEFINE N == n + 1
    <2>1. N \in Nat \ {0} /\ \A k \in 1..N : k = n + 1 \/ k \in 1..n  BY <1>11
    <2>2. Len(guarded) = N /\ Len(again) = N  BY <1>9, <1>15, <1>16
    <2>3. again[n + 1] = REPORT_ID /\ \A k \in 1..n : again[k] = body[k]
      BY <1>14, <1>15, <1>16
    <2>4. N = n + 1  OBVIOUS
    <2> HIDE DEF N
    <2>5. \A k \in 1..N : guarded[k] \in Byte /\ again[k] = guarded[k]
      BY <1>9, <1>12, <2>1, <2>2, <2>3
    <2> QED  BY <2>1, <2>2, <2>5, ComplementsAgree
  <1>18. verify_response_checksum(w)
    <2>1. w[n + 1] = calculate_checksum(s)
      BY <1>10, <1>14, <1>17 DEF calculate_checksum, again
    <2>2. Len(w) >= 16 /\ n + 1 = 16 /\ n = 15  BY <1>11, <1>14
    <2> QED  BY <2>1, <2>2 DEF verify_response_checksum, s
  <1>19. w[1] = cmd /\ w[3] = high /\ w[4] = low /\ w[5] = length
    <2>1. Len(front) = 5  BY <1>3
    <2>2. \A k \in 1..Len(front) : k \in 1..n  BY <1>11, <2>1
    <2>3. \A k \in 1..Len(front) : w[k] = front[k]  BY <1>7, <1>14, <2>2
    <2>4. 1 \in 1..Len(front) /\ 3 \in 1..Len(front) /\ 4 \in 1..Len(front)
          /\ 5 \in 1..Len(front)
      BY <2>1
    <2> QED  BY <1>4, <2>3, <2>4
  <1>20. PacketAddress(w) = address  BY <1>1, <1>19 DEF PacketAddress
  <1>21. \A k \in 1..Len(padded) : w[5 + k] = padded[k]
    <2>1. Len(front) = 5 /\ Len(padded) = 10  BY <1>3, <1>5
    <2>2. \A k \in 1..Len(padded) : Len(front) + k \in 1..n  BY <1>11, <2>1
    <2>3. \A k \in 1..Len(padded) : w[Len(front) + k] = padded[k]  BY <1>7, <1>14, <2>2
    <2> QED  BY <2>1, <2>3
  <1>22. Len(w) = 16  BY <1>11, <1>14
  <1> QED  BY <1>14, <1>18, <1>19, <1>20, <1>21, <1>22 DEF w, padded

\* The fields of a packet.
PacketType(p) ==
    /\ p.cmd \in Byte /\ p.address \in Word /\ p.length \in 0..10 /\ p.data \in Seq(Byte)
    /\ p = [cmd |-> p.cmd, address |-> p.address, length |-> p.length, data |-> p.data]

\* A packet with p's command, address and length, and at least as much of its data.
Carries(w, p) ==
    \E data \in Seq(Byte) : /\ w = Packet(p.cmd, p.address, p.length, data)
                            /\ \A k \in 1..p.length : Padded(data)[k] = Padded(p.data)[k]

\* The commands that carry nothing.
SimpleCommands ==
    {CMD_STATUS, CMD_BATTERY, CMD_GET_PAIR_STATE, CMD_CLEAR_SETTING,
     CMD_GET_CURRENT_CONFIG, CMD_READ_VERSION, CMD_GET_LONG_RANGE, CMD_DONGLE_VERSION}

\* The commands of the packets that are built.
Commands ==
    {CMD_WRITE_FLASH, CMD_READ_FLASH, CMD_SET_LONG_RANGE, CMD_CONFIG_FLAGS,
     CMD_SET_CURRENT_CONFIG, CMD_DEVICE_INFO, CMD_DONGLE_ENTER_PAIR} \cup SimpleCommands

\* Commands and zero are bytes.
LEMMA CommandsAreBytes == Commands \subseteq Byte
  BY ByteIs DEF Commands, SimpleCommands, CMD_WRITE_FLASH, CMD_READ_FLASH, CMD_SET_LONG_RANGE,
     CMD_CONFIG_FLAGS, CMD_SET_CURRENT_CONFIG, CMD_DEVICE_INFO, CMD_DONGLE_ENTER_PAIR,
     CMD_STATUS, CMD_BATTERY, CMD_GET_PAIR_STATE, CMD_CLEAR_SETTING, CMD_GET_CURRENT_CONFIG,
     CMD_READ_VERSION, CMD_GET_LONG_RANGE, CMD_DONGLE_VERSION

LEMMA ZeroWord == 0 \in Word /\ 0 \in Byte
  BY WordIs, ByteIs

\* A packet built from the data itself.
LEMMA CarriesItsData ==
    ASSUME NEW p, PacketType(p), NEW w, w = Packet(p.cmd, p.address, p.length, p.data)
    PROVE  Carries(w, p)
  BY DEF PacketType, Carries

\* Which builder is used.
LEMMA Builders ==
    ASSUME NEW p
    PROVE  /\ p.cmd = CMD_WRITE_FLASH /\ Len(p.data) = 2 =>
                Built(p) = build_memory_write(p.address, p.data[1])
           /\ p.cmd = CMD_WRITE_FLASH /\ Len(p.data) # 2 =>
                Built(p) = build_flash_write(p.address, p.data)
           /\ p.cmd = CMD_READ_FLASH => Built(p) = build_memory_read(p.address, p.length)
           /\ p.cmd = CMD_SET_LONG_RANGE => Built(p) = build_set_long_range_cmd(p.data[1] = 1)
           /\ p.cmd = CMD_SET_CURRENT_CONFIG =>
                Built(p) = build_set_current_config_cmd(p.data[1])
           /\ p.cmd = CMD_CONFIG_FLAGS => Built(p) = build_pc_driver_status_cmd(p.data[1] = 1)
           /\ p.cmd = CMD_DEVICE_INFO => Built(p) = build_handshake_cmd(p.data)
           /\ p.cmd = CMD_DONGLE_ENTER_PAIR => Built(p) = build_dongle_enter_pair_cmd
           /\ p.cmd \in SimpleCommands => Built(p) = build_simple_command(p.cmd)
  <1>1. ASSUME p.cmd = CMD_WRITE_FLASH, Len(p.data) = 2
        PROVE  Built(p) = build_memory_write(p.address, p.data[1])
    BY <1>1 DEF Built, CMD_WRITE_FLASH, CMD_READ_FLASH,
         CMD_SET_LONG_RANGE, CMD_CONFIG_FLAGS, CMD_SET_CURRENT_CONFIG, CMD_DEVICE_INFO,
         CMD_DONGLE_ENTER_PAIR
  <1>2. ASSUME p.cmd = CMD_WRITE_FLASH, Len(p.data) # 2
        PROVE  Built(p) = build_flash_write(p.address, p.data)
    BY <1>2 DEF Built, CMD_WRITE_FLASH, CMD_READ_FLASH,
         CMD_SET_LONG_RANGE, CMD_CONFIG_FLAGS, CMD_SET_CURRENT_CONFIG, CMD_DEVICE_INFO,
         CMD_DONGLE_ENTER_PAIR
  <1>3. ASSUME p.cmd = CMD_READ_FLASH
        PROVE  Built(p) = build_memory_read(p.address, p.length)
    BY <1>3 DEF Built, CMD_WRITE_FLASH, CMD_READ_FLASH,
         CMD_SET_LONG_RANGE, CMD_CONFIG_FLAGS, CMD_SET_CURRENT_CONFIG, CMD_DEVICE_INFO,
         CMD_DONGLE_ENTER_PAIR
  <1>4. ASSUME p.cmd = CMD_SET_LONG_RANGE
        PROVE  Built(p) = build_set_long_range_cmd(p.data[1] = 1)
    BY <1>4 DEF Built, CMD_WRITE_FLASH, CMD_READ_FLASH,
         CMD_SET_LONG_RANGE, CMD_CONFIG_FLAGS, CMD_SET_CURRENT_CONFIG, CMD_DEVICE_INFO,
         CMD_DONGLE_ENTER_PAIR
  <1>5. ASSUME p.cmd = CMD_SET_CURRENT_CONFIG
        PROVE  Built(p) = build_set_current_config_cmd(p.data[1])
    BY <1>5 DEF Built, CMD_WRITE_FLASH, CMD_READ_FLASH,
         CMD_SET_LONG_RANGE, CMD_CONFIG_FLAGS, CMD_SET_CURRENT_CONFIG, CMD_DEVICE_INFO,
         CMD_DONGLE_ENTER_PAIR
  <1>6. ASSUME p.cmd = CMD_CONFIG_FLAGS
        PROVE  Built(p) = build_pc_driver_status_cmd(p.data[1] = 1)
    BY <1>6 DEF Built, CMD_WRITE_FLASH, CMD_READ_FLASH,
         CMD_SET_LONG_RANGE, CMD_CONFIG_FLAGS, CMD_SET_CURRENT_CONFIG, CMD_DEVICE_INFO,
         CMD_DONGLE_ENTER_PAIR
  <1>7. ASSUME p.cmd = CMD_DEVICE_INFO PROVE Built(p) = build_handshake_cmd(p.data)
    BY <1>7 DEF Built, CMD_WRITE_FLASH, CMD_READ_FLASH,
         CMD_SET_LONG_RANGE, CMD_CONFIG_FLAGS, CMD_SET_CURRENT_CONFIG, CMD_DEVICE_INFO,
         CMD_DONGLE_ENTER_PAIR
  <1>8. ASSUME p.cmd = CMD_DONGLE_ENTER_PAIR PROVE Built(p) = build_dongle_enter_pair_cmd
    BY <1>8 DEF Built, CMD_WRITE_FLASH, CMD_READ_FLASH,
         CMD_SET_LONG_RANGE, CMD_CONFIG_FLAGS, CMD_SET_CURRENT_CONFIG, CMD_DEVICE_INFO,
         CMD_DONGLE_ENTER_PAIR
  <1>9. ASSUME p.cmd \in SimpleCommands PROVE Built(p) = build_simple_command(p.cmd)
    BY <1>9 DEF Built, SimpleCommands, CMD_WRITE_FLASH, CMD_READ_FLASH,
         CMD_SET_LONG_RANGE, CMD_CONFIG_FLAGS, CMD_SET_CURRENT_CONFIG, CMD_DEVICE_INFO,
         CMD_DONGLE_ENTER_PAIR, CMD_STATUS, CMD_BATTERY,
       CMD_GET_PAIR_STATE, CMD_CLEAR_SETTING, CMD_GET_CURRENT_CONFIG, CMD_READ_VERSION,
       CMD_GET_LONG_RANGE, CMD_DONGLE_VERSION
  <1> QED  BY <1>1, <1>2, <1>3, <1>4, <1>5, <1>6, <1>7, <1>8, <1>9

\* Each builder builds the packet that its arguments describe: writes to the memory, ...
LEMMA WriteIs ==
    ASSUME NEW p \in [cmd : {CMD_WRITE_FLASH}, address : Word, length : 0..10,
                      data : Seq(Byte)],
           p.length = MinOf(Len(p.data), 10),
           Len(p.data) = 2 => p.data[2] = calculate_data_checksum(p.data[1])
    PROVE  PacketType(p) /\ Carries(Built(p), p)
  <1> DEFINE d == p.data
  <1>1. p.cmd = CMD_WRITE_FLASH /\ p.address \in Word /\ p.length \in 0..10 /\ d \in Seq(Byte)
    OBVIOUS
  <1>2. CMD_WRITE_FLASH \in Byte  BY CommandsAreBytes DEF Commands
  <1>3. PacketType(p)  BY <1>1, <1>2 DEF PacketType
  <1>4. CASE Len(d) = 2
    <2> DEFINE written == <<d[1], calculate_data_checksum(d[1])>>
    <2>1. Built(p) = Packet(CMD_WRITE_FLASH, p.address, 2, written)
      BY <1>1, <1>4, Builders DEF build_memory_write
    <2>2. p.length = 2  BY <1>4 DEF MinOf
    <2>3. d = written
      <3>1. written[1] = d[1] /\ written[2] = d[2]  BY <1>4
      <3>2. written \in Seq({d[1], d[2]}) /\ Len(written) = 2  BY <1>4
      <3> QED  BY <1>1, <1>4
    <2> HIDE DEF written
    <2> QED  BY <1>1, <1>3, <2>1, <2>2, <2>3, CarriesItsData
  <1>5. CASE Len(d) # 2
    <2> DEFINE n == IF Len(d) < 10 THEN Len(d) ELSE 10
               sent == SubSeq(d, 1, n)
    <2>1. Built(p) = Packet(CMD_WRITE_FLASH, p.address, n, sent)
      BY <1>1, <1>5, Builders DEF build_flash_write
    <2>2. Len(d) \in Nat  BY <1>1
    <2>3. p.length = n /\ n \in 0..Len(d) /\ n <= 10  BY <2>2 DEF MinOf
    <2> HIDE DEF n
    <2>4. sent \in Seq(Byte) /\ Len(sent) = n /\ \A k \in 1..n : sent[k] = d[k]
      BY <1>1, <2>3, Prefix
    <2> HIDE DEF sent
    <2>5. ASSUME NEW k \in 1..n PROVE Padded(sent)[k] = Padded(d)[k]
      <3>1. k <= Len(sent) /\ k <= Len(d)  BY <2>2, <2>3, <2>4
      <3>2. Len(Padded(sent)) = 10 /\ Len(Padded(d)) = 10  BY <1>1, <2>4, PaddedIs
      <3>3. k \in 1..Len(Padded(sent)) /\ k \in 1..Len(Padded(d))  BY <2>2, <2>3, <3>2
      <3>4. Padded(sent)[k] = sent[k]  BY <2>4, <3>1, <3>3, PaddedIs
      <3>5. Padded(d)[k] = d[k]  BY <1>1, <3>1, <3>3, PaddedIs
      <3> QED  BY <2>4, <3>4, <3>5
    <2>6. \A k \in 1..p.length : Padded(sent)[k] = Padded(p.data)[k]  BY <2>3, <2>5
    <2>7. Built(p) = Packet(p.cmd, p.address, p.length, sent)  BY <1>1, <2>1, <2>3
    <2> QED  BY <1>3, <2>4, <2>6, <2>7 DEF Carries
  <1> QED  BY <1>4, <1>5

\* ... switches, ...
LEMMA FlagsAreBytes ==
    \A x \in {0, 1} : /\ <<x>> \in Seq(Byte) /\ x \in Byte
                      /\ <<Flag(x = 1)>> = <<x>>
  <1>1. 0 \in Byte /\ 1 \in Byte  BY ByteIs
  <1>2. \A x \in {0, 1} : x \in Byte  BY <1>1
  <1>3. \A x \in Byte : <<x>> \in Seq(Byte)  OBVIOUS
  <1>4. \A x \in {0, 1} : Flag(x = 1) = x  BY DEF Flag
  <1> QED  BY <1>2, <1>3, <1>4

\* Packets whose data is all there is.
LEMMA PlainIs ==
    ASSUME NEW cmd \in Commands, NEW n \in 0..10, NEW address \in Word, NEW data \in Seq(Byte),
           NEW p, p = [cmd |-> cmd, address |-> address, length |-> n, data |-> data]
    PROVE  /\ PacketType(p)
           /\ \A w : w = Packet(cmd, address, n, data) => Carries(w, p)
  <1>1. PacketType(p)  BY CommandsAreBytes DEF PacketType
  <1> QED  BY <1>1, CarriesItsData

\* ... reads of the memory, ...
LEMMA ReadIs ==
    ASSUME NEW p \in [cmd : {CMD_READ_FLASH}, address : Word, length : 0..10, data : {<< >>}]
    PROVE  PacketType(p) /\ Carries(Built(p), p)
  <1>1. /\ p = [cmd |-> CMD_READ_FLASH, address |-> p.address, length |-> p.length,
                data |-> << >>]
        /\ p.cmd = CMD_READ_FLASH /\ p.address \in Word /\ p.length \in 0..10
    OBVIOUS
  <1>2. << >> \in Seq(Byte) /\ CMD_READ_FLASH \in Commands  BY DEF Commands
  <1>3. Built(p) = Packet(CMD_READ_FLASH, p.address, p.length, << >>)
    BY <1>1, Builders DEF build_memory_read, build_command
  <1> QED  BY <1>1, <1>2, <1>3, PlainIs

LEMMA SwitchIs ==
    ASSUME NEW cmd \in {CMD_SET_LONG_RANGE, CMD_CONFIG_FLAGS}, NEW n \in 0..10,
           n = IF cmd = CMD_SET_LONG_RANGE THEN 10 ELSE 1,
           NEW p \in [cmd : {cmd}, address : {0}, length : {n}, data : {<< 0 >>, << 1 >>}]
    PROVE  PacketType(p) /\ Carries(Built(p), p)
  <1>1. PICK x \in {0, 1} : p.data = <<x>>  OBVIOUS
  <1>2. p = [cmd |-> cmd, address |-> 0, length |-> n, data |-> <<x>>] /\ p.cmd = cmd
    BY <1>1
  <1>3. <<x>> \in Seq(Byte) /\ <<Flag(x = 1)>> = <<x>>  BY FlagsAreBytes
  <1>4. p.data[1] = x  BY <1>1
  <1>5. Built(p) = Packet(cmd, 0, n, <<Flag(x = 1)>>)
    <2>1. CASE cmd = CMD_SET_LONG_RANGE
      <3>1. Built(p) = build_set_long_range_cmd(x = 1)  BY <1>2, <1>4, <2>1, Builders
      <3> QED  BY <2>1, <3>1 DEF build_set_long_range_cmd
    <2>2. CASE cmd = CMD_CONFIG_FLAGS
      <3>1. Built(p) = build_pc_driver_status_cmd(x = 1)  BY <1>2, <1>4, <2>2, Builders
      <3>2. n = 1  BY <2>2 DEF CMD_CONFIG_FLAGS, CMD_SET_LONG_RANGE
      <3> QED  BY <2>2, <3>1, <3>2 DEF build_pc_driver_status_cmd
    <2> QED  BY <2>1, <2>2
  <1>6. cmd \in Commands  BY DEF Commands
  <1>7. Built(p) = Packet(cmd, 0, n, <<x>>)  BY <1>3, <1>5
  <1> DEFINE d == <<x>>
  <1>8. /\ d \in Seq(Byte) /\ Built(p) = Packet(cmd, 0, n, d)
        /\ p = [cmd |-> cmd, address |-> 0, length |-> n, data |-> d]
    BY <1>2, <1>3, <1>7
  <1> HIDE DEF d
  <1> QED  BY <1>6, <1>8, PlainIs, ZeroWord

\* ... the choice of an on-board profile, ...
LEMMA ChooseConfigIs ==
    ASSUME NEW p \in [cmd : {CMD_SET_CURRENT_CONFIG}, address : {0}, length : {1},
                      data : [1..1 -> Byte]]
    PROVE  PacketType(p) /\ Carries(Built(p), p)
  <1> DEFINE x == p.data[1]
  <1>1. x \in Byte /\ p.data = <<x>>
    <2>1. p.data \in [1..1 -> Byte] /\ 1 \in 1..1  OBVIOUS
    <2>2. p.data = [i \in 1..1 |-> p.data[i]]  BY <2>1
    <2> QED  BY <2>1, <2>2
  <1>2. p.cmd = CMD_SET_CURRENT_CONFIG /\ p.address = 0 /\ p.length = 1  OBVIOUS
  <1>3. p = [cmd |-> CMD_SET_CURRENT_CONFIG, address |-> 0, length |-> 1, data |-> <<x>>]
    BY <1>1, <1>2
  <1>4. Built(p) = Packet(CMD_SET_CURRENT_CONFIG, 0, 1, <<x>>)
    BY <1>2, Builders DEF build_set_current_config_cmd
  <1> HIDE DEF x
  <1>5. <<x>> \in Seq(Byte)  BY <1>1
  <1>6. CMD_SET_CURRENT_CONFIG \in Commands /\ 1 \in 0..10  BY DEF Commands
  <1> QED  BY <1>3, <1>4, <1>5, <1>6, PlainIs, ZeroWord

\* ... the handshake, ...
LEMMA HandshakeIs ==
    ASSUME NEW p \in [cmd : {CMD_DEVICE_INFO}, address : {0}, length : {8},
                      data : [1..4 -> Byte]]
    PROVE  PacketType(p) /\ Carries(Built(p), p)
  <1>1. /\ p.cmd = CMD_DEVICE_INFO /\ p.address = 0 /\ p.length = 8
        /\ p = [cmd |-> CMD_DEVICE_INFO, address |-> 0, length |-> 8, data |-> p.data]
    OBVIOUS
  <1>2. p.data \in Seq(Byte)
    <2> DEFINE m == 4
    <2>1. p.data \in [1..m -> Byte] /\ m \in Nat  OBVIOUS
    <2> HIDE DEF m
    <2> QED  BY <2>1
  <1>3. Built(p) = Packet(CMD_DEVICE_INFO, 0, 8, p.data)
    BY <1>1, Builders DEF build_handshake_cmd
  <1>4. CMD_DEVICE_INFO \in Commands /\ 8 \in 0..10  BY DEF Commands
  <1> QED  BY <1>1, <1>2, <1>3, <1>4, PlainIs, ZeroWord

\* ... pairing, ...
LEMMA PairIs ==
    ASSUME NEW p \in [cmd : {CMD_DONGLE_ENTER_PAIR}, address : {0}, length : {2},
                      data : {<<0, 0>>}]
    PROVE  PacketType(p) /\ Carries(Built(p), p)
  <1> DEFINE sent == <<0, 0, 62>>  d == <<0, 0>>
  <1>1. /\ p.cmd = CMD_DONGLE_ENTER_PAIR /\ p.address = 0 /\ p.length = 2 /\ p.data = d
        /\ p = [cmd |-> CMD_DONGLE_ENTER_PAIR, address |-> 0, length |-> 2, data |-> d]
    OBVIOUS
  <1>2. Built(p) = Packet(CMD_DONGLE_ENTER_PAIR, 0, 2, sent)
    BY <1>1, Builders DEF build_dongle_enter_pair_cmd
  <1>3. 0 \in Byte /\ 62 \in Byte  BY ByteIs
  <1>4. sent \in Seq(Byte) /\ d \in Seq(Byte)  BY <1>3
  <1>5. PacketType(p)
    <2>1. CMD_DONGLE_ENTER_PAIR \in Commands /\ 2 \in 0..10  BY DEF Commands
    <2> QED  BY <1>1, <1>4, <2>1, PlainIs, ZeroWord
  <1>6. \A k \in 1..2 : Padded(sent)[k] = 0 /\ Padded(d)[k] = 0
    BY DEF Padded
  <1> HIDE DEF sent, d
  <1>7. Built(p) = Packet(p.cmd, p.address, p.length, sent)  BY <1>1, <1>2
  <1>8. \A k \in 1..p.length : Padded(sent)[k] = Padded(p.data)[k]  BY <1>1, <1>6
  <1> QED  BY <1>4, <1>5, <1>7, <1>8 DEF Carries

\* ... and commands without data.
LEMMA SimpleIs ==
    ASSUME NEW p \in [cmd : SimpleCommands, address : {0}, length : {0}, data : {<< >>}]
    PROVE  PacketType(p) /\ Carries(Built(p), p)
  <1>1. /\ p.cmd \in SimpleCommands
        /\ p = [cmd |-> p.cmd, address |-> 0, length |-> 0, data |-> << >>]
    OBVIOUS
  <1>2. << >> \in Seq(Byte) /\ p.cmd \in Commands /\ 0 \in 0..10  BY <1>1 DEF Commands
  <1>3. Built(p) = Packet(p.cmd, 0, 0, << >>)
    BY <1>1, Builders DEF build_simple_command, build_command
  <1> QED  BY <1>1, <1>2, <1>3, PlainIs, ZeroWord

\* Every builder does.
LEMMA BuiltIs ==
    ASSUME NEW p \in Buildable
    PROVE  PacketType(p) /\ Carries(Built(p), p)
  <1>1. \/ /\ p \in [cmd : {CMD_WRITE_FLASH}, address : Word, length : 0..10, data : Seq(Byte)]
           /\ p.length = MinOf(Len(p.data), 10)
           /\ Len(p.data) = 2 => p.data[2] = calculate_data_checksum(p.data[1])
        \/ p \in [cmd : {CMD_READ_FLASH}, address : Word, length : 0..10, data : {<< >>}]
        \/ p \in [cmd : {CMD_SET_LONG_RANGE}, address : {0}, length : {10},
                  data : {<<0>>, <<1>>}]
        \/ p \in [cmd : {CMD_CONFIG_FLAGS}, address : {0}, length : {1}, data : {<<0>>, <<1>>}]
        \/ p \in [cmd : {CMD_SET_CURRENT_CONFIG}, address : {0}, length : {1},
                  data : [1..1 -> Byte]]
        \/ p \in [cmd : {CMD_DEVICE_INFO}, address : {0}, length : {8}, data : [1..4 -> Byte]]
        \/ p \in [cmd : {CMD_DONGLE_ENTER_PAIR}, address : {0}, length : {2}, data : {<<0, 0>>}]
        \/ p \in [cmd : SimpleCommands, address : {0}, length : {0}, data : {<< >>}]
    BY DEF Buildable, SimpleCommands
  <1>2. 10 \in 0..10 /\ 1 \in 0..10 /\ CMD_CONFIG_FLAGS # CMD_SET_LONG_RANGE
    BY DEF CMD_CONFIG_FLAGS, CMD_SET_LONG_RANGE
  <1>3. CASE p \in [cmd : {CMD_SET_LONG_RANGE}, address : {0}, length : {10},
                    data : {<<0>>, <<1>>}]
    BY <1>2, <1>3, SwitchIs
  <1>4. CASE p \in [cmd : {CMD_CONFIG_FLAGS}, address : {0}, length : {1},
                    data : {<<0>>, <<1>>}]
    BY <1>2, <1>4, SwitchIs
  <1> QED
    BY <1>1, <1>3, <1>4, WriteIs, ReadIs, ChooseConfigIs, HandshakeIs, PairIs, SimpleIs

\* The device reads in a packet what it was built from.
LEMMA PacketReadsBack ==
    ASSUME NEW p \in Buildable
    PROVE  ReadPacket(Built(p)) = [p EXCEPT !.data = SubSeq(Padded(@), 1, p.length)]
  <1> DEFINE w == Built(p)
             n == p.length
             padded == Padded(p.data)
  <1>1. PacketType(p) /\ Carries(w, p)  BY BuiltIs
  <1>2. PICK data \in Seq(Byte) :
          /\ w = Packet(p.cmd, p.address, n, data)
          /\ \A k \in 1..n : Padded(data)[k] = padded[k]
    BY <1>1 DEF Carries
  <1>3. n \in 0..10 /\ n \in Byte /\ n \in Nat
    <2>1. \A k \in 0..10 : k \in Byte /\ k \in Nat  BY ByteIs
    <2> QED  BY <1>1, <2>1 DEF PacketType
  <1>4. /\ p.cmd \in Byte /\ p.address \in Word /\ p.data \in Seq(Byte)
        /\ p = [cmd |-> p.cmd, address |-> p.address, length |-> n, data |-> p.data]
    BY <1>1 DEF PacketType
  <1> HIDE DEF w, n
  <1>5. /\ w \in Seq(Byte) /\ Len(w) = 16 /\ w[1] = p.cmd /\ PacketAddress(w) = p.address
        /\ w[5] = n /\ verify_response_checksum(w)
        /\ \A k \in 1..Len(Padded(data)) : w[5 + k] = Padded(data)[k]
    BY <1>2, <1>3, <1>4, PacketIs
  <1>6. /\ padded \in Seq(Byte) /\ Len(padded) = 10
    BY <1>4, PaddedIs
  <1>7. Len(Padded(data)) = 10  BY PaddedIs
  <1> HIDE DEF padded
  <1>8. \A k \in 1..n : w[5 + k] = padded[k]
    <2>1. \A k \in 1..n : k \in 1..Len(Padded(data))  BY <1>3, <1>7
    <2> QED  BY <1>2, <1>5, <2>1
  <1> DEFINE a == SubSeq(w, 6, 5 + n)  b == SubSeq(padded, 1, n)
             m == 5  last == 5 + n  first == 6
  <1>9. m \in Nat /\ m + n <= Len(w) /\ first = m + 1 /\ last = m + n /\ m = 5  BY <1>3, <1>5
  <1>10. w \in Seq(Byte)  BY <1>5
  <1>18. a = SubSeq(w, first, last)  OBVIOUS
  <1> HIDE DEF m, first, last, a
  <1>11. a \in Seq(Byte) /\ Len(a) = n /\ \A i \in 1..n : a[i] = w[5 + i]
    <2>1. /\ SubSeq(w, first, last) \in Seq(Byte) /\ Len(SubSeq(w, first, last)) = n
          /\ \A i \in 1..n : SubSeq(w, first, last)[i] = w[m + i]
      BY <1>3, <1>9, <1>10, Slice
    <2> QED  BY <1>9, <1>18, <2>1
  <1>12. b \in Seq(Byte) /\ Len(b) = n /\ \A i \in 1..n : b[i] = padded[i]
    <2>1. n \in 0..Len(padded)  BY <1>3, <1>6
    <2> QED  BY <1>6, <2>1, Prefix
  <1>13. PacketData(w) = a  BY <1>5 DEF PacketData, a
  <1> HIDE DEF b
  <1>14. a = b
    <2>1. \A i \in 1..Len(a) : a[i] = b[i]  BY <1>8, <1>11, <1>12
    <2> QED  BY <1>11, <1>12, <2>1, SameSequence
  <1>15. ReadPacket(w) = [cmd |-> p.cmd, address |-> p.address, length |-> n, data |-> b]
    BY <1>5, <1>13, <1>14 DEF ReadPacket
  <1>16. [p EXCEPT !.data = b] = [cmd |-> p.cmd, address |-> p.address, length |-> n,
                                  data |-> b]
    BY <1>4
  <1>17. [p EXCEPT !.data = SubSeq(Padded(@), 1, p.length)] = [p EXCEPT !.data = b]
    BY DEF b, padded, n
  <1> QED  BY <1>15, <1>16, <1>17 DEF w

\* The device refuses a packet with a damaged byte (verify_response_checksum).
LEMMA PacketDamage ==
    ASSUME NEW p \in Buildable, NEW i \in DOMAIN Built(p), NEW d \in Changes
    PROVE  ReadPacket(WithDamage(Built(p), i, d)) = Invalid
  <1> DEFINE w == Built(p)
             v == WithDamage(w, i, d)
             n == 15
             last == REPORT_ID
  <1>1. /\ w \in Seq(Byte) /\ Len(w) = 16 /\ verify_response_checksum(w)
    <2>1. PacketType(p) /\ Carries(w, p)  BY BuiltIs
    <2>2. PICK data \in Seq(Byte) : w = Packet(p.cmd, p.address, p.length, data)
      BY <2>1 DEF Carries
    <2>3. p.cmd \in Byte /\ p.address \in Word /\ p.length \in Byte
      <3>1. \A k \in 0..10 : k \in Byte  BY ByteIs
      <3> QED  BY <2>1, <3>1 DEF PacketType
    <2> HIDE DEF w
    <2> QED  BY <2>2, <2>3, PacketIs
  <1>2. ~verify_response_checksum(v) => ReadPacket(v) = Invalid  BY DEF ReadPacket
  <1> HIDE DEF w
  <1>3. i \in 1..Len(w)  BY <1>1, ElementsOf DEF w
  <1>4. /\ v \in Seq(Byte) /\ Len(v) = Len(w) /\ v[i] # w[i]
        /\ \A k \in 1..Len(w) : v[k] \in Byte /\ (k # i => v[k] = w[k])
    <2>1. w \in Seq(Byte)  BY <1>1
    <2> QED  BY <1>3, <2>1, DamagedIs
  <1> HIDE DEF v
  <1>5. \A k \in 1..Len(w) : w[k] \in Byte  BY <1>1, ElementsOf
  <1>6. n \in Nat \ {0} /\ n + 1 = 16 /\ n = 15  OBVIOUS
  <1> HIDE DEF n
  <1>7. n \in 0..Len(w) /\ n \in 0..Len(v) /\ n + 1 = Len(w)  BY <1>1, <1>4, <1>6
  <1>8. Tampered(w, v, n + 1, i)  BY <1>4, <1>5, <1>7 DEF Tampered
  <1> DEFINE s == SubSeq(w, 1, n)  t == SubSeq(v, 1, n)
             a == Append(s, last)  b == Append(t, last)
  <1>9. w[n + 1] = Complement(a)
    BY <1>1, <1>6 DEF verify_response_checksum, calculate_checksum
  <1>10. verify_response_checksum(v) => v[n + 1] = Complement(b)
    BY <1>6 DEF verify_response_checksum, calculate_checksum
  <1>11. s \in Seq(Byte) /\ Len(s) = n /\ \A k \in 1..n : s[k] = w[k]
    BY <1>1, <1>7, Prefix
  <1>12. t \in Seq(Byte) /\ Len(t) = n /\ \A k \in 1..n : t[k] = v[k]
    BY <1>4, <1>7, Prefix
  <1>13. last \in Byte  BY ByteIs DEF REPORT_ID
  <1> HIDE DEF s, t, last
  <1>14. /\ Len(a) = n + 1 /\ a[n + 1] = last /\ \A k \in 1..n : a[k] = s[k]
    BY <1>11, <1>13, Appended
  <1>15. /\ Len(b) = n + 1 /\ b[n + 1] = last /\ \A k \in 1..n : b[k] = t[k]
    BY <1>12, <1>13, Appended
  <1> HIDE DEF a, b
  <1>16. Summed(a, w, b, v, n, n + 1)
    <2>1. \A k \in (n + 1)..(n + 1) : k = n + 1  BY <1>6
    <2> QED  BY <1>11, <1>12, <1>13, <1>14, <1>15, <2>1 DEF Summed
  <1>17. v[n + 1] # Complement(b)
    <2> DEFINE N == n + 1
    <2>1. N \in Nat /\ n <= N  BY <1>6
    <2>2. i \in 1..(n + 1)  BY <1>3, <1>7
    <2>3. Len(a) = N /\ Len(b) = N /\ Summed(a, w, b, v, n, N)  BY <1>14, <1>15, <1>16
    <2>4. n \in Nat \ {0}  BY <1>6
    <2> HIDE DEF N
    <2> QED  BY <1>8, <1>9, <2>1, <2>2, <2>3, <2>4, Spoiled
  <1> QED  BY <1>2, <1>10, <1>17 DEF v, w

-----------------------------------------------------------------------------
(* Answers. *)

\* The beginning of a report, or all of it.
Starts(r, cmd, data) ==
    /\ r \in Seq(Byte) /\ Len(r) <= 17
    /\ \A k \in 1..Len(r) : r[k] = IF k = 1 THEN 8 ELSE IF k = 2 THEN cmd ELSE r[k]
    /\ 3 \in 1..Len(r) => r[3] = 0
    /\ \A k \in 1..Len(data) : 6 + k \in 1..Len(r) => r[6 + k] = data[k]

\* A report starts with its command and its data, and so does any first part of it.
LEMMA PartStarts ==
    ASSUME NEW cmd \in Byte, NEW address \in Word, NEW data \in Seq(Byte), Len(data) <= 11,
           NEW n \in 0..17
    PROVE  /\ Starts(SubSeq(Report(cmd, address, data), 1, n), cmd, data)
           /\ Starts(Report(cmd, address, data), cmd, data)
           /\ Len(Report(cmd, address, data)) = 17
  <1> DEFINE r == Report(cmd, address, data)
             s == SubSeq(r, 1, n)
  <1>1. /\ r \in Seq(Byte) /\ Len(r) = 17
        /\ r[1] = 8 /\ r[2] = cmd /\ r[3] = 0
        /\ \A i \in 1..Len(data) : r[6 + i] = data[i]
    BY ReportIs
  <1> HIDE DEF r
  <1>2. n \in 0..Len(r)  BY <1>1
  <1>3. s \in Seq(Byte) /\ Len(s) = n /\ \A k \in 1..n : s[k] = r[k]  BY <1>1, <1>2, Prefix
  <1> HIDE DEF s
  <1>4. Starts(r, cmd, data)  BY <1>1 DEF Starts
  <1>5. n <= 17  OBVIOUS
  <1>6. \A k \in 1..Len(s) : s[k] = IF k = 1 THEN 8 ELSE IF k = 2 THEN cmd ELSE s[k]
    BY <1>1, <1>3
  <1>7. 3 \in 1..Len(s) => s[3] = 0  BY <1>1, <1>3
  <1>8. \A k \in 1..Len(data) : 6 + k \in 1..Len(s) => s[6 + k] = data[k]
    <2> SUFFICES ASSUME NEW k \in 1..Len(data), 6 + k \in 1..Len(s) PROVE s[6 + k] = data[k]
      OBVIOUS
    <2>1. 6 + k \in 1..n  BY <1>3
    <2> DEFINE j == 6 + k
    <2>2. r[j] = data[k]  BY <1>1
    <2>3. j \in 1..n  BY <2>1
    <2> HIDE DEF j
    <2>4. s[j] = r[j]  BY <1>3, <2>3
    <2> QED  BY <2>2, <2>4 DEF j
  <1>9. Starts(s, cmd, data)  BY <1>3, <1>5, <1>6, <1>7, <1>8 DEF Starts
  <1> QED  BY <1>1, <1>4, <1>9 DEF r, s

\* What its bytes are, as far as it goes.
Says(r, cmd, data) ==
    /\ Len(r) \in Nat /\ Len(data) \in Nat
    /\ Len(r) >= 1 => r[1] = 8
    /\ Len(r) >= 2 => r[2] = cmd
    /\ Len(r) >= 3 => r[3] = 0
    /\ Len(data) >= 1 /\ Len(r) >= 7  => r[7]  = data[1]
    /\ Len(data) >= 2 /\ Len(r) >= 8  => r[8]  = data[2]
    /\ Len(data) >= 3 /\ Len(r) >= 9  => r[9]  = data[3]
    /\ Len(data) >= 4 /\ Len(r) >= 10 => r[10] = data[4]
    /\ Len(data) >= 5 /\ Len(r) >= 11 => r[11] = data[5]
    /\ Len(data) >= 6 /\ Len(r) >= 12 => r[12] = data[6]
    /\ Len(data) >= 7 /\ Len(r) >= 13 => r[13] = data[7]

LEMMA StartsSays ==
    ASSUME NEW cmd, NEW data \in Seq(Byte), NEW r, Starts(r, cmd, data)
    PROVE  Says(r, cmd, data)
  <1>1. Len(r) \in Nat /\ Len(data) \in Nat
    <2>1. r \in Seq(Byte)  BY DEF Starts
    <2> QED  BY <2>1, ElementsOf
  <1>2. /\ \A k \in 1..Len(r) : r[k] = IF k = 1 THEN 8 ELSE IF k = 2 THEN cmd ELSE r[k]
        /\ 3 \in 1..Len(r) => r[3] = 0
        /\ \A k \in 1..Len(data) : 6 + k \in 1..Len(r) => r[6 + k] = data[k]
    BY DEF Starts
  <1>3. Len(r) >= 1 => r[1] = 8  BY <1>1, <1>2
  <1>4. Len(r) >= 2 => r[2] = cmd  BY <1>1, <1>2
  <1>5. Len(r) >= 3 => r[3] = 0  BY <1>1, <1>2
  <1>6. ASSUME NEW k \in Nat \ {0}, k <= Len(data), 6 + k <= Len(r) PROVE r[6 + k] = data[k]
    <2>1. k \in 1..Len(data) /\ 6 + k \in 1..Len(r)  BY <1>1, <1>6
    <2> QED  BY <1>2, <2>1
  <1>7. /\ 1 \in Nat \ {0} /\ 2 \in Nat \ {0} /\ 3 \in Nat \ {0} /\ 4 \in Nat \ {0}
        /\ 5 \in Nat \ {0} /\ 6 \in Nat \ {0} /\ 7 \in Nat \ {0}
        /\ 6 + 1 = 7 /\ 6 + 2 = 8 /\ 6 + 3 = 9 /\ 6 + 4 = 10 /\ 6 + 5 = 11 /\ 6 + 6 = 12
        /\ 6 + 7 = 13
    OBVIOUS
  <1>8. /\ Len(data) >= 1 /\ Len(r) >= 7  => r[7]  = data[1]
        /\ Len(data) >= 2 /\ Len(r) >= 8  => r[8]  = data[2]
        /\ Len(data) >= 3 /\ Len(r) >= 9  => r[9]  = data[3]
        /\ Len(data) >= 4 /\ Len(r) >= 10 => r[10] = data[4]
    BY <1>1, <1>6, <1>7
  <1>9. /\ Len(data) >= 5 /\ Len(r) >= 11 => r[11] = data[5]
        /\ Len(data) >= 6 /\ Len(r) >= 12 => r[12] = data[6]
        /\ Len(data) >= 7 /\ Len(r) >= 13 => r[13] = data[7]
    BY <1>1, <1>6, <1>7
  <1> QED  BY <1>1, <1>3, <1>4, <1>5, <1>8, <1>9 DEF Says

\* What may come of a report r that begins an answer with this value: nothing, or the value,
\* and the value when the report is whole.
MayRead(ask, value, r) ==
    \/ Received(ask, value, r) = value
    \/ Received(ask, value, r) = Invalid /\ Len(r) < 17

\* A flag is one byte, 1 when it is set.
FlagIs == \A b \in BOOLEAN : Flag(b) \in Byte /\ ((Flag(b) = 1) = b)

LEMMA FlagHolds == FlagIs
  <1>1. 0 \in Byte /\ 1 \in Byte  BY ByteIs
  <1> QED  BY <1>1 DEF FlagIs, Flag

\* Of a report that starts with an answer, that answer is read or none: the memory, ...
LEMMA MemoryAnswer ==
    ASSUME NEW value \in Seq(Byte), Len(value) <= 10, NEW r, Starts(r, CMD_READ_FLASH, value)
    PROVE  MayRead("memory", value, r)
  <1> DEFINE n == Len(value)  part == SubSeq(r, 7, 6 + n)
             m == 6  first == 7  last == 6 + n
  <1>1. /\ Len(r) \in Nat /\ (Len(r) >= 2 => r[2] = CMD_READ_FLASH)
        /\ (Len(r) >= 3 => r[3] = 0)
    BY StartsSays DEF Says
  <1>2. n \in Nat  BY ElementsOf
  <1>3. Received("memory", value, r) = MemoryIn(r, n)  BY DEF Received
  <1>4. CASE Len(r) < 6 + n
    <2>1. MemoryIn(r, n) = Invalid  BY <1>4 DEF MemoryIn, Short
    <2>2. Len(r) < 17  BY <1>1, <1>2, <1>4
    <2> QED  BY <1>3, <2>1, <2>2 DEF MayRead
  <1>5. CASE ~(Len(r) < 6 + n)
    <2>1. r[2] = CMD_READ_FLASH /\ r[3] = 0  BY <1>1, <1>2, <1>5
    <2>2. MemoryIn(r, n) = part  BY <1>5, <2>1 DEF MemoryIn, Short, IsAnswerTo, StatusOk
    <2>3. /\ m \in Nat /\ m + n <= Len(r) /\ first = m + 1 /\ last = m + n /\ m = 6
          /\ part = SubSeq(r, first, last)
      BY <1>1, <1>2, <1>5
    <2>4. /\ r \in Seq(Byte)
          /\ \A k \in 1..Len(value) : 6 + k \in 1..Len(r) => r[6 + k] = value[k]
      BY DEF Starts
    <2>5. n = Len(value)  OBVIOUS
    <2> HIDE DEF m, first, last, n, part
    <2>6. /\ part \in Seq(Byte) /\ Len(part) = n /\ \A i \in 1..n : part[i] = r[m + i]
      BY <1>2, <2>3, <2>4, Slice
    <2>7. \A i \in 1..n : part[i] = value[i]
      <3>1. \A i \in 1..n : 6 + i \in 1..Len(r)  BY <1>1, <1>2, <2>3
      <3>2. \A i \in 1..n : r[6 + i] = value[i]  BY <2>4, <2>5, <3>1
      <3> QED  BY <2>3, <2>6, <3>2
    <2>8. part = value  BY <2>5, <2>6, <2>7, SameSequence
    <2> QED  BY <1>3, <2>2, <2>8 DEF MayRead, n
  <1> QED  BY <1>4, <1>5

\* ... the battery, ...
LEMMA BatteryAnswer ==
    ASSUME NEW value \in [voltage_mv : Word, percentage : Nat, charging : BOOLEAN,
                          device_percentage : Byte],
           value.percentage = voltage_to_percentage_table(value.voltage_mv),
           NEW data, data = <<value.device_percentage, Flag(value.charging),
                              value.voltage_mv \div 256, value.voltage_mv % 256>>,
           NEW r, Starts(r, CMD_BATTERY, data)
    PROVE  MayRead("battery", value, r)
  <1> DEFINE mv == value.voltage_mv  high == mv \div 256  low == mv % 256
             on == Flag(value.charging)
  <1>1. mv \in Word /\ value.charging \in BOOLEAN /\ value.device_percentage \in Byte
    OBVIOUS
  <1>2. high \in Byte /\ low \in Byte /\ 256 * high + low = mv  BY <1>1, WordSplit
  <1>3. on \in Byte /\ ((on = 1) = value.charging)  BY <1>1, FlagHolds DEF FlagIs
  <1>4. value = [voltage_mv |-> mv, percentage |-> voltage_to_percentage_table(mv),
                 charging |-> value.charging, device_percentage |-> value.device_percentage]
    OBVIOUS
  <1>5. data = <<value.device_percentage, on, high, low>>  OBVIOUS
  <1> HIDE DEF mv, high, low, on
  <1>6. /\ data \in Seq(Byte) /\ Len(data) = 4 /\ data[1] = value.device_percentage
        /\ data[2] = on /\ data[3] = high /\ data[4] = low
    BY <1>1, <1>2, <1>3, <1>5
  <1>7. Received("battery", value, r) = decode_battery_response(r)  BY DEF Received
  <1>8. /\ Len(r) \in Nat
        /\ Len(r) >= 10 => r[2] = CMD_BATTERY /\ r[3] = 0 /\ r[7] = data[1] /\ r[8] = data[2]
                             /\ r[9] = data[3] /\ r[10] = data[4]
    <2>1. data \in Seq(Byte)  BY <1>6
    <2>2. Says(r, CMD_BATTERY, data)  BY <2>1, StartsSays
    <2>3. Len(data) = 4  BY <1>6
    <2> QED  BY <2>2, <2>3 DEF Says
  <1>9. ASSUME Len(r) < 10 PROVE MayRead("battery", value, r)
    <2>1. decode_battery_response(r) = Invalid  BY <1>9 DEF decode_battery_response, Short
    <2>2. Len(r) < 17  BY <1>8, <1>9
    <2> QED  BY <1>7, <2>1, <2>2 DEF MayRead
  <1>10. ASSUME ~(Len(r) < 10) PROVE MayRead("battery", value, r)
    <2>1. /\ r[2] = CMD_BATTERY /\ r[3] = 0 /\ r[7] = value.device_percentage /\ r[8] = on
          /\ r[9] = high /\ r[10] = low
      BY <1>6, <1>8, <1>10
    <2>2. decode_battery_response(r) =
            [voltage_mv |-> mv, percentage |-> voltage_to_percentage_table(mv),
             charging |-> (on = 1), device_percentage |-> value.device_percentage]
      BY <1>2, <1>10, <2>1 DEF decode_battery_response, Short, IsAnswerTo, StatusOk
    <2> QED  BY <1>3, <1>4, <1>7, <2>2 DEF MayRead
  <1> QED  BY <1>9, <1>10

\* ... long distance mode and being online, ...
LEMMA FlagAnswer ==
    ASSUME NEW value \in BOOLEAN, NEW r, NEW cmd, Starts(r, cmd, <<Flag(value)>>)
    PROVE  /\ MayRead("long distance", value, r)
           /\ MayRead("online", value, r)
  <1> DEFINE on == Flag(value)  data == <<on>>
  <1>1. on \in Byte /\ ((on = 1) = value)  BY FlagHolds DEF FlagIs
  <1> HIDE DEF on
  <1>2. data \in Seq(Byte) /\ Len(data) = 1 /\ data[1] = on  BY <1>1
  <1> HIDE DEF data
  <1>3. Says(r, cmd, data)
    <2>1. data \in Seq(Byte)  BY <1>2
    <2> QED  BY <2>1, StartsSays DEF data, on
  <1>4. Len(r) \in Nat /\ (Len(r) >= 7 => r[3] = 0 /\ r[7] = on)
    <2>1. Len(data) = 1  BY <1>2
    <2>2. Len(r) >= 7 => r[7] = data[1]  BY <1>3, <2>1 DEF Says
    <2> QED  BY <1>2, <1>3, <2>2 DEF Says
  <1>5. /\ Received("long distance", value, r) = LongDistanceIn(r)
        /\ Received("online", value, r) = OnlineIn(r)
    BY DEF Received
  <1>6. ASSUME Len(r) < 7
        PROVE  MayRead("long distance", value, r) /\ MayRead("online", value, r)
    <2>1. LongDistanceIn(r) = Invalid /\ OnlineIn(r) = Invalid
      BY <1>6 DEF LongDistanceIn, OnlineIn, Short
    <2>2. Len(r) < 17  BY <1>4, <1>6
    <2> QED  BY <1>5, <2>1, <2>2 DEF MayRead
  <1>7. ASSUME ~(Len(r) < 7)
        PROVE  MayRead("long distance", value, r) /\ MayRead("online", value, r)
    <2>1. r[3] = 0 /\ r[7] = on  BY <1>4, <1>7
    <2>2. LongDistanceIn(r) = (on = 1) /\ OnlineIn(r) = (on = 1)
      BY <1>7, <2>1 DEF LongDistanceIn, OnlineIn, Short
    <2> QED  BY <1>1, <1>5, <2>2 DEF MayRead
  <1> QED  BY <1>6, <1>7

\* ... the address, ...
LEMMA AddressAnswer ==
    ASSUME NEW value \in Color, NEW data, data = << 1 >> \o Reverse3(value), NEW r, NEW cmd,
           Starts(r, cmd, data)
    PROVE  MayRead("address", value, r)
  <1>1. PICK a \in Byte, b \in Byte, c \in Byte : value = <<a, b, c>>  BY DEF Color
  <1>2. 1 \in Byte  BY ByteIs
  <1>3. Reverse3(value) = <<c, b, a>>  BY <1>1 DEF Reverse3
  <1> DEFINE one == <<1>>  three == <<c, b, a>>
  <1>4. /\ one \in Seq(Byte) /\ Len(one) = 1
        /\ three \in Seq(Byte) /\ Len(three) = 3
        /\ three[1] = c /\ three[2] = b /\ three[3] = a
    BY <1>2
  <1>10. data = one \o three  BY <1>3
  <1> HIDE DEF one, three
  <1>5. /\ data \in Seq(Byte) /\ Len(data) = 4 /\ data[2] = c /\ data[3] = b /\ data[4] = a
    <2>1. one \in Seq(Byte) /\ three \in Seq(Byte)  BY <1>4
    <2>2. /\ one \o three \in Seq(Byte) /\ Len(one \o three) = Len(one) + Len(three)
          /\ \A i \in 1..Len(three) : (one \o three)[Len(one) + i] = three[i]
      BY <2>1, Concatenated
    <2>3. Len(one) = 1 /\ Len(three) = 3  BY <1>4
    <2>4. Len(data) = 4  BY <1>10, <2>2, <2>3
    <2>5. /\ 1 \in 1..Len(three) /\ 2 \in 1..Len(three) /\ 3 \in 1..Len(three)
          /\ Len(one) + 1 = 2 /\ Len(one) + 2 = 3 /\ Len(one) + 3 = 4
      BY <2>3
    <2>6. data[2] = three[1] /\ data[3] = three[2] /\ data[4] = three[3]
      BY <1>10, <2>2, <2>5
    <2> QED  BY <1>4, <1>10, <2>2, <2>4, <2>6
  <1>6. /\ Len(r) \in Nat /\ r \in Seq(Byte)
        /\ (Len(r) >= 10 => r[8] = c /\ r[9] = b /\ r[10] = a)
    <2>1. data \in Seq(Byte)  BY <1>5
    <2>2. Says(r, cmd, data)  BY <2>1, StartsSays
    <2>3. Len(data) = 4  BY <1>5
    <2>4. /\ Len(r) \in Nat
          /\ (Len(r) >= 10 => r[8] = data[2] /\ r[9] = data[3] /\ r[10] = data[4])
      BY <2>2, <2>3 DEF Says
    <2>5. r \in Seq(Byte)  BY DEF Starts
    <2> QED  BY <1>5, <2>4, <2>5
  <1>7. Received("address", value, r) = AddressIn(r)  BY DEF Received
  <1>8. ASSUME Len(r) < 10 PROVE MayRead("address", value, r)
    <2>1. AddressIn(r) = Invalid  BY <1>8 DEF AddressIn, Short
    <2>2. Len(r) < 17  BY <1>6, <1>8
    <2> QED  BY <1>7, <2>1, <2>2 DEF MayRead
  <1>9. ASSUME ~(Len(r) < 10) PROVE MayRead("address", value, r)
    <2> DEFINE m == 7  n == 3  first == 8  last == 10  part == SubSeq(r, 8, 10)
    <2>1. /\ m \in Nat /\ n \in Nat /\ m + n <= Len(r) /\ first = m + 1 /\ last = m + n
          /\ part = SubSeq(r, first, last)
      BY <1>6, <1>9
    <2>2. 1 \in 1..n /\ 2 \in 1..n /\ 3 \in 1..n /\ m + 1 = 8 /\ m + 2 = 9 /\ m + 3 = 10
      OBVIOUS
    <2>3. AddressIn(r) = Reverse3(part)  BY <1>9 DEF AddressIn, Short
    <2> HIDE DEF m, n, first, last, part
    <2>4. \A i \in 1..n : part[i] = r[m + i]  BY <1>6, <2>1, Slice
    <2>5. part[1] = r[8] /\ part[2] = r[9] /\ part[3] = r[10]  BY <2>2, <2>4
    <2>6. Reverse3(part) = <<a, b, c>>  BY <1>6, <1>9, <2>5 DEF Reverse3
    <2> QED  BY <1>1, <1>7, <2>3, <2>6 DEF MayRead
  <1> QED  BY <1>8, <1>9

\* ... the profile, ...
LEMMA ProfileAnswer ==
    ASSUME NEW value \in Byte, NEW r, Starts(r, CMD_GET_CURRENT_CONFIG, <<value>>)
    PROVE  MayRead("profile", value, r)
  <1> DEFINE data == <<value>>
  <1>1. data \in Seq(Byte) /\ Len(data) = 1 /\ data[1] = value  OBVIOUS
  <1> HIDE DEF data
  <1>2. Says(r, CMD_GET_CURRENT_CONFIG, data)
    <2>1. data \in Seq(Byte)  BY <1>1
    <2> QED  BY <2>1, StartsSays DEF data
  <1>3. Len(r) \in Nat /\ (Len(r) >= 7 => r[2] = CMD_GET_CURRENT_CONFIG /\ r[7] = value)
    <2>1. Len(data) = 1  BY <1>1
    <2>2. Len(r) >= 7 => r[7] = data[1]  BY <1>2, <2>1 DEF Says
    <2> QED  BY <1>1, <1>2, <2>2 DEF Says
  <1>4. Received("profile", value, r) = ProfileIn(r)  BY DEF Received
  <1>5. ASSUME Len(r) < 7 PROVE MayRead("profile", value, r)
    <2>1. ProfileIn(r) = Invalid  BY <1>5 DEF ProfileIn, Short
    <2>2. Len(r) < 17  BY <1>3, <1>5
    <2> QED  BY <1>4, <2>1, <2>2 DEF MayRead
  <1>6. ASSUME ~(Len(r) < 7) PROVE MayRead("profile", value, r)
    <2>1. r[2] = CMD_GET_CURRENT_CONFIG /\ r[7] = value  BY <1>3, <1>6
    <2>2. ProfileIn(r) = value  BY <1>6, <2>1 DEF ProfileIn, Short, IsAnswerTo
    <2> QED  BY <1>4, <2>2 DEF MayRead
  <1> QED  BY <1>5, <1>6

\* A pair of bytes as the data of an answer.
LEMMA PairSays ==
    ASSUME NEW a \in Byte, NEW b \in Byte, NEW cmd, NEW r, Starts(r, cmd, <<a, b>>)
    PROVE  /\ Len(r) \in Nat
           /\ Len(r) >= 8 => r[1] = 8 /\ r[2] = cmd /\ r[7] = a /\ r[8] = b
  <1> DEFINE data == <<a, b>>
  <1>1. data \in Seq(Byte) /\ Len(data) = 2 /\ data[1] = a /\ data[2] = b  OBVIOUS
  <1> HIDE DEF data
  <1>2. Says(r, cmd, data)
    <2>1. data \in Seq(Byte)  BY <1>1
    <2> QED  BY <2>1, StartsSays DEF data
  <1>3. Len(data) = 2  BY <1>1
  <1>4. Len(r) \in Nat /\ (Len(r) >= 8 => r[7] = data[1] /\ r[8] = data[2])
    BY <1>2, <1>3 DEF Says
  <1>5. Len(r) >= 8 => r[1] = 8 /\ r[2] = cmd  BY <1>2, <1>4 DEF Says
  <1> QED  BY <1>1, <1>4, <1>5

\* ... pairing, ...
LEMMA PairingAnswer ==
    ASSUME NEW value \in PairStatus \X Byte, NEW r, Starts(r, CMD_GET_PAIR_STATE, value)
    PROVE  MayRead("pairing", value, r)
  <1>1. PICK s \in PairStatus, left \in Byte : value = <<s, left>>  OBVIOUS
  <1>2. s \in Byte  BY ByteIs DEF PairStatus
  <1>3. /\ Len(r) \in Nat
        /\ Len(r) >= 8 => r[2] = CMD_GET_PAIR_STATE /\ r[7] = s /\ r[8] = left
    BY <1>1, <1>2, PairSays
  <1>4. Received("pairing", value, r) = PairStateIn(r)  BY DEF Received
  <1>5. ASSUME Len(r) < 8 PROVE MayRead("pairing", value, r)
    <2>1. PairStateIn(r) = Invalid  BY <1>5 DEF PairStateIn, Short
    <2>2. Len(r) < 17  BY <1>3, <1>5
    <2> QED  BY <1>4, <2>1, <2>2 DEF MayRead
  <1>6. ASSUME ~(Len(r) < 8) PROVE MayRead("pairing", value, r)
    <2>1. Len(r) >= 8  BY <1>3, <1>6
    <2>2. r[2] = CMD_GET_PAIR_STATE /\ r[7] = s /\ r[8] = left  BY <1>3, <2>1
    <2>3. PairStateIn(r) = <<s, left>>  BY <1>6, <2>2 DEF PairStateIn, Short, IsAnswerTo
    <2> QED  BY <1>1, <1>4, <2>3 DEF MayRead
  <1> QED  BY <1>5, <1>6

\* ... the firmware versions, ...
LEMMA FirmwareAnswer ==
    ASSUME NEW value \in Byte \X Byte, NEW cmd, NEW r, Starts(r, cmd, value),
           NEW ask, Received(ask, value, r) = FirmwareIn(cmd, r)
    PROVE  MayRead(ask, value, r)
  <1>1. PICK a \in Byte, b \in Byte : value = <<a, b>>  OBVIOUS
  <1>3. /\ Len(r) \in Nat
        /\ Len(r) >= 8 => r[1] = 8 /\ r[2] = cmd /\ r[7] = a /\ r[8] = b
    BY <1>1, PairSays
  <1>5. ASSUME Len(r) < 8 PROVE MayRead(ask, value, r)
    <2>1. FirmwareIn(cmd, r) = Invalid  BY <1>5 DEF FirmwareIn, Short
    <2>2. Len(r) < 17  BY <1>3, <1>5
    <2> QED  BY <2>1, <2>2 DEF MayRead
  <1>6. ASSUME ~(Len(r) < 8) PROVE MayRead(ask, value, r)
    <2>1. Len(r) >= 8  BY <1>3, <1>6
    <2>2. r[1] = REPORT_ID /\ r[2] = cmd /\ r[7] = a /\ r[8] = b
      BY <1>3, <2>1 DEF REPORT_ID
    <2>3. FirmwareIn(cmd, r) = <<a, b>>  BY <1>6, <2>2 DEF FirmwareIn, Short, IsAnswerTo
    <2> QED  BY <1>1, <2>3 DEF MayRead
  <1> QED  BY <1>5, <1>6

\* ... and the handshake.
LEMMA HandshakeAnswer ==
    ASSUME NEW value \in [cid : Byte, mid : Byte, connection_type : ConnectionType],
           NEW data, data = <<0, 0, 0, 0, value.cid, value.mid, value.connection_type>>,
           NEW r, Starts(r, CMD_DEVICE_INFO, data)
    PROVE  MayRead("handshake", value, r)
  <1> DEFINE c == value.cid  m == value.mid  t == value.connection_type
  <1>1. /\ c \in Byte /\ m \in Byte /\ t \in ConnectionType
        /\ value = [cid |-> c, mid |-> m, connection_type |-> t]
    OBVIOUS
  <1>2. t \in Byte /\ 0 \in Byte  BY <1>1, ByteIs DEF ConnectionType
  <1>3. data = <<0, 0, 0, 0, c, m, t>>  OBVIOUS
  <1> HIDE DEF c, m, t
  <1>4. /\ data \in Seq(Byte) /\ Len(data) = 7
        /\ data[5] = c /\ data[6] = m /\ data[7] = t
    BY <1>1, <1>2, <1>3
  <1>5. Says(r, CMD_DEVICE_INFO, data)
    <2>1. data \in Seq(Byte)  BY <1>4
    <2> QED  BY <2>1, StartsSays
  <1>6. Len(r) \in Nat /\ (Len(r) >= 13 => /\ r[2] = CMD_DEVICE_INFO /\ r[3] = 0
                                           /\ r[11] = c /\ r[12] = m /\ r[13] = t)
    <2>1. Len(data) = 7  BY <1>4
    <2>2. Len(r) >= 13 => r[11] = data[5] /\ r[12] = data[6] /\ r[13] = data[7]
      BY <1>5, <2>1 DEF Says
    <2>3. Len(r) \in Nat /\ (Len(r) >= 13 => r[2] = CMD_DEVICE_INFO /\ r[3] = 0)
      BY <1>5 DEF Says
    <2> QED  BY <1>4, <2>2, <2>3
  <1>7. Received("handshake", value, r) = HandshakeIn(r)  BY DEF Received
  <1>8. ASSUME Len(r) < 13 PROVE MayRead("handshake", value, r)
    <2>1. HandshakeIn(r) = Invalid  BY <1>8 DEF HandshakeIn, Short
    <2>2. Len(r) < 17  BY <1>6, <1>8
    <2> QED  BY <1>7, <2>1, <2>2 DEF MayRead
  <1>9. ASSUME ~(Len(r) < 13) PROVE MayRead("handshake", value, r)
    <2>1. /\ r[2] = CMD_DEVICE_INFO /\ r[3] = 0 /\ r[11] = c /\ r[12] = m /\ r[13] = t
      BY <1>6, <1>9
    <2>2. HandshakeIn(r) = [cid |-> c, mid |-> m, connection_type |-> t]
      BY <1>1, <1>9, <2>1 DEF HandshakeIn, Short, IsAnswerTo, StatusOk
    <2> QED  BY <1>1, <1>7, <2>2 DEF MayRead
  <1> QED  BY <1>8, <1>9

\* An answer is read for what it says, or not at all when it is cut short.
ReadSafely(a, n) ==
    LET w == Sent(a.ask, a.value) IN
    /\ Len(w) = 17
    /\ MayRead(a.ask, a.value, w)
    /\ MayRead(a.ask, a.value, SubSeq(w, 1, n))

\* An answer that is read safely from whatever starts with it, is read safely.
LEMMA ReportRead ==
    ASSUME NEW a, NEW n \in 0..17, NEW cmd \in Commands, NEW address \in Word,
           NEW data \in Seq(Byte), Len(data) <= 11,
           Sent(a.ask, a.value) = Report(cmd, address, data),
           \A r : Starts(r, cmd, data) => MayRead(a.ask, a.value, r)
    PROVE  ReadSafely(a, n)
  <1>1. cmd \in Byte  BY CommandsAreBytes
  <1>2. /\ Starts(SubSeq(Report(cmd, address, data), 1, n), cmd, data)
        /\ Starts(Report(cmd, address, data), cmd, data)
        /\ Len(Report(cmd, address, data)) = 17
    BY <1>1, PartStarts
  <1> QED  BY <1>2 DEF ReadSafely

LEMMA TuplesOfBytes ==
    ASSUME NEW a \in Byte, NEW b \in Byte, NEW c \in Byte
    PROVE  /\ <<a>> \in Seq(Byte) /\ Len(<<a>>) <= 11
           /\ <<a, b>> \in Seq(Byte) /\ Len(<<a, b>>) <= 11
           /\ \A d \in Byte : <<a, b, c, d>> \in Seq(Byte) /\ Len(<<a, b, c, d>>) <= 11
           /\ <<0, 0, 0, 0, a, b, c>> \in Seq(Byte) /\ Len(<<0, 0, 0, 0, a, b, c>>) <= 11
  <1>1. 0 \in Byte  BY ByteIs
  <1> QED  BY <1>1

\* Every answer is read safely, whole or cut short.
LEMMA AnswerIs ==
    ASSUME NEW a \in Answerable, NEW n \in 0..17
    PROVE  ReadSafely(a, n)
  <1> DEFINE value == a.value
  <1>1. CMD_READ_FLASH \in Commands /\ CMD_BATTERY \in Commands /\ CMD_GET_LONG_RANGE \in Commands
        /\ CMD_STATUS \in Commands /\ CMD_GET_CURRENT_CONFIG \in Commands
        /\ CMD_GET_PAIR_STATE \in Commands /\ CMD_DEVICE_INFO \in Commands
        /\ CMD_READ_VERSION \in Commands /\ CMD_DONGLE_VERSION \in Commands
    BY DEF Commands, SimpleCommands
  <1>2. OFFSET_MACROS \in Word /\ 0 \in Word  BY WordIs DEF OFFSET_MACROS
  <1>3. CASE a \in [ask : {"memory"}, value : Seq(Byte)] /\ Len(value) <= 10
    <2>1. a.ask = "memory" /\ value \in Seq(Byte) /\ Len(value) <= 11
      <3>1. value \in Seq(Byte)  BY <1>3
      <3>2. Len(value) \in Nat  BY <3>1, ElementsOf
      <3> QED  BY <1>3, <3>1, <3>2
    <2>2. Sent(a.ask, value) = Report(CMD_READ_FLASH, OFFSET_MACROS, value)  BY <2>1 DEF Sent
    <2>3. \A r : Starts(r, CMD_READ_FLASH, value) => MayRead(a.ask, value, r)
      BY <1>3, <2>1, MemoryAnswer
    <2> QED  BY <1>1, <1>2, <2>1, <2>2, <2>3, ReportRead
  <1>4. CASE /\ a \in [ask : {"battery"},
                       value : [voltage_mv : Word, percentage : Nat, charging : BOOLEAN,
                                device_percentage : Byte]]
             /\ value.percentage = voltage_to_percentage_table(value.voltage_mv)
    <2> DEFINE data == <<value.device_percentage, Flag(value.charging),
                         value.voltage_mv \div 256, value.voltage_mv % 256>>
    <2>1. /\ a.ask = "battery"
          /\ value \in [voltage_mv : Word, percentage : Nat, charging : BOOLEAN,
                        device_percentage : Byte]
      BY <1>4
    <2>2. data \in Seq(Byte) /\ Len(data) <= 11
      <3>1. /\ value.device_percentage \in Byte /\ value.charging \in BOOLEAN
            /\ value.voltage_mv \in Word
        BY <2>1
      <3>2. /\ Flag(value.charging) \in Byte /\ value.voltage_mv \div 256 \in Byte
            /\ value.voltage_mv % 256 \in Byte
        BY <3>1, WordSplit, FlagHolds DEF FlagIs
      <3> QED  BY <3>1, <3>2, TuplesOfBytes
    <2>3. Sent(a.ask, value) = Report(CMD_BATTERY, 0, data)  BY <2>1 DEF Sent
    <2>4. \A r : Starts(r, CMD_BATTERY, data) => MayRead(a.ask, value, r)
      BY <1>4, <2>1, BatteryAnswer
    <2> HIDE DEF data
    <2> QED  BY <1>1, <1>2, <2>2, <2>3, <2>4, ReportRead
  <1>5. CASE a \in [ask : {"long distance", "online"}, value : BOOLEAN]
    <2> DEFINE data == <<Flag(value)>>
               cmd == IF a.ask = "long distance" THEN CMD_GET_LONG_RANGE ELSE CMD_STATUS
    <2>1. a.ask \in {"long distance", "online"} /\ value \in BOOLEAN  BY <1>5
    <2>2. data \in Seq(Byte) /\ Len(data) <= 11  BY <2>1, FlagHolds, TuplesOfBytes DEF FlagIs
    <2>3. Sent(a.ask, value) = Report(cmd, 0, data)  BY <2>1 DEF Sent
    <2>4. \A r, c : Starts(r, c, data) => MayRead(a.ask, value, r)  BY <2>1, FlagAnswer
    <2>5. cmd \in Commands  BY <1>1
    <2> HIDE DEF data, cmd
    <2> QED  BY <1>2, <2>2, <2>3, <2>4, <2>5, ReportRead
  <1>6. CASE a \in [ask : {"address"}, value : Color]
    <2> DEFINE data == <<1>> \o Reverse3(value)
    <2>1. a.ask = "address" /\ value \in Color  BY <1>6
    <2>2. data \in Seq(Byte) /\ Len(data) <= 11
      <3>1. PICK x \in Byte, y \in Byte, z \in Byte : value = <<x, y, z>>  BY <2>1 DEF Color
      <3> DEFINE one == <<1>>  three == <<z, y, x>>
      <3>2. 1 \in Byte  BY ByteIs
      <3>3. one \in Seq(Byte) /\ three \in Seq(Byte) /\ Len(one) = 1 /\ Len(three) = 3  BY <3>2
      <3>4. data = one \o three  BY <3>1 DEF Reverse3
      <3> HIDE DEF one, three, data
      <3>5. one \in Seq(Byte) /\ three \in Seq(Byte)  BY <3>3
      <3>6. one \o three \in Seq(Byte) /\ Len(one \o three) = Len(one) + Len(three)
        BY <3>5, Concatenated
      <3> QED  BY <3>3, <3>4, <3>6
    <2>3. Sent(a.ask, value) = Report(CMD_STATUS, 0, data)  BY <2>1 DEF Sent
    <2>4. \A r : Starts(r, CMD_STATUS, data) => MayRead(a.ask, value, r)
      BY <2>1, AddressAnswer
    <2> HIDE DEF data
    <2> QED  BY <1>1, <1>2, <2>2, <2>3, <2>4, ReportRead
  <1>7. CASE a \in [ask : {"profile"}, value : Byte]
    <2> DEFINE data == <<value>>
    <2>1. a.ask = "profile" /\ value \in Byte  BY <1>7
    <2>2. data \in Seq(Byte) /\ Len(data) <= 11  BY <2>1, TuplesOfBytes
    <2>3. Sent(a.ask, value) = Report(CMD_GET_CURRENT_CONFIG, 0, data)  BY <2>1 DEF Sent
    <2>4. \A r : Starts(r, CMD_GET_CURRENT_CONFIG, data) => MayRead(a.ask, value, r)
      BY <2>1, ProfileAnswer
    <2> HIDE DEF data
    <2> QED  BY <1>1, <1>2, <2>2, <2>3, <2>4, ReportRead
  <1>8. CASE a \in [ask : {"pairing"}, value : PairStatus \X Byte]
    <2>1. a.ask = "pairing" /\ value \in PairStatus \X Byte  BY <1>8
    <2>2. value \in Seq(Byte) /\ Len(value) <= 11
      <3>1. PICK x \in PairStatus, y \in Byte : value = <<x, y>>  BY <2>1
      <3>2. x \in Byte  BY ByteIs DEF PairStatus
      <3> QED  BY <3>1, <3>2, TuplesOfBytes
    <2>3. Sent(a.ask, value) = Report(CMD_GET_PAIR_STATE, 0, value)  BY <2>1 DEF Sent
    <2>4. \A r : Starts(r, CMD_GET_PAIR_STATE, value) => MayRead(a.ask, value, r)
      BY <2>1, PairingAnswer
    <2> QED  BY <1>1, <1>2, <2>2, <2>3, <2>4, ReportRead
  <1>9. CASE a \in [ask : {"handshake"},
                    value : [cid : Byte, mid : Byte, connection_type : ConnectionType]]
    <2> DEFINE data == <<0, 0, 0, 0, value.cid, value.mid, value.connection_type>>
    <2>1. /\ a.ask = "handshake"
          /\ value \in [cid : Byte, mid : Byte, connection_type : ConnectionType]
      BY <1>9
    <2>2. data \in Seq(Byte) /\ Len(data) <= 11
      <3>1. value.cid \in Byte /\ value.mid \in Byte /\ value.connection_type \in Byte
        BY <2>1, ByteIs DEF ConnectionType
      <3> QED  BY <3>1, TuplesOfBytes
    <2>3. Sent(a.ask, value) = Report(CMD_DEVICE_INFO, 0, data)  BY <2>1 DEF Sent
    <2>4. \A r : Starts(r, CMD_DEVICE_INFO, data) => MayRead(a.ask, value, r)
      BY <2>1, HandshakeAnswer
    <2> HIDE DEF data
    <2> QED  BY <1>1, <1>2, <2>2, <2>3, <2>4, ReportRead
  <1>10. CASE a \in [ask : {"mouse", "receiver"}, value : Byte \X Byte]
    <2> DEFINE cmd == IF a.ask = "mouse" THEN CMD_READ_VERSION ELSE CMD_DONGLE_VERSION
    <2>1. a.ask \in {"mouse", "receiver"} /\ value \in Byte \X Byte  BY <1>10
    <2>2. value \in Seq(Byte) /\ Len(value) <= 11
      <3>1. PICK x \in Byte, y \in Byte : value = <<x, y>>  BY <2>1
      <3> QED  BY <3>1, TuplesOfBytes
    <2>3. Sent(a.ask, value) = Report(cmd, 0, value)  BY <2>1 DEF Sent
    <2>4. \A r : Received(a.ask, value, r) = FirmwareIn(cmd, r)  BY <2>1 DEF Received
    <2>5. cmd \in Commands  BY <1>1
    <2> HIDE DEF cmd
    <2>6. \A r : Starts(r, cmd, value) => MayRead(a.ask, value, r)
      BY <2>1, <2>4, FirmwareAnswer
    <2> QED  BY <1>2, <2>2, <2>3, <2>5, <2>6, ReportRead
  <1>11. \/ a \in [ask : {"memory"}, value : Seq(Byte)] /\ Len(value) <= 10
         \/ /\ a \in [ask : {"battery"},
                      value : [voltage_mv : Word, percentage : Nat, charging : BOOLEAN,
                               device_percentage : Byte]]
            /\ value.percentage = voltage_to_percentage_table(value.voltage_mv)
         \/ a \in [ask : {"long distance", "online"}, value : BOOLEAN]
         \/ a \in [ask : {"address"}, value : Color]
         \/ a \in [ask : {"profile"}, value : Byte]
         \/ a \in [ask : {"pairing"}, value : PairStatus \X Byte]
         \/ a \in [ask : {"handshake"},
                   value : [cid : Byte, mid : Byte, connection_type : ConnectionType]]
         \/ a \in [ask : {"mouse", "receiver"}, value : Byte \X Byte]
    BY DEF Answerable
  <1> QED  BY <1>3, <1>4, <1>5, <1>6, <1>7, <1>8, <1>9, <1>10, <1>11

-----------------------------------------------------------------------------
(* Notifications. *)

\* The bits of a sum of flags can be told apart: 16 and 128 are not among them.
SumOfBits(n, a, b, c, d, e, f) ==
    {a, b, c, d, e, f} \subseteq {0, 1} /\ n = a + 2 * b + 4 * c + 8 * d + 32 * e + 64 * f

LEMMA BitsOfSum ==
    ASSUME NEW n, NEW a, NEW b, NEW c, NEW d, NEW e, NEW f, SumOfBits(n, a, b, c, d, e, f)
    PROVE  /\ (n \div 1) % 2 = a /\ (n \div 2) % 2 = b /\ (n \div 4) % 2 = c
           /\ (n \div 8) % 2 = d /\ (n \div 32) % 2 = e /\ (n \div 64) % 2 = f
  <1>1. n = a + 2 * b + 4 * c + 8 * d + 32 * e + 64 * f  BY DEF SumOfBits
  <1>2. a \in Int /\ b \in Int /\ c \in Int /\ d \in Int /\ e \in Int /\ f \in Int
    BY DEF SumOfBits
  <1>3. \A x \in {a, b, c, d, e, f} : 0 <= x /\ x <= 1  BY DEF SumOfBits
  <1>4. (n \div 1) % 2 = a  BY <1>1, <1>2, <1>3
  <1>5. (n \div 2) % 2 = b  BY <1>1, <1>2, <1>3
  <1>6. (n \div 4) % 2 = c  BY <1>1, <1>2, <1>3
  <1>7. (n \div 8) % 2 = d  BY <1>1, <1>2, <1>3
  <1>8. (n \div 32) % 2 = e  BY <1>1, <1>2, <1>3
  <1>9. (n \div 64) % 2 = f  BY <1>1, <1>2, <1>3
  <1> QED  BY <1>4, <1>5, <1>6, <1>7, <1>8, <1>9

\* The flags of a notification.
LEMMA StatusReadsBack ==
    ASSUME NEW flags \in SUBSET DOMAIN FlagBits
    PROVE  /\ is_status_changed_notification(StatusReport(flags))
           /\ Changed(parse_status_changed_notification(StatusReport(flags))) = flags
  <1> DEFINE in(what) == IF what \in flags THEN 1 ELSE 0
             bit(what) == IF what \in flags THEN FlagBits[what] ELSE 0
             n == bit("dpi") + bit("report_rate") + bit("profile") + bit("dpi_settings")
                    + bit("light") + bit("battery")
             r == <<REPORT_ID, CMD_STATUS_CHANGED, 0, 0, 0, 0, n>>
  <1>1. DOMAIN FlagBits = {"dpi", "report_rate", "profile", "dpi_settings", "light", "battery"}
    BY DEF FlagBits
  <1>2. /\ FlagBits["dpi"] = 1 /\ FlagBits["report_rate"] = 2 /\ FlagBits["profile"] = 4
        /\ FlagBits["dpi_settings"] = 8 /\ FlagBits["light"] = 32 /\ FlagBits["battery"] = 64
    BY DEF FlagBits
  <1>3. StatusReport(flags) = r  BY DEF StatusReport
  <1>4. n = in("dpi") + 2 * in("report_rate") + 4 * in("profile") + 8 * in("dpi_settings")
              + 32 * in("light") + 64 * in("battery")
    BY <1>2
  <1>5. \A what : in(what) \in {0, 1} /\ (in(what) = 1 <=> what \in flags)  OBVIOUS
  <1> HIDE DEF n, in
  <1>6. /\ (n \div 1) % 2 = in("dpi") /\ (n \div 2) % 2 = in("report_rate")
        /\ (n \div 4) % 2 = in("profile") /\ (n \div 8) % 2 = in("dpi_settings")
        /\ (n \div 32) % 2 = in("light") /\ (n \div 64) % 2 = in("battery")
    <2>1. /\ in("dpi") \in {0, 1} /\ in("report_rate") \in {0, 1} /\ in("profile") \in {0, 1}
          /\ in("dpi_settings") \in {0, 1} /\ in("light") \in {0, 1} /\ in("battery") \in {0, 1}
      BY <1>5
    <2>2. SumOfBits(n, in("dpi"), in("report_rate"), in("profile"), in("dpi_settings"),
                    in("light"), in("battery"))
      BY <1>4, <2>1 DEF SumOfBits
    <2> QED  BY <2>2, BitsOfSum
  <1>7. \A what \in DOMAIN FlagBits : (n \div FlagBits[what]) % 2 = 1 <=> what \in flags
    BY <1>1, <1>2, <1>5, <1>6
  <1>8. Changed(n) = flags  BY <1>7 DEF Changed
  <1>9. Len(r) = 7 /\ r[2] = CMD_STATUS_CHANGED /\ r[7] = n  OBVIOUS
  <1> HIDE DEF r
  <1>10. is_status_changed_notification(r)  BY <1>9 DEF is_status_changed_notification
  <1>11. parse_status_changed_notification(r) = n
    BY <1>9 DEF parse_status_changed_notification
  <1> QED  BY <1>3, <1>8, <1>10, <1>11

-----------------------------------------------------------------------------
(* Configurations. *)

\* A configuration keeps the settings that a message has, and gets defaults for the others.
LEMMA ConfigReadsBack ==
    ASSUME NEW s, s.kind = "config", s.v \in MouseConfig
    PROVE  ConfigFromProto(ConfigToProto(s.v)) = Carried(s)
  <1> DEFINE c == s.v
             proto == ConfigToProto(c)
             carried == [polling_rate |-> RateFromProto(proto.polling_rate),
                         lift_off_distance |-> LodFromProto(proto.lift_off_distance),
                         sleep_timeout_seconds |-> AsU16(proto.sleep_timeout_seconds),
                         dpi_stages |-> StagesFromProto(proto.dpi_stages),
                         current_dpi_index |-> proto.current_dpi_index]
             Names == {"polling_rate", "lift_off_distance", "sleep_timeout_seconds",
                       "dpi_stages", "current_dpi_index"}
             kept == [name \in Names |-> c[name]]
             switches == [name \in Switches |-> c[name]]
  <1>1. /\ c.polling_rate \in PollingRate /\ c.lift_off_distance \in LiftOffDistance
        /\ c.sleep_timeout_seconds \in Word /\ c.dpi_stages \in Seq(DpiStage)
        /\ c.current_dpi_index \in Byte
    BY DEF MouseConfig
  <1>2. /\ proto.polling_rate = RateToProto(c.polling_rate)
        /\ proto.lift_off_distance = LodToProto(c.lift_off_distance)
        /\ proto.sleep_timeout_seconds = c.sleep_timeout_seconds
        /\ proto.switches = switches
        /\ proto.dpi_stages = [i \in DOMAIN c.dpi_stages |-> StageToProto(c.dpi_stages[i])]
        /\ proto.current_dpi_index = c.current_dpi_index
    BY DEF ConfigToProto
  <1> HIDE DEF proto, switches
  <1>3. proto.dpi_stages = c.dpi_stages /\ StagesFromProto(proto.dpi_stages) = c.dpi_stages
        /\ c.dpi_stages # Invalid
    BY <1>1, <1>2, StagesReadBack
  <1>4. RateFromProto(proto.polling_rate) = c.polling_rate
        /\ LodFromProto(proto.lift_off_distance) = c.lift_off_distance
    BY <1>1, <1>2, RatesAndDistances
  <1>5. AsU16(proto.sleep_timeout_seconds) = c.sleep_timeout_seconds
    BY <1>1, <1>2, SettingsAreValid
  <1>6. /\ RateFromProto(proto.polling_rate) # Invalid
        /\ LodFromProto(proto.lift_off_distance) # Invalid
        /\ TryU8(proto.current_dpi_index) # Invalid
    <2>1. c.current_dpi_index \in Nat  BY <1>1, ByteIs
    <2> QED  BY <1>1, <1>2, <1>4, <2>1, SettingsAreValid
  <1>7. ConfigFromProto(proto) = WithDefaults(carried, proto.switches)
    BY <1>3, <1>6 DEF ConfigFromProto
  <1>8. DOMAIN carried = Names /\ DOMAIN kept = Names
    BY DEF Names
  <1>9. \A name \in Names : carried[name] = kept[name]
    <2>1. /\ carried["polling_rate"] = c["polling_rate"]
          /\ carried["lift_off_distance"] = c["lift_off_distance"]
          /\ carried["sleep_timeout_seconds"] = c["sleep_timeout_seconds"]
          /\ carried["dpi_stages"] = c["dpi_stages"]
          /\ carried["current_dpi_index"] = c["current_dpi_index"]
      BY <1>2, <1>3, <1>4, <1>5
    <2> HIDE DEF carried
    <2> QED  BY <2>1
  <1>10. Carried(s) = WithDefaults(kept, switches)  BY DEF Carried, switches
  <1> HIDE DEF carried, kept, Names
  <1>11. WithDefaults(carried, switches) = WithDefaults(kept, switches)
    BY <1>8, <1>9 DEF WithDefaults
  <1> QED  BY <1>2, <1>7, <1>10, <1>11 DEF proto

-----------------------------------------------------------------------------
(* Damage on the way. *)

\* What Decode reads after Damage and after Cut.
LEMMA DamagedKeyRead ==
    ASSUME NEW s, Typed(s), s.kind = "key",
           NEW i \in DOMAIN Encoded(s), NEW d \in Changes
    PROVE  Decoded(s, WithDamage(Encoded(s), i, d)) = Invalid
  <1> DEFINE w == Encoded(s)
  <1>1. s.v \in KeyFunction
    <2>1. Sendable("key") = KeyFunction  BY DEF Sendable
    <2> QED  BY <2>1 DEF Typed
  <1>2. w = EncodeKey(s.v)  BY DEF Encoded
  <1>3. Decoded(s, WithDamage(w, i, d)) = DecodeKey(WithDamage(w, i, d))  BY DEF Decoded
  <1> HIDE DEF w
  <1>4. i \in DOMAIN EncodeKey(s.v)  BY <1>2 DEF w
  <1>5. DecodeKey(WithDamage(EncodeKey(s.v), i, d)) = Invalid  BY <1>1, <1>4, KeyDamage
  <1> QED  BY <1>2, <1>3, <1>5 DEF w

LEMMA DamagedPacketRead ==
    ASSUME NEW s, Typed(s), s.kind = "packet",
           NEW i \in DOMAIN Encoded(s), NEW d \in Changes
    PROVE  Decoded(s, WithDamage(Encoded(s), i, d)) = Invalid
  <1> DEFINE w == Encoded(s)
  <1>1. s.v \in Buildable
    <2>1. Sendable("packet") = Buildable  BY DEF Sendable
    <2> QED  BY <2>1 DEF Typed
  <1>2. w = Built(s.v)  BY DEF Encoded
  <1>3. Decoded(s, WithDamage(w, i, d)) = ReadPacket(WithDamage(w, i, d))  BY DEF Decoded
  <1> HIDE DEF w
  <1>4. i \in DOMAIN Built(s.v)  BY <1>2 DEF w
  <1>5. ReadPacket(WithDamage(Built(s.v), i, d)) = Invalid  BY <1>1, <1>4, PacketDamage
  <1> QED  BY <1>2, <1>3, <1>5 DEF w

LEMMA CutAnswerRead ==
    ASSUME NEW s, Typed(s), s.kind = "answer", NEW n \in 1..16
    PROVE  Decoded(s, SubSeq(Encoded(s), 1, n)) \in {Invalid, s.v.value}
  <1> DEFINE w == SubSeq(Encoded(s), 1, n)
  <1>1. s.v \in Answerable
    <2>1. Sendable("answer") = Answerable  BY DEF Sendable
    <2> QED  BY <2>1 DEF Typed
  <1>2. w = SubSeq(Sent(s.v.ask, s.v.value), 1, n)  BY DEF Encoded
  <1>3. Decoded(s, w) = Received(s.v.ask, s.v.value, w)  BY DEF Decoded
  <1> HIDE DEF w
  <1>4. n \in 0..17  OBVIOUS
  <1>5. MayRead(s.v.ask, s.v.value, w)
    <2>1. ReadSafely(s.v, n)  BY <1>1, <1>4, AnswerIs
    <2> QED  BY <1>2, <2>1 DEF ReadSafely
  <1> QED  BY <1>3, <1>5 DEF MayRead, w

\* One damaged byte in a key function or in a packet never passes for a valid one, and of
\* an answer that is cut short nothing is read that it does not contain.
THEOREM DamageDetectedCorrect == Spec => []DamageDetected
  <1>1. Inv => DamageDetected
    <2> SUFFICES ASSUME Inv, damaged, back # Nothing
                 PROVE  back = Invalid \/ (subject.kind = "answer" /\ back = subject.v.value)
      BY DEF DamageDetected
    <2>1. Typed(subject) /\ back = Decoded(subject, wire) /\ OnWire(subject, wire)  BY DEF Inv
    <2>2. ASSUME subject.kind \in Checked, NEW i \in DOMAIN Encoded(subject),
                 NEW d \in Changes, wire = WithDamage(Encoded(subject), i, d)
          PROVE  back = Invalid
      <3>1. subject.kind = "key" \/ subject.kind = "packet"  BY <2>2 DEF Checked
      <3> QED  BY <2>1, <2>2, <3>1, DamagedKeyRead, DamagedPacketRead
    <2>3. ASSUME subject.kind = "answer", NEW n \in 1..16, wire = SubSeq(Encoded(subject), 1, n)
          PROVE  back \in {Invalid, subject.v.value}
      BY <2>1, <2>3, CutAnswerRead
    <2> QED  BY <2>1, <2>2, <2>3 DEF OnWire
  <1> QED  BY <1>1, InvHolds, PTL

-----------------------------------------------------------------------------
(* What is read back. *)

\* What the first 30 bytes of a name read as are the characters that fit, and U+FFFD for
\* one that is cut.
LEMMA CutNameReads ==
    ASSUME NEW name \in Seq(1..255), IsText(name)
    PROVE  Lossy[SubSeq(name, 1, MinOf(Len(name), 30))] = CutName(name)
  <1> DEFINE limit == MinOf(Len(name), 30)
             ends  == {n \in 0..limit : n = 0 \/ EndsChar(name, n)}
             IsLast(n) == \A other \in ends : other <= n
             whole == CHOOSE n \in ends : IsLast(n)
  <1>1. name \in Seq(Byte)
    <2> DEFINE X == 1..255
    <2>1. X \subseteq Byte
      <3>1. \A x \in X : x \in Int /\ 1 <= x /\ x <= 255  OBVIOUS
      <3> HIDE DEF X
      <3> QED  BY <3>1, ByteIs
    <2>2. name \in Seq(X)  OBVIOUS
    <2> HIDE DEF X
    <2>3. \A i \in 1..Len(name) : name[i] \in X  BY <2>2, ElementsOf
    <2> QED  BY <2>1, <2>2, <2>3
  <1>2. Len(name) \in Nat /\ limit \in 0..Len(name) /\ limit \in Nat
    <2>1. Len(name) \in Nat  BY <1>1, ElementsOf
    <2> QED  BY <2>1 DEF MinOf
  <1>3. CutName(name) =
          SubSeq(name, 1, whole) \o (IF whole < limit THEN Replacement ELSE << >>)
    BY DEF CutName, MAX_NAME_LENGTH
  <1> HIDE DEF limit
  <1>4. \E n \in ends : IsLast(n)
    <2>1. CASE limit = 0 \/ EndsChar(name, limit)
      <3>1. limit \in ends  BY <1>2, <2>1
      <3>2. \A other \in ends : other <= limit  BY <1>2
      <3> QED  BY <3>1, <3>2
    <2>2. CASE ~(limit = 0 \/ EndsChar(name, limit))
      <3>1. limit \in 1..Len(name)  BY <1>2, <2>2
      <3>2. TextAt(name)  BY <1>1, TextIs
      <3>3. PICK f \in 1..limit, last \in limit..Len(name) :
               /\ f - 1 = 0 \/ EndsChar(name, f - 1)
               /\ \A j \in f..last : EndsChar(name, j) <=> j = last
        BY <1>1, <3>1, <3>2, StartIs
      <3>4. f - 1 \in ends  BY <1>2, <3>3
      <3>5. ASSUME NEW j \in ends PROVE j <= f - 1
        <4> SUFFICES ASSUME ~(j <= f - 1) PROVE FALSE  OBVIOUS
        <4>1. j \in Int /\ 0 <= j /\ j <= limit /\ (j = 0 \/ EndsChar(name, j))  BY <1>2
        <4>2. j \in f..last /\ j # 0  BY <1>2, <3>3, <4>1
        <4>3. j = last  BY <3>3, <4>1, <4>2
        <4>4. j = limit  BY <1>2, <3>3, <4>1, <4>3
        <4> QED  BY <2>2, <4>1, <4>2, <4>4
      <3> QED  BY <3>4, <3>5
    <2> QED  BY <2>1, <2>2
  <1>5. whole \in ends /\ IsLast(whole)  BY <1>4
  <1> HIDE DEF whole
  <1>6. whole \in 0..limit /\ (whole = 0 \/ EndsChar(name, whole))  BY <1>5
  <1>7. \A j \in (whole + 1)..limit : ~EndsChar(name, j)
    <2> SUFFICES ASSUME NEW j \in (whole + 1)..limit, EndsChar(name, j) PROVE FALSE
      OBVIOUS
    <2>1. j \in ends  BY <1>2, <1>6
    <2>2. j <= whole  BY <1>5, <2>1
    <2> QED  BY <1>2, <1>6, <2>2
  <1>8. Lossy[SubSeq(name, 1, limit)] =
          SubSeq(name, 1, whole) \o (IF whole < limit THEN Replacement ELSE << >>)
    BY <1>1, <1>2, <1>6, <1>7, LossyIs
  <1> QED  BY <1>3, <1>8 DEF limit

\* Every codec brings back what it promises, whole answers and short shortcuts included.
LEMMA ReadsBack ==
    ASSUME NEW s, Typed(s), s.kind # "voltage",
           s.kind = "shortcut" => Len(s.v) <= MAX_SHORTCUT_EVENTS
    PROVE  Decoded(s, Encoded(s)) = Carried(s)
  <1> DEFINE v == s.v
  <1>1. v \in Sendable(s.kind)  BY DEF Typed
  <1>2. CASE s.kind = "dpi"
    <2>1. v \in DPI_MIN..DPI_MAX
      <3>1. Sendable("dpi") = DPI_MIN..DPI_MAX  BY DEF Sendable
      <3> QED  BY <1>1, <1>2, <3>1
    <2>2. Encoded(s) = encode_dpi(v)  BY <1>2 DEF Encoded
    <2>3. \A b : Decoded(s, b) = decode_dpi(b)  BY <1>2 DEF Decoded
    <2>4. Carried(s) = v - (v % DPI_STEP)  BY <1>2 DEF Carried
    <2> HIDE DEF v
    <2> QED  BY <2>1, <2>2, <2>3, <2>4, DpiReadsBack
  <1>3. CASE s.kind = "color"
    <2>1. v \in Color
      <3>1. Sendable("color") = Color  BY DEF Sendable
      <3> QED  BY <1>1, <1>3, <3>1
    <2>2. Encoded(s) = encode_dpi_color(v)  BY <1>3 DEF Encoded
    <2>3. \A b : Decoded(s, b) = SubSeq(b, 1, 3)  BY <1>3 DEF Decoded
    <2>4. Carried(s) = v  BY <1>3 DEF Carried
    <2> HIDE DEF v
    <2> QED  BY <2>1, <2>2, <2>3, <2>4, ColorReadsBack
  <1>4. CASE s.kind = "rate"
    <2>1. v \in PollingRate
      <3>1. Sendable("rate") = PollingRate  BY DEF Sendable
      <3> QED  BY <1>1, <1>4, <3>1
    <2>2. Encoded(s) = <<PollingRateCode[v], encode_report_rate(v)>>  BY <1>4 DEF Encoded
    <2>3. \A b : Decoded(s, b) = <<decode_report_rate(b[1]), FromCode(PollingRateCode, b[2])>>
      BY <1>4 DEF Decoded
    <2>4. Carried(s) = <<v, v>>  BY <1>4 DEF Carried
    <2> HIDE DEF v
    <2> QED  BY <2>1, <2>2, <2>3, <2>4, RateReadsBack
  <1>5. CASE s.kind = "lift-off"
    <2>1. v \in LiftOffDistance
      <3>1. Sendable("lift-off") = LiftOffDistance  BY DEF Sendable
      <3> QED  BY <1>1, <1>5, <3>1
    <2>2. Encoded(s) = <<LiftOffCode[v]>>  BY <1>5 DEF Encoded
    <2>3. \A b : Decoded(s, b) = FromCode(LiftOffCode, b[1])  BY <1>5 DEF Decoded
    <2>4. Carried(s) = v  BY <1>5 DEF Carried
    <2> HIDE DEF v
    <2> QED  BY <2>1, <2>2, <2>3, <2>4, LiftOffReadsBack
  <1>6. CASE s.kind = "sleep time"
    <2>1. v \in SleepTime
      <3>1. Sendable("sleep time") = SleepTime  BY DEF Sendable
      <3> QED  BY <1>1, <1>6, <3>1
    <2>2. Encoded(s) = <<SleepTimeCode[v]>>  BY <1>6 DEF Encoded
    <2>3. \A b : Decoded(s, b) = FromCode(SleepTimeCode, b[1])  BY <1>6 DEF Decoded
    <2>4. Carried(s) = v  BY <1>6 DEF Carried
    <2> HIDE DEF v
    <2> QED  BY <2>1, <2>2, <2>3, <2>4, SleepTimeReadsBack
  <1>7. CASE s.kind = "next rate"
    <2>1. v \in PollingRate
      <3>1. Sendable("next rate") = PollingRate  BY DEF Sendable
      <3> QED  BY <1>1, <1>7, <3>1
    <2>2. Encoded(s) = <<NextRate(v)>>  BY <1>7 DEF Encoded
    <2>3. \A b : Decoded(s, b) = PrevRate(b[1])  BY <1>7 DEF Decoded
    <2>4. Carried(s) = v  BY <1>7 DEF Carried
    <2> HIDE DEF v
    <2> QED  BY <2>1, <2>2, <2>3, <2>4, PrevOfNextRate
  <1>8. CASE s.kind = "next lift-off"
    <2>1. v \in LiftOffDistance
      <3>1. Sendable("next lift-off") = LiftOffDistance  BY DEF Sendable
      <3> QED  BY <1>1, <1>8, <3>1
    <2>2. Encoded(s) = <<NextLiftOff[v]>>  BY <1>8 DEF Encoded
    <2>3. \A b : Decoded(s, b) = PrevLiftOff[b[1]]  BY <1>8 DEF Decoded
    <2>4. Carried(s) = v  BY <1>8 DEF Carried
    <2> HIDE DEF v
    <2> QED  BY <2>1, <2>2, <2>3, <2>4, LiftOffReadsBack
  <1>9. CASE s.kind = "brightness"
    <2>1. v \in Byte
      <3>1. Sendable("brightness") = Byte  BY DEF Sendable
      <3> QED  BY <1>1, <1>9, <3>1
    <2>2. Encoded(s) = <<encode_brightness(v)>>  BY <1>9 DEF Encoded
    <2>3. \A b : Decoded(s, b) = decode_brightness(b[1])  BY <1>9 DEF Decoded
    <2>4. Carried(s) = Clamp(v, 1, 10)  BY <1>9 DEF Carried
    <2> HIDE DEF v
    <2> QED  BY <2>1, <2>2, <2>3, <2>4, BrightnessReadsBack
  <1>10. CASE s.kind = "cycles"
    <2>1. v \in Byte
      <3>1. Sendable("cycles") = Byte  BY DEF Sendable
      <3> QED  BY <1>1, <1>10, <3>1
    <2>2. Encoded(s) = <<CycleByte(v)>>  BY <1>10 DEF Encoded
    <2>3. \A b : Decoded(s, b) = CycleByte(b[1])  BY <1>10 DEF Decoded
    <2>4. Carried(s) = IF v \in {0, 251, 252} THEN Clamp(v, 1, 250) ELSE v
      BY <1>10 DEF Carried
    <2> HIDE DEF v
    <2> QED  BY <2>1, <2>2, <2>3, <2>4, CyclesReadBack
  <1>11. CASE s.kind = "key"
    <2>1. v \in KeyFunction
      <3>1. Sendable("key") = KeyFunction  BY DEF Sendable
      <3> QED  BY <1>1, <1>11, <3>1
    <2>2. Encoded(s) = EncodeKey(v)  BY <1>11 DEF Encoded
    <2>3. \A b : Decoded(s, b) = DecodeKey(b)  BY <1>11 DEF Decoded
    <2>4. Carried(s) = v  BY <1>11 DEF Carried
    <2> HIDE DEF v
    <2> QED  BY <2>1, <2>2, <2>3, <2>4, KeyReadsBack
  <1>12. CASE s.kind = "shortcut event"
    <2>1. v \in ShortcutEvent
      <3>1. Sendable("shortcut event") = ShortcutEvent  BY DEF Sendable
      <3> QED  BY <1>1, <1>12, <3>1
    <2>2. Encoded(s) = EncodeShortcutEvent(v)  BY <1>12 DEF Encoded
    <2>3. \A b : Decoded(s, b) = DecodeShortcutEvent(b)  BY <1>12 DEF Decoded
    <2>4. Carried(s) = v  BY <1>12 DEF Carried
    <2> HIDE DEF v
    <2> QED  BY <2>1, <2>2, <2>3, <2>4, ShortcutEventReadsBack
  <1>13. CASE s.kind = "shortcut"
    <2>1. v \in {e \in Seq(ShortcutEvent) : Len(e) <= 20}
      <3>1. Sendable("shortcut") = {e \in Seq(ShortcutEvent) : Len(e) <= 20}  BY DEF Sendable
      <3> QED  BY <1>1, <1>13, <3>1
    <2>2. Encoded(s) = EncodeShortcut(v)  BY <1>13 DEF Encoded
    <2>3. \A b : Decoded(s, b) = DecodeShortcut(b)  BY <1>13 DEF Decoded
    <2>4. Carried(s) = v  BY <1>13 DEF Carried
    <2>5. v \in Seq(ShortcutEvent) /\ Len(v) <= MAX_SHORTCUT_EVENTS  BY <1>13, <2>1
    <2> HIDE DEF v
    <2> QED  BY <2>2, <2>3, <2>4, <2>5, ShortcutReadsBack
  <1>14. CASE s.kind = "macro event"
    <2>1. v \in MacroEvent
      <3>1. Sendable("macro event") = MacroEvent  BY DEF Sendable
      <3> QED  BY <1>1, <1>14, <3>1
    <2>2. Encoded(s) = EncodeMacroEvent(v)  BY <1>14 DEF Encoded
    <2>3. \A b : Decoded(s, b) = DecodeMacroEvent(b)  BY <1>14 DEF Decoded
    <2>4. Carried(s) = v  BY <1>14 DEF Carried
    <2> HIDE DEF v
    <2> QED  BY <2>1, <2>2, <2>3, <2>4, MacroEventReadsBack
  <1>15. CASE s.kind = "macro"
    <2>1. v \in [name : {n \in Seq(1..255) : IsText(n)}, events : Seq(MacroEvent)]
      <3>1. Sendable("macro") =
              [name : {n \in Seq(1..255) : IsText(n)}, events : Seq(MacroEvent)]
        BY DEF Sendable
      <3> QED  BY <1>1, <1>15, <3>1
    <2>2. Encoded(s) = EncodeMacro(v)  BY <1>15 DEF Encoded
    <2>3. \A b : Decoded(s, b) = DecodeMacro(b)  BY <1>15 DEF Decoded
    <2>4. Carried(s) = [name   |-> CutName(v.name),
                        events |-> SubSeq(v.events, 1, MinOf(Len(v.events), 70))]
      BY <1>15 DEF Carried
    <2>5. v.name \in Seq(1..255) /\ IsText(v.name) /\ v.events \in Seq(MacroEvent)  BY <2>1
    <2> HIDE DEF v
    <2>6. Lossy[SubSeq(v.name, 1, MinOf(Len(v.name), 30))] = CutName(v.name)
      BY <2>5, CutNameReads
    <2> QED  BY <2>2, <2>3, <2>4, <2>5, <2>6, MacroReadsBack
  <1>16. CASE s.kind = "packet"
    <2>1. v \in Buildable
      <3>1. Sendable("packet") = Buildable  BY DEF Sendable
      <3> QED  BY <1>1, <1>16, <3>1
    <2>2. Encoded(s) = Built(v)  BY <1>16 DEF Encoded
    <2>3. \A b : Decoded(s, b) = ReadPacket(b)  BY <1>16 DEF Decoded
    <2>4. Carried(s) = [v EXCEPT !.data = SubSeq(Padded(@), 1, v.length)]
      BY <1>16 DEF Carried
    <2> HIDE DEF v
    <2> QED  BY <2>1, <2>2, <2>3, <2>4, PacketReadsBack
  <1>17. CASE s.kind = "answer"
    <2>1. v \in Answerable
      <3>1. Sendable("answer") = Answerable  BY DEF Sendable
      <3> QED  BY <1>1, <1>17, <3>1
    <2>2. Encoded(s) = Sent(v.ask, v.value)  BY <1>17 DEF Encoded
    <2>3. \A b : Decoded(s, b) = Received(v.ask, v.value, b)  BY <1>17 DEF Decoded
    <2>4. Carried(s) = v.value  BY <1>17 DEF Carried
    <2> HIDE DEF v
    <2>5. Received(v.ask, v.value, Sent(v.ask, v.value)) = v.value
      <3>1. 0 \in 0..17  OBVIOUS
      <3>2. ReadSafely(v, 0)  BY <2>1, <3>1, AnswerIs
      <3> QED  BY <3>2 DEF ReadSafely, MayRead
    <2> QED  BY <2>2, <2>3, <2>4, <2>5
  <1>18. CASE s.kind = "status"
    <2>1. v \in SUBSET DOMAIN FlagBits
      <3>1. Sendable("status") = SUBSET DOMAIN FlagBits  BY DEF Sendable
      <3> QED  BY <1>1, <1>18, <3>1
    <2>2. Encoded(s) = StatusReport(v)  BY <1>18 DEF Encoded
    <2>3. \A b : Decoded(s, b) = IF is_status_changed_notification(b)
             THEN Changed(parse_status_changed_notification(b)) ELSE Invalid
      BY <1>18 DEF Decoded
    <2>4. Carried(s) = v  BY <1>18 DEF Carried
    <2> HIDE DEF v
    <2> QED  BY <2>1, <2>2, <2>3, <2>4, StatusReadsBack
  <1>19. CASE s.kind = "config"
    <2>1. v \in MouseConfig
      <3>1. Sendable("config") = MouseConfig  BY DEF Sendable
      <3> QED  BY <1>1, <1>19, <3>1
    <2>2. Encoded(s) = <<ConfigToProto(v)>>  BY <1>19 DEF Encoded
    <2>3. \A b : Decoded(s, b) = ConfigFromProto(b[1])  BY <1>19 DEF Decoded
    <2> QED  BY <1>19, <2>1, <2>2, <2>3, ConfigReadsBack
  <1>20. CASE s.kind = "profile"
    <2>1. v \in Message
      <3>1. Sendable("profile") = Message  BY DEF Sendable, Message
      <3> QED  BY <1>1, <1>20, <3>1
    <2>2. Encoded(s) = <<proto_to_profile_config(v)>>  BY <1>20 DEF Encoded
    <2>3. \A b : Decoded(s, b) = <<profile_to_proto(b[1]), profile_config_to_mouse_config(b[1])>>
      BY <1>20 DEF Decoded
    <2>4. Carried(s) = <<[v EXCEPT !.sleep_timeout_seconds = AsU16(@)], ConfigFromProto(v)>>
      BY <1>20 DEF Carried
    <2> DEFINE profile == proto_to_profile_config(v)
               cut == [v EXCEPT !.sleep_timeout_seconds = AsU16(@)]
               config == ConfigFromProto(v)
    <2>5. profile_to_proto(profile) = cut /\ profile_config_to_mouse_config(profile) = config
      BY <2>1, ProfileReadsBack
    <2>6. Encoded(s) = <<profile>> /\ Carried(s) = <<cut, config>>  BY <2>2, <2>4
    <2> HIDE DEF v, profile, cut, config
    <2> QED  BY <2>3, <2>5, <2>6
  <1>21. s.kind \in Kinds  BY DEF Typed
  <1> QED
    BY <1>2, <1>3, <1>4, <1>5, <1>6, <1>7, <1>8, <1>9, <1>10, <1>11, <1>12, <1>13, <1>14,
       <1>15, <1>16, <1>17, <1>18, <1>19, <1>20, <1>21 DEF Kinds

\* Bytes that arrive as they were sent decode to the value they were made from, as far as
\* the codec can carry it: DPI values rounded down, names and lists cut to their limits.
THEOREM ReadsBackWhatWasSentCorrect == Spec => []ReadsBackWhatWasSent
  <1>1. Inv => ReadsBackWhatWasSent
    <2> SUFFICES ASSUME Inv, back # Nothing, ~damaged, subject.kind # "voltage",
                        ~(subject.kind = "shortcut" /\ Len(subject.v) > MAX_SHORTCUT_EVENTS)
                 PROVE  back = Carried(subject)
      BY DEF ReadsBackWhatWasSent
    <2>1. Typed(subject) /\ back = Decoded(subject, Encoded(subject))  BY DEF Inv
    <2>2. subject.kind = "shortcut" => Len(subject.v) <= MAX_SHORTCUT_EVENTS
      <3> SUFFICES ASSUME subject.kind = "shortcut" PROVE Len(subject.v) <= MAX_SHORTCUT_EVENTS
        OBVIOUS
      <3>1. Sendable("shortcut") = {e \in Seq(ShortcutEvent) : Len(e) <= 20}
        BY DEF Sendable
      <3>2. subject.v \in Seq(ShortcutEvent)  BY <2>1, <3>1 DEF Typed
      <3>3. Len(subject.v) \in Nat  BY <3>2, ElementsOf
      <3> QED  BY <3>3 DEF MAX_SHORTCUT_EVENTS
    <2> QED  BY <2>1, <2>2, ReadsBack
  <1> QED  BY <1>1, InvHolds, PTL
=============================================================================
