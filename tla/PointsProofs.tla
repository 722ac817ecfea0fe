---------------------------- MODULE PointsProofs ----------------------------
(***************************************************************************)
(* Theorems about Publication that need the values in the banks: the       *)
(* currents of the phases, the trip points and, for TypeOK, every register *)
(* of every model; for any contents of the sources and any fleet of at     *)
(* most 254 inverters.                                                     *)
(***************************************************************************)
EXTENDS FleetProofs

----------------------------------------------------------------------------
(* What Build makes of a row.                                              *)

LEMMA JoinedFields ==
    ASSUME NEW row, NEW limits, NEW events, NEW list
    PROVE  LET inv == Joined(ParseInverterLine(row), limits, events, list)
               meta == Listed(list)
           IN  /\ inv.uid = row.uid /\ inv.online = row.online /\ inv.type = row.type
               /\ inv.freq = IF Short(row) THEN 0 ELSE row.freq
               /\ inv.temp = IF Short(row) THEN 0 ELSE row.tail[1] - 100
               /\ inv.vac = ACVoltage(row.type, row.tail)
               /\ inv.pac = ACPower(row.type, row.tail)
               /\ inv.tail = row.tail
               /\ inv.phase = IF row.uid \in DOMAIN meta THEN meta[row.uid].phase ELSE 0
               /\ inv.model = IF row.uid \in DOMAIN meta THEN meta[row.uid].model ELSE 0
               /\ inv.limit = IF row.uid \in DOMAIN limits THEN limits[row.uid] ELSE 0
<1> DEFINE inv == ParseInverterLine(row)
           out == Joined(inv, limits, events, list)
           meta == Listed(list)
<1>1. DOMAIN inv = {"uid", "online", "type", "freq", "temp", "vac", "pac", "tail", "phase",
                    "model", "limit", "events"}
  BY DEF ParseInverterLine
<1>2. /\ inv.uid = row.uid /\ inv.online = row.online /\ inv.type = row.type
      /\ inv.freq = IF Short(row) THEN 0 ELSE row.freq
      /\ inv.temp = IF Short(row) THEN 0 ELSE row.tail[1] - 100
      /\ inv.vac = ACVoltage(row.type, row.tail)
      /\ inv.pac = ACPower(row.type, row.tail)
      /\ inv.tail = row.tail
  BY DEF ParseInverterLine
<1> HIDE DEF inv
<1> DEFINE a == IF inv.uid \in DOMAIN meta THEN meta[inv.uid].phase ELSE 0
           b == IF inv.uid \in DOMAIN meta THEN meta[inv.uid].model ELSE 0
           c == IF inv.uid \in DOMAIN limits THEN limits[inv.uid] ELSE 0
           d == IF inv.uid \in DOMAIN events THEN EventBits(events[inv.uid]) ELSE {}
<1>3. out = [inv EXCEPT !.phase = a, !.model = b, !.limit = c, !.events = d]
  BY DEF Joined
<1>4. /\ a = IF row.uid \in DOMAIN meta THEN meta[row.uid].phase ELSE 0
      /\ b = IF row.uid \in DOMAIN meta THEN meta[row.uid].model ELSE 0
      /\ c = IF row.uid \in DOMAIN limits THEN limits[row.uid] ELSE 0
  BY <1>2
<1> HIDE DEF out, a, b, c, d, meta
<1>5. /\ out.uid = inv.uid /\ out.online = inv.online /\ out.type = inv.type
      /\ out.freq = inv.freq /\ out.temp = inv.temp /\ out.vac = inv.vac
      /\ out.pac = inv.pac /\ out.tail = inv.tail
      /\ out.phase = a /\ out.model = b /\ out.limit = c
  BY <1>1, <1>3
<1>6. QED
  BY <1>2, <1>4, <1>5 DEF out, inv, meta

LEMMA WordIs ==
    ASSUME NEW x \in Words PROVE x \in Nat /\ x <= 65535
BY DEF Words

\* A voltage is a column of the tail, or not known.
LEMMA ACVoltageIs ==
    ASSUME NEW type, NEW tail \in Seq(Words) PROVE ACVoltage(type, tail) \in Words
<1>1. CASE PowerColumns(type, tail) = << >>
  BY <1>1 DEF ACVoltage, Words
<1>2. CASE PowerColumns(type, tail) # << >>
  <2>1. Len(tail) >= 5
    BY <1>2 DEF PowerColumns
  <2>2. tail[3] \in Words
    BY <2>1
  <2>3. QED
    BY <1>2, <2>2 DEF ACVoltage
<1>3. QED
  BY <1>1, <1>2

----------------------------------------------------------------------------
(* Averages.                                                               *)

\* An average of words is one: their sum is no more than their count allows.
LEMMA AverageIs ==
    ASSUME NEW values, NEW n \in Nat, DOMAIN values = 1 .. n,
           \A j \in 1 .. n : values[j] \in Words, NEW places, places \subseteq 1 .. n
    PROVE  LET a == Average(values, places)
           IN  a.sum \in Nat /\ a.n \in Nat /\ a.sum <= 65535 * a.n
<1> DEFINE known == {j \in places : values[j] > 0}
           v == [j \in 1 .. n |-> IF j \in known THEN values[j] ELSE 0]
           upTo(k) == {j \in known : j <= k}
           top == 65535
           S == {t \in Nat \X Nat \X Nat : t[2] <= top * Cardinality(upTo(t[1]))}
<1>1. Average(values, places) = [sum |-> Total(v), n |-> Cardinality(known)]
  BY DEF Average
<1>2. known \subseteq 1 .. n
  OBVIOUS
<1>3. IsFiniteSet(known) /\ Cardinality(known) \in Nat
  <2> HIDE DEF known
  <2>1. IsFiniteSet(1 .. n)
    BY FS_Interval
  <2>2. QED
    BY <1>2, <2>1, FS_Subset, FS_CardinalityType
<1>4. \A j \in 1 .. n : v[j] \in Nat /\ (j \in known => v[j] <= top) /\ (j \notin known => v[j] = 0)
  <2> TAKE j \in 1 .. n
  <2>1. values[j] \in Nat /\ values[j] <= 65535
    BY WordIs
  <2>2. v[j] = IF j \in known THEN values[j] ELSE 0
    OBVIOUS
  <2> HIDE DEF known, v
  <2>3. QED
    BY <2>1, <2>2
<1>5. IsSeq(v, n)
  <2>1. v = [j \in 1 .. n |-> v[j]]
    OBVIOUS
  <2> HIDE DEF v
  <2>2. QED
    BY <2>1, FunctionIsSeq
<1>6. \A k \in Nat : IsFiniteSet(upTo(k)) /\ Cardinality(upTo(k)) \in Nat
  <2> TAKE k \in Nat
  <2>1. upTo(k) \subseteq known
    OBVIOUS
  <2> HIDE DEF upTo
  <2>2. QED
    BY <1>3, <2>1, FS_Subset, FS_CardinalityType
<1>7. top \in Nat /\ top = 65535
  OBVIOUS
<1> HIDE DEF top
<1>8. <<0, 0, 0>> \in S
  <2> DEFINE c == Cardinality(upTo(0))
  <2>1. c \in Nat
    BY <1>6
  <2> HIDE DEF c, upTo
  <2>2. top * c \in Nat
    BY <1>7, <2>1
  <2>3. <<0, 0, 0>> \in Nat \X Nat \X Nat /\ 0 <= top * c
    BY <2>2
  <2>4. QED
    BY <2>3 DEF c
<1>9. ASSUME NEW k \in 0 .. n - 1, NEW x, NEW y, <<k, x, y>> \in S
      PROVE  <<k + 1, x + v[k + 1], y + v[k + 1]>> \in S
  <2> DEFINE a == v[k + 1]
             c == Cardinality(upTo(k))
             d == Cardinality(upTo(k + 1))
             b == k + 1
  <2>1. k \in Nat /\ x \in Nat /\ y \in Nat /\ x <= top * c
    BY <1>9
  <2>2. b \in 1 .. n /\ a \in Nat /\ c \in Nat /\ d \in Nat
    <3> HIDE DEF upTo, v, known
    <3>1. b \in 1 .. n
      OBVIOUS
    <3>2. a \in Nat
      BY <1>4, <3>1
    <3>3. k \in Nat /\ k + 1 \in Nat
      OBVIOUS
    <3>4. c \in Nat /\ d \in Nat
      BY <1>6, <3>3
    <3>5. QED
      BY <3>1, <3>2, <3>4
  <2>3. ASSUME b \in known PROVE x + a <= top * d
    <3>1. upTo(k + 1) = upTo(k) \cup {b} /\ b \notin upTo(k)
      BY <1>2, <2>3
    <3>2. IsFiniteSet(upTo(k))
      BY <1>6
    <3> HIDE DEF upTo, b
    <3>3. d = c + 1
      BY <3>1, <3>2, FS_AddElement
    <3>4. a <= top
      BY <1>4, <2>2, <2>3 DEF b
    <3> HIDE DEF a, c, d
    <3>5. top * d = top * c + top /\ top * c \in Nat
      BY <1>7, <2>2, <3>3
    <3>6. x + a <= top * d
      BY <1>7, <2>1, <2>2, <3>4, <3>5
    <3>7. QED
      BY <3>6
  <2>4. ASSUME b \notin known PROVE x + a <= top * d
    <3>1. upTo(k + 1) = upTo(k)
      BY <1>2, <2>4
    <3>2. a = 0
      BY <1>4, <2>2, <2>4
    <3>3. d = c
      BY <3>1
    <3> HIDE DEF a, c, d
    <3>4. QED
      BY <2>1, <3>2, <3>3
  <2>5. x + a <= top * d
    BY <2>3, <2>4
  <2>6. b \in Nat /\ x + a \in Nat /\ y + a \in Nat
    BY <2>1, <2>2
  <2> HIDE DEF upTo, v, a
  <2>7. <<b, x + a, y + a>> \in S
    <3>1. x + a <= top * Cardinality(upTo(b))
      BY <2>5
    <3> HIDE DEF b
    <3>2. QED
      BY <2>6, <3>1
  <2>8. QED
    BY <2>7 DEF a
<1> HIDE DEF S
<1>10. <<n, Total(v), Total(v)>> \in S
  <2> HIDE DEF v
  <2>1. QED
    BY <1>5, <1>8, <1>9, TotalsTogether
<1>11. Total(v) \in Nat /\ Total(v) <= top * Cardinality(upTo(n))
  BY <1>10 DEF S
<1>12. upTo(n) = known
  BY <1>2
<1> HIDE DEF upTo, known, v
<1>13. QED
  BY <1>1, <1>3, <1>7, <1>11, <1>12

----------------------------------------------------------------------------
(* Rounding.                                                               *)

\* r is a / b, rounded.
Rounded(a, b, r) == 2 * (b * r) <= 2 * a + b /\ 2 * a + b < 2 * (b * r) + 2 * b

\* It is no more than k.
RoundsBelow(a, b, k) == 2 * a + b < 2 * (b * k) + 2 * b

\* So is what Round returns, if that fits the register.
LEMMA RoundFits ==
    ASSUME NEW a \in Nat, NEW b \in Nat, b > 0, NEW k \in Nat, k <= 65535, RoundsBelow(a, b, k)
    PROVE  Round(a, b) \in Nat /\ Round(a, b) <= k /\ Rounded(a, b, Round(a, b))
<1> DEFINE x == 2 * a + b
           y == 2 * b
           q == x \div y
<1>1. x \in Nat /\ y \in Nat /\ y > 0
  OBVIOUS
<1>2. Round(a, b) = Word(q)
  BY DEF Round
<1>3. q \in Nat /\ y * q <= x /\ x < y * q + y
  <2> HIDE DEF x, y
  <2>1. QED
    BY <1>1, Divides
<1> HIDE DEF q
<1>4. y * q = 2 * (b * q) /\ b * q \in Nat
  BY <1>3
<1>5. Rounded(a, b, q)
  BY <1>3, <1>4 DEF Rounded
<1>6. q <= k
  <2>1. ASSUME k + 1 <= q PROVE FALSE
    <3>1. b * (k + 1) <= b * q
      BY <1>3, <2>1
    <3>2. b * (k + 1) = b * k + b /\ b * k \in Nat
      OBVIOUS
    <3>3. QED
      BY <1>3, <1>4, <3>1, <3>2 DEF RoundsBelow
  <2>2. QED
    BY <1>3, <2>1
<1>7. Word(q) = q
  BY <1>3, <1>6, ModSmall DEF Word
<1>8. QED
  BY <1>2, <1>3, <1>5, <1>6, <1>7

\* The current of a power that is no more than the fleet's may be, at the
\* voltage of a grid, fits.
LEMMA AmpsFit ==
    ASSUME NEW w \in Nat, w < 32760, NEW volt, volt.n \in Nat, volt.sum \in Nat,
           volt.n > 0, 19 * volt.n <= 2 * volt.sum
    PROVE  /\ Amps10(w, volt) \in Nat /\ Amps10(w, volt) <= 65534
           /\ Rounded(10 * (w * volt.n), volt.sum, Amps10(w, volt))
<1> DEFINE n == volt.n
           b == volt.sum
           p == w * n
           a == 10 * w * n
           k == 65534
<1>1. n \in Nat /\ b \in Nat /\ b > 0 /\ 19 * n <= 2 * b /\ k \in Nat /\ k <= 65535
  OBVIOUS
<1>2. Amps10(w, volt) = Round(a, b)
  BY DEF Amps10
<1> HIDE DEF n, b
<1>3. p \in Nat /\ a = 10 * p /\ p <= 32759 * n
  BY <1>1
<1>4. b * 65534 = 65534 * b
  BY <1>1
<1> HIDE DEF p, a
<1>5. a \in Nat /\ 2 * a + b < 2 * (b * 65534) + 2 * b
  BY <1>1, <1>3, <1>4
<1>6. RoundsBelow(a, b, k)
  BY <1>5 DEF RoundsBelow
<1> HIDE DEF k
<1>7. Round(a, b) \in Nat /\ Round(a, b) <= k /\ Rounded(a, b, Round(a, b))
  BY <1>1, <1>5, <1>6, RoundFits
<1>8. QED
  BY <1>2, <1>3, <1>7 DEF k, p, n, b

\* The parts of a, and what they and a are over b, rounded.
Parts(b, a, x, y, z, t, p, q, r, s) ==
    /\ b \in Nat /\ b > 0 /\ a \in Nat /\ x \in Nat /\ y \in Nat /\ z \in Nat
    /\ t \in Nat /\ p \in Nat /\ q \in Nat /\ r \in Nat
    /\ a = x + y + z /\ s = p + q + r
    /\ Rounded(a, b, t) /\ Rounded(x, b, p) /\ Rounded(y, b, q) /\ Rounded(z, b, r)

WithinOne(t, s) == Near(t, s, 1)

\* Rounded parts add up to the rounded whole, up to one.
LEMMA RoundedParts ==
    ASSUME NEW b, NEW a, NEW x, NEW y, NEW z, NEW t, NEW p, NEW q, NEW r, NEW s,
           Parts(b, a, x, y, z, t, p, q, r, s)
    PROVE  WithinOne(t, s)
<1>0. /\ b \in Nat /\ b > 0 /\ a \in Nat /\ x \in Nat /\ y \in Nat /\ z \in Nat
      /\ t \in Nat /\ p \in Nat /\ q \in Nat /\ r \in Nat /\ s \in Nat
  BY DEF Parts
<1> USE <1>0
<1> DEFINE bp == b * p
           bq == b * q
           br == b * r
           bt == b * t
<1>1. bp \in Nat /\ bq \in Nat /\ br \in Nat /\ bt \in Nat
  OBVIOUS
<1>2. /\ 2 * bp <= 2 * x + b /\ 2 * x + b < 2 * bp + 2 * b
      /\ 2 * bq <= 2 * y + b /\ 2 * y + b < 2 * bq + 2 * b
      /\ 2 * br <= 2 * z + b /\ 2 * z + b < 2 * br + 2 * b
      /\ 2 * bt <= 2 * a + b /\ 2 * a + b < 2 * bt + 2 * b
  BY DEF Parts, Rounded
<1>10. a = x + y + z /\ s = p + q + r
  BY DEF Parts
<1>3. b * (p + q + r + 2) = bp + bq + br + 2 * b /\ b * (t + 2) = bt + 2 * b
  OBVIOUS
<1> HIDE DEF bp, bq, br, bt
<1>4. bt < bp + bq + br + 2 * b /\ bp + bq + br < bt + 2 * b
  BY <1>1, <1>2, <1>10
<1>5. b * t < b * (s + 2) /\ b * s < b * (t + 2)
  <2>1. b * s = bp + bq + br
    BY <1>10 DEF bp, bq, br
  <2>2. b * (s + 2) = bp + bq + br + 2 * b
    BY <1>3, <1>10
  <2>3. QED
    BY <1>3, <1>4, <2>1, <2>2 DEF bt
<1>6. ASSUME NEW c \in Nat, NEW d \in Nat, b * c < b * (d + 2) PROVE c <= d + 1
  <2>1. ASSUME d + 2 <= c PROVE FALSE
    <3>1. b * (d + 2) <= b * c
      BY <2>1
    <3>2. b * (d + 2) \in Nat /\ b * c \in Nat
      OBVIOUS
    <3>3. QED
      BY <1>6, <3>1, <3>2
  <2>2. QED
    BY <2>1
<1>7. t <= s + 1 /\ s <= t + 1
  BY <1>5, <1>6
<1>8. QED
  BY <1>7 DEF WithinOne, Near

\* The rounded current at the rounded voltage is the power, up to half of each.
LEMMA RoundedProduct ==
    ASSUME NEW w \in Nat, NEW n \in Nat, n > 0, NEW b \in Nat, b > 0, NEW a \in Nat, NEW v \in Nat,
           Rounded(10 * (w * n), b, a), Rounded(b, n, v)
    PROVE  Near(a * v, 10 * w, a + v)
<1> DEFINE ba == b * a
           wn == w * n
           nv == n * v
           wb == w * b
           vb == v * b
           z == w * nv
           p == a * v
           bp == b * p
<1>1. /\ ba \in Nat /\ wn \in Nat /\ nv \in Nat /\ wb \in Nat /\ vb \in Nat
      /\ z \in Nat /\ p \in Nat /\ bp \in Nat
  OBVIOUS
<1>2. 2 * ba <= 20 * wn + b /\ 20 * wn + b < 2 * ba + 2 * b
  BY DEF Rounded
<1>3. 2 * nv <= 2 * b + n /\ 2 * b + n < 2 * nv + 2 * n
  BY DEF Rounded
<1>4. 2 * bp <= 20 * z + vb /\ 20 * z <= 2 * bp + vb
  <2>1. v * ba = bp /\ v * wn = z /\ v * b = vb
    OBVIOUS
  <2> HIDE DEF ba, wn, nv, wb, vb, z, p, bp
  <2>2. v * (2 * ba) <= v * (20 * wn + b) /\ v * (20 * wn + b) <= v * (2 * ba + 2 * b)
    BY <1>1, <1>2
  <2>3. /\ v * (2 * ba) = 2 * (v * ba)
        /\ v * (20 * wn + b) = 20 * (v * wn) + v * b
        /\ v * (2 * ba + 2 * b) = 2 * (v * ba) + 2 * (v * b)
    BY <1>1
  <2>4. QED
    BY <1>1, <2>1, <2>2, <2>3
<1>5. 2 * z <= 2 * wb + wn /\ 2 * wb <= 2 * z + wn
  <2>1. w * nv = z /\ w * b = wb /\ w * n = wn
    OBVIOUS
  <2> HIDE DEF ba, wn, nv, wb, vb, z, p, bp
  <2>2. w * (2 * nv) <= w * (2 * b + n) /\ w * (2 * b + n) <= w * (2 * nv + 2 * n)
    BY <1>1, <1>3
  <2>3. /\ w * (2 * nv) = 2 * (w * nv)
        /\ w * (2 * b + n) = 2 * (w * b) + w * n
        /\ w * (2 * nv + 2 * n) = 2 * (w * nv) + 2 * (w * n)
    BY <1>1
  <2>4. QED
    BY <1>1, <2>1, <2>2, <2>3
<1> DEFINE x == 4 * p
           y == 40 * w
           e == 2 * a + 2 * v + 1
<1>6. b * x = 4 * bp /\ b * y = 40 * wb /\ b * e = 2 * ba + 2 * vb + b
  OBVIOUS
<1>7. x \in Nat /\ y \in Nat /\ e \in Nat
  OBVIOUS
<1> HIDE DEF ba, wn, nv, wb, vb, z, bp, x, y, e
<1>8. b * x < b * y + b * e /\ b * y < b * x + b * e
  BY <1>1, <1>2, <1>4, <1>5, <1>6
<1>9. ASSUME NEW c \in Nat, NEW d \in Nat, b * c < b * d + b * e PROVE c < d + e
  <2>1. ASSUME d + e <= c PROVE FALSE
    <3>1. b * (d + e) <= b * c
      BY <1>7, <2>1
    <3>2. b * (d + e) = b * d + b * e /\ b * d \in Nat /\ b * e \in Nat /\ b * c \in Nat
      BY <1>7
    <3>3. QED
      BY <1>9, <3>1, <3>2
  <2>2. QED
    BY <1>7, <2>1
<1>10. x < y + e /\ y < x + e
  BY <1>7, <1>8, <1>9
<1>11. 4 * p < 40 * w + (2 * a + 2 * v + 1) /\ 40 * w < 4 * p + (2 * a + 2 * v + 1)
  BY <1>10 DEF x, y, e
<1>12. p - 10 * w \in -(a + v) .. a + v
  <2> HIDE DEF p
  <2>1. QED
    BY <1>1, <1>11
<1>13. QED
  BY <1>12 DEF Near, p

----------------------------------------------------------------------------
(* Currents.                                                               *)

\* Terms that are sums, a sum of sums.
TermsAdd(u, v, w, n) ==
    /\ n \in Nat /\ IsSeq(u, n) /\ IsSeq(v, n) /\ IsSeq(w, n)
    /\ \A j \in 1 .. n : v[j] \in Nat /\ w[j] \in Nat /\ u[j] = v[j] + w[j]

LEMMA TotalPlus ==
    ASSUME NEW u, NEW v, NEW w, NEW n, TermsAdd(u, v, w, n)
    PROVE  Total(u) = Total(v) + Total(w) /\ Total(v) \in Nat /\ Total(w) \in Nat
<1> USE DEF TermsAdd
<1>1. PICK f : Totals(v, f, n) /\ Total(v) = f[n]
  BY TotalIs
<1> DEFINE S == {t \in Nat \X Nat \X Nat : t[1] <= n => (f[t[1]] \in Nat /\ t[2] = f[t[1]] + t[3])}
<1>2. <<0, 0, 0>> \in S
  <2>1. f[0] = 0
    BY <1>1 DEF Totals
  <2>2. QED
    BY <2>1
<1>3. ASSUME NEW k \in 0 .. n - 1, NEW x, NEW y, <<k, x, y>> \in S
      PROVE  <<k + 1, x + u[k + 1], y + w[k + 1]>> \in S
  <2>1. k \in Nat /\ x \in Nat /\ y \in Nat /\ f[k] \in Nat /\ x = f[k] + y
    BY <1>3
  <2>2. k + 1 \in 1 .. n
    OBVIOUS
  <2>3. v[k + 1] \in Nat /\ w[k + 1] \in Nat /\ u[k + 1] = v[k + 1] + w[k + 1]
    BY <2>2
  <2>4. f[k + 1] = f[k] + v[k + 1]
    <3>1. f[k + 1] = IF k + 1 = 0 THEN 0 ELSE f[(k + 1) - 1] + v[k + 1]
      BY <1>1, <1>3 DEF Totals
    <3>2. k + 1 # 0 /\ (k + 1) - 1 = k
      OBVIOUS
    <3>3. QED
      BY <3>1, <3>2
  <2>5. /\ f[k + 1] \in Nat /\ x + u[k + 1] = f[k + 1] + (y + w[k + 1])
        /\ k + 1 \in Nat /\ x + u[k + 1] \in Nat /\ y + w[k + 1] \in Nat
    BY <2>1, <2>3, <2>4
  <2>6. QED
    BY <2>5
<1> HIDE DEF S
<1>4. <<n, Total(u), Total(w)>> \in S
  BY <1>2, <1>3, TotalsTogether
<1>5. f[n] \in Nat /\ Total(u) = f[n] + Total(w) /\ Total(w) \in Nat
  BY <1>4 DEF S
<1>6. QED
  BY <1>1, <1>5

\* The powers of the phases are the power; a phase that is not in use has none.
LEMMA PhasesSum ==
    ASSUME NEW s, NEW n \in Nat, IsSeq(s.invs, n), \A j \in 1 .. n : s.invs[j].pac \in Nat
    PROVE  /\ \A ph \in 1 .. 3 : PhaseW(s, ph) \in Nat
           /\ PhaseW(s, 1) + PhaseW(s, 2) + PhaseW(s, 3) = LiveSystemPowerW(s.invs)
           /\ \A ph \in 1 .. 3 : (\A j \in Online(s.invs) : PhaseOf(s.invs[j]) # ph) => PhaseW(s, ph) = 0
<1> DEFINE on(j) == j \in Online(s.invs)
           at(j) == PhaseOf(s.invs[j])
           pac(j) == s.invs[j].pac
           v(ph) == [j \in 1 .. n |-> IF on(j) /\ at(j) = ph THEN pac(j) ELSE 0]
           u == [j \in 1 .. n |-> IF on(j) THEN pac(j) ELSE 0]
           t == [j \in 1 .. n |-> v(1)[j] + v(2)[j]]
<1>1. DOMAIN s.invs = 1 .. n
  BY DEF IsSeq
<1>2. ASSUME NEW ph PROVE PhaseW(s, ph) = Total(v(ph))
  <2> DEFINE places == {j \in Online(s.invs) : PhaseOf(s.invs[j]) = ph}
             w == [j \in 1 .. n |-> IF j \in places THEN s.invs[j].pac ELSE 0]
  <2>1. PhaseW(s, ph) = Total(w)
    BY <1>1 DEF PhaseW, SumAt
  <2>2. w = v(ph)
    OBVIOUS
  <2>3. QED
    BY <2>1, <2>2
<1>3. LiveSystemPowerW(s.invs) = Total(u)
  BY <1>1 DEF LiveSystemPowerW, SumAt
<1>4. \A j \in 1 .. n : at(j) \in {1, 2, 3} /\ pac(j) \in Nat
  BY DEF PhaseOf
<1> HIDE DEF on, at, pac
<1>5. \A ph : IsSeq(v(ph), n)
  BY DEF IsSeq
<1>6. IsSeq(u, n)
  BY DEF IsSeq
<1>7. IsSeq(t, n)
  <2>1. t = [j \in 1 .. n |-> t[j]]
    OBVIOUS
  <2> HIDE DEF t
  <2>2. QED
    BY <2>1, FunctionIsSeq
<1>8. \A ph : \A j \in 1 .. n : v(ph)[j] \in Nat /\ (v(ph)[j] > 0 => on(j) /\ at(j) = ph)
  BY <1>4
<1>9. \A j \in 1 .. n : t[j] = v(1)[j] + v(2)[j] /\ t[j] \in Nat
  BY <1>8
<1>10. \A j \in 1 .. n : u[j] = t[j] + v(3)[j]
  <2> TAKE j \in 1 .. n
  <2>1. /\ u[j] = IF on(j) THEN pac(j) ELSE 0
        /\ v(1)[j] = IF on(j) /\ at(j) = 1 THEN pac(j) ELSE 0
        /\ v(2)[j] = IF on(j) /\ at(j) = 2 THEN pac(j) ELSE 0
        /\ v(3)[j] = IF on(j) /\ at(j) = 3 THEN pac(j) ELSE 0
        /\ t[j] = v(1)[j] + v(2)[j]
    OBVIOUS
  <2>2. at(j) \in {1, 2, 3} /\ pac(j) \in Nat
    BY <1>4
  <2> HIDE DEF u, v, t
  <2>3. CASE ~on(j)
    BY <2>1, <2>3
  <2>4. CASE on(j) /\ at(j) = 1
    BY <2>1, <2>2, <2>4
  <2>5. CASE on(j) /\ at(j) = 2
    BY <2>1, <2>2, <2>5
  <2>6. CASE on(j) /\ at(j) = 3
    BY <2>1, <2>2, <2>6
  <2>7. QED
    BY <2>2, <2>3, <2>4, <2>5, <2>6
<1> DEFINE v1 == v(1)
           v2 == v(2)
           v3 == v(3)
<1>11. IsSeq(v1, n) /\ IsSeq(v2, n) /\ IsSeq(v3, n)
  BY <1>5
<1>18. \A j \in 1 .. n : v1[j] \in Nat /\ v2[j] \in Nat /\ t[j] = v1[j] + v2[j]
  BY <1>8, <1>9
<1>19. \A j \in 1 .. n : t[j] \in Nat /\ v3[j] \in Nat /\ u[j] = t[j] + v3[j]
  BY <1>8, <1>9, <1>10
<1>12. PhaseW(s, 1) = Total(v1) /\ PhaseW(s, 2) = Total(v2) /\ PhaseW(s, 3) = Total(v3)
  BY <1>2
<1>13. ASSUME NEW ph \in 1 .. 3, \A j \in Online(s.invs) : PhaseOf(s.invs[j]) # ph
       PROVE  PhaseW(s, ph) = 0
  <2>1. \A j \in 1 .. n : ~(on(j) /\ at(j) = ph)
    BY <1>13 DEF on, at
  <2> DEFINE w == v(ph)
  <2>2. IsSeq(w, n) /\ \A j \in 1 .. n : w[j] \in Nat /\ ~(w[j] > 0)
    BY <1>5, <1>8, <2>1
  <2>3. PhaseW(s, ph) = Total(w)
    BY <1>2
  <2> HIDE DEF w
  <2>4. QED
    BY <2>2, <2>3, TotalPositive
<1> HIDE DEF v1, v2, v3, u, t
<1>14. Total(t) = Total(v1) + Total(v2) /\ Total(v1) \in Nat /\ Total(v2) \in Nat
  <2>1. TermsAdd(t, v1, v2, n)
    BY <1>7, <1>11, <1>18 DEF TermsAdd
  <2>2. QED
    BY <2>1, TotalPlus
<1>15. Total(u) = Total(t) + Total(v3) /\ Total(v3) \in Nat
  <2>1. TermsAdd(u, t, v3, n)
    BY <1>6, <1>7, <1>11, <1>19 DEF TermsAdd
  <2>2. QED
    BY <2>1, TotalPlus
<1>16. \A ph \in 1 .. 3 : PhaseW(s, ph) \in Nat
  <2> TAKE ph \in 1 .. 3
  <2>1. ph = 1 \/ ph = 2 \/ ph = 3
    OBVIOUS
  <2>2. QED
    BY <1>12, <1>14, <1>15, <2>1
<1>17. QED
  BY <1>3, <1>12, <1>13, <1>14, <1>15, <1>16

\* No power, no current.
LEMMA AmpsOfNothing ==
    ASSUME NEW volt, volt.n \in Nat, volt.sum \in Nat PROVE Amps10(0, volt) = 0
<1> DEFINE n == volt.n
           b == volt.sum
           a == 10 * 0 * n
           k == 0
<1>1. Amps10(0, volt) = Round(a, b)
  BY DEF Amps10
<1>2. a = 0 /\ b \in Nat
  OBVIOUS
<1>3. CASE b = 0
  BY <1>1, <1>3 DEF Round
<1>4. CASE b # 0
  <2> HIDE DEF a, b, n
  <2>1. /\ a \in Nat /\ b \in Nat /\ b > 0 /\ k \in Nat /\ k <= 65535
        /\ RoundsBelow(a, b, k)
    BY <1>2, <1>4 DEF RoundsBelow
  <2> HIDE DEF k
  <2>2. Round(a, b) \in Nat /\ Round(a, b) <= k
    BY <2>1, RoundFits
  <2>3. QED
    BY <1>1, <2>2 DEF k
<1>5. QED
  BY <1>3, <1>4

\* One register for each phase.
LEMMA PerPhaseIs ==
    ASSUME NEW m, NEW values, \A ph \in 1 .. 3 : IsSeq(values[ph], 1)
    PROVE  LET p == PerPhase(m, values, NoU16(1))
           IN  /\ IsSeq(p, 3)
               /\ \A ph \in 1 .. 3 : p[ph] = IF ph <= m.phases THEN values[ph][1] ELSE 65535
<1> DEFINE none == NoU16(1)
           seqs == [ph \in 1 .. 3 |-> IF ph <= m.phases THEN values[ph] ELSE none]
           p == FlattenSeq(seqs)
           n == 3
           w == 1
<1>1. PerPhase(m, values, NoU16(1)) = p
  BY DEF PerPhase
<1>2. IsSeq(none, 1) /\ none[1] = 65535
  BY DEF NoU16, Repeat, IsSeq
<1> HIDE DEF none
<1>3. n \in Nat /\ w \in Nat /\ IsSeq(seqs, n) /\ \A j \in 1 .. n : IsSeq(seqs[j], w)
  BY <1>2 DEF IsSeq
<1>4. \A ph \in 1 .. 3 : seqs[ph][1] = IF ph <= m.phases THEN values[ph][1] ELSE 65535
  BY <1>2
<1> HIDE DEF n, w, seqs
<1>5. IsSeq(p, w * n) /\ \A j \in 1 .. n, i \in 1 .. w : p[w * (j - 1) + i] = seqs[j][i]
  BY <1>3, FlattenUniform
<1> HIDE DEF p
<1>6. IsSeq(p, 3)
  BY <1>5 DEF n, w
<1>7. ASSUME NEW ph \in 1 .. 3 PROVE p[ph] = seqs[ph][1]
  <2>1. w * (ph - 1) + 1 = ph /\ ph \in 1 .. n /\ 1 \in 1 .. w
    BY DEF w, n
  <2>2. p[w * (ph - 1) + 1] = seqs[ph][1]
    BY <1>5, <2>1
  <2>3. QED
    BY <2>1, <2>2
<1>8. QED
  BY <1>1, <1>4, <1>6, <1>7

\* Where the currents and the voltage stand in Models 101 to 103.
LEMMA InverterCurrents ==
    ASSUME NEW m, m.phases \in 1 .. 3
    PROVE  /\ InverterModel(m)[3] = m.a
           /\ \A ph \in 1 .. 3 :
                  InverterModel(m)[3 + ph] = IF ph <= m.phases THEN m.phA[ph] ELSE 65535
           /\ InverterModel(m)[11] = m.v
<1> DEFINE f == [ph \in 1 .. 3 |-> <<m.phA[ph]>>]
           g == Repeat(3, <<m.v>>)
           p == PerPhase(m, f, NoU16(1))
           q == PerPhase(m, g, NoU16(1))
           e == EventRegisters(m.events)
<1>1. \A ph \in 1 .. 3 : /\ IsSeq(f[ph], 1) /\ f[ph][1] = m.phA[ph]
                         /\ IsSeq(g[ph], 1) /\ g[ph][1] = m.v
  <2>1. \A x : IsSeq(<<x>>, 1) /\ <<x>>[1] = x
    BY DEF IsSeq
  <2>2. \A ph \in 1 .. 3 : f[ph] = <<m.phA[ph]>> /\ g[ph] = <<m.v>>
    BY DEF Repeat
  <2> HIDE DEF f, g
  <2>3. QED
    BY <2>1, <2>2
<1>2. IsSeq(e, 12)
  BY EventRegistersWidth
<1>3. InverterModel(m) = InverterFront(m, p, q) \o e
  BY DEF InverterModel, InverterFront
<1> HIDE DEF f, g
<1>4. /\ IsSeq(p, 3) /\ \A ph \in 1 .. 3 : p[ph] = IF ph <= m.phases THEN f[ph][1] ELSE 65535
      /\ IsSeq(q, 3) /\ \A ph \in 1 .. 3 : q[ph] = IF ph <= m.phases THEN g[ph][1] ELSE 65535
  BY <1>1, PerPhaseIs
<1> HIDE DEF p, q, e
<1>5. PICK a, b, c : p = <<a, b, c>>
  BY <1>4, ThreeValues
<1>6. PICK d, h, i : q = <<d, h, i>>
  BY <1>4, ThreeValues
<1> DEFINE front == InverterFront(m, <<a, b, c>>, <<d, h, i>>)
<1>7. /\ IsSeq(front, 40) /\ front[3] = m.a
      /\ front[4] = a /\ front[5] = b /\ front[6] = c /\ front[11] = d
  <2> DEFINE temp == Word(Clamp(m.temp, -100, 200))
             w == Word(Clamp(m.w, -32760, 32760))
             t == <<100 + m.phases, 50, m.a>> \o <<a, b, c>> \o <<Word(-1)>>
                  \o NoU16(3) \o <<d, h, i>> \o <<0>>
                  \o <<w, 0, m.hz, Word(-2)>>
                  \o <<32768, 0, 32768, 0, 32768, 0>> \o Zeros(3)
                  \o <<65535, 0, 65535, 0, 32768, 0>>
                  \o <<temp>> \o NoS16(3) \o <<0, m.st, 0>>
  <2>1. front = t
    BY DEF InverterFront
  <2> HIDE DEF w, temp
  <2>2. IsSeq(t, 40) /\ t[3] = m.a /\ t[4] = a /\ t[5] = b /\ t[6] = c /\ t[11] = d
    BY DEF NoU16, NoS16, Zeros, Repeat, IsSeq
  <2> HIDE DEF t, front
  <2>3. QED
    BY <2>1, <2>2
<1> DEFINE all == front \o e
<1>8. InverterModel(m) = all
  BY <1>3, <1>5, <1>6
<1> HIDE DEF front
<1>9. Concatenated(all, front, 40, e, 12)
  BY <1>2, <1>7, ConcatIs
<1> HIDE DEF all
<1>10. \A k \in 1 .. 40 : all[k] = front[k]
  BY <1>9 DEF Concatenated
<1>11. /\ all[3] = m.a /\ all[4] = a /\ all[5] = b /\ all[6] = c /\ all[11] = d
  BY <1>7, <1>10
<1>12. a = p[1] /\ b = p[2] /\ c = p[3] /\ d = q[1]
  BY <1>5, <1>6
<1>13. ASSUME NEW ph \in 1 .. 3 PROVE all[3 + ph] = IF ph <= m.phases THEN m.phA[ph] ELSE 65535
  <2>1. all[3 + ph] = p[ph]
    <3>1. ph = 1 \/ ph = 2 \/ ph = 3
      OBVIOUS
    <3>2. QED
      BY <1>11, <1>12, <3>1
  <2>2. QED
    BY <1>1, <1>4, <2>1
<1>14. d = m.v
  BY <1>1, <1>4, <1>12
<1>15. QED
  BY <1>8, <1>11, <1>13, <1>14

\* The voltage of the fleet is an average of words, its power the sum of those
\* that are online.
LEMMA FleetVolts ==
    ASSUME NEW s, Built(s, Words), NEW n \in Nat, IsSeq(s.invs, n)
    PROVE  /\ s.volt.sum \in Nat /\ s.volt.n \in Nat /\ s.volt.sum <= 65535 * s.volt.n
           /\ s.power = LiveSystemPowerW(s.invs)
<1>1. PICK capacity, file, limits, events, list, prot :
          TailsFrom(file, Words) /\ s = Snapshot(capacity, file, limits, events, list, prot)
  BY DEF Built
<1> DEFINE row(j) == Joined(ParseInverterLine(file.rows[j]), limits, events, list)
           invs == [j \in DOMAIN file.rows |-> row(j)]
           values == [j \in DOMAIN s.invs |-> s.invs[j].vac]
<1>2. s.invs = invs
  BY <1>1 DEF Snapshot
<1>3. s.volt = Average(values, Online(s.invs)) /\ s.power = LiveSystemPowerW(s.invs)
  BY <1>1 DEF Snapshot
<1>4. DOMAIN s.invs = 1 .. n
  BY DEF IsSeq
<1>5. ASSUME NEW j \in DOMAIN file.rows PROVE row(j).vac \in Words
  <2>1. file.rows[j].tail \in Seq(Words)
    BY <1>1 DEF TailsFrom
  <2>2. row(j).vac = ACVoltage(file.rows[j].type, file.rows[j].tail)
    BY JoinedFields
  <2> HIDE DEF row
  <2>3. QED
    BY <2>1, <2>2, ACVoltageIs
<1> HIDE DEF row
<1>6. \A j \in 1 .. n : s.invs[j].vac \in Words
  BY <1>2, <1>4, <1>5
<1> HIDE DEF invs
<1>7. DOMAIN values = 1 .. n /\ \A j \in 1 .. n : values[j] \in Words
  BY <1>4, <1>6
<1>8. Online(s.invs) \subseteq 1 .. n
  BY <1>4 DEF Online
<1> DEFINE places == Online(s.invs)
<1> HIDE DEF values, places
<1>9. LET a == Average(values, places)
      IN  a.sum \in Nat /\ a.n \in Nat /\ a.sum <= 65535 * a.n
  BY <1>7, <1>8, AverageIs DEF places
<1>10. QED
  BY <1>3, <1>9 DEF places

\* What clients read of the fleet's currents and voltage.
LEMMA FleetShowsCurrents ==
    ASSUME PublishInv, Published
    PROVE  LET amps(ph) == Measured(banks[1], OffAph + ph - 1)
               w == PhaseW(snap, 1) + PhaseW(snap, 2) + PhaseW(snap, 3)
           IN  /\ Measured(banks[1], OffA) = Amps10(w, snap.volt)
               /\ \A ph \in 1 .. 3 :
                      amps(ph) = IF ph <= PhasesUsed(snap) THEN Amps10(PhaseW(snap, ph), snap.volt)
                                 ELSE 65535
               /\ Measured(banks[1], OffPhV) = Round(snap.volt.sum, snap.volt.n)
<1> DEFINE m == FleetMeasure(snap)
           w == PhaseW(snap, 1) + PhaseW(snap, 2) + PhaseW(snap, 3)
           bank == banks[1]
<1>1. 1 \in DOMAIN banks
  BY UnitsAre
<1>2. PICK k \in Nat : EncodesSnapshot(1, k)
  BY <1>1, EachBank
<1>3. PICK pick \in Picks(snap) : bank = Encode(snap, pick, Untracked[1])
  BY <1>2 DEF EncodesSnapshot
<1>4. k <= 254 /\ IsSeq(snap.invs, k)
  BY <1>2 DEF EncodesSnapshot
<1> HIDE DEF bank
<1>5. ShowsMeasure(bank, FleetMeasure(snap))
  BY <1>3, <1>4, FleetShowsMeasure
<1>6. \A off \in 0 .. 49 : Measured(bank, off) = InverterModel(m)[off + 3]
  BY <1>5 DEF ShowsMeasure
<1>7. /\ m.phases = PhasesUsed(snap) /\ m.a = Amps10(w, snap.volt)
      /\ m.v = Round(snap.volt.sum, snap.volt.n)
      /\ \A ph \in 1 .. 3 : m.phA[ph] = Amps10(PhaseW(snap, ph), snap.volt)
  BY DEF FleetMeasure
<1>8. m.phases \in 1 .. 3
  BY <1>7, PhasesAreFew
<1> HIDE DEF m, w
<1>9. /\ InverterModel(m)[3] = m.a
      /\ \A ph \in 1 .. 3 : InverterModel(m)[3 + ph] = IF ph <= m.phases THEN m.phA[ph] ELSE 65535
      /\ InverterModel(m)[11] = m.v
  BY <1>8, InverterCurrents
<1>10. Measured(bank, 0) = InverterModel(m)[3] /\ Measured(bank, 8) = InverterModel(m)[11]
  <2>1. Measured(bank, 0) = InverterModel(m)[0 + 3] /\ Measured(bank, 8) = InverterModel(m)[8 + 3]
    BY <1>6
  <2>2. QED
    BY <2>1
<1>11. ASSUME NEW ph \in 1 .. 3 PROVE Measured(bank, OffAph + ph - 1) = InverterModel(m)[3 + ph]
  <2>1. OffAph + ph - 1 = ph /\ ph \in 0 .. 49 /\ ph + 3 = 3 + ph
    BY DEF OffAph
  <2>2. Measured(bank, ph) = InverterModel(m)[ph + 3]
    BY <1>6, <2>1
  <2>3. QED
    BY <2>1, <2>2
<1>12. QED
  BY <1>7, <1>9, <1>10, <1>11 DEF OffA, OffPhV, bank, w

\* The invariants imply the property.
LEMMA PhasesStep ==
    ASSUME PublishInv, Published => Built(snap, Words) PROVE PhasesAddUp
<1> DEFINE amps(ph) == Measured(banks[1], OffAph + ph - 1)
           shown(ph) == IF amps(ph) = 65535 THEN 0 ELSE amps(ph)
           a == Measured(banks[1], OffA)
           v == Measured(banks[1], OffPhV)
           w == Signed(Measured(banks[1], OffW))
<1> SUFFICES ASSUME Published, w < 32760, w = 0 \/ v >= 10,
                    \A j \in Online(snap.invs) : PhaseOf(snap.invs[j]) <= PhasesUsed(snap)
             PROVE  /\ Near(a, shown(1) + shown(2) + shown(3), 1)
                    /\ Near(a * v, 10 * w, a + v)
  BY DEF PhasesAddUp
<1>1. PICK n \in Nat : n <= 254 /\ IsSeq(snap.invs, n)
  BY UnitsAre
<1>2. Counted(snap, n)
  BY <1>1, BuiltOfWords, BuiltCounts
<1> DEFINE volt == snap.volt
           p(ph) == PhaseW(snap, ph)
           used == PhasesUsed(snap)
           power == snap.power
<1>3. /\ volt.sum \in Nat /\ volt.n \in Nat /\ volt.sum <= 65535 * volt.n
      /\ power = LiveSystemPowerW(snap.invs)
  BY <1>1, FleetVolts
<1>4. /\ p(1) \in Nat /\ p(2) \in Nat /\ p(3) \in Nat
      /\ power = p(1) + p(2) + p(3)
      /\ \A ph \in 1 .. 3 : (\A j \in Online(snap.invs) : PhaseOf(snap.invs[j]) # ph) => p(ph) = 0
  <2>1. \A j \in 1 .. n : snap.invs[j].pac \in Nat
    BY <1>2 DEF Counted
  <2> DEFINE s == snap
  <2> HIDE DEF s
  <2>2. IsSeq(s.invs, n) /\ \A j \in 1 .. n : s.invs[j].pac \in Nat
    BY <1>1, <2>1 DEF s
  <2>3. /\ \A ph \in 1 .. 3 : PhaseW(s, ph) \in Nat
        /\ PhaseW(s, 1) + PhaseW(s, 2) + PhaseW(s, 3) = LiveSystemPowerW(s.invs)
        /\ \A ph \in 1 .. 3 : (\A j \in Online(s.invs) : PhaseOf(s.invs[j]) # ph) => PhaseW(s, ph) = 0
    BY <2>2, PhasesSum
  <2>4. PhaseW(s, 1) \in Nat /\ PhaseW(s, 2) \in Nat /\ PhaseW(s, 3) \in Nat
    BY <2>3
  <2>5. QED
    BY <1>3, <2>3, <2>4 DEF s
<1>5. power \in Nat /\ w = IF power > 32760 THEN 32760 ELSE power
  <2>1. Measured(banks[1], OffW) = Word(Clamp(power, -32760, 32760))
    BY <1>1, FleetTells DEF Tells
  <2>2. power \in Nat
    BY <1>1, <1>2, FleetAsUnits
  <2> HIDE DEF power
  <2>3. QED
    BY <2>1, <2>2, WattsShown
<1>6. w = power /\ power < 32760
  <2> HIDE DEF w, power
  <2>1. QED
    BY <1>5
<1>7. /\ a = Amps10(power, volt)
      /\ \A ph \in 1 .. 3 : amps(ph) = IF ph <= used THEN Amps10(p(ph), volt) ELSE 65535
      /\ v = Round(volt.sum, volt.n)
  <2>1. /\ a = Amps10(PhaseW(snap, 1) + PhaseW(snap, 2) + PhaseW(snap, 3), snap.volt)
        /\ \A ph \in 1 .. 3 : amps(ph) = IF ph <= used THEN Amps10(p(ph), volt) ELSE 65535
        /\ v = Round(snap.volt.sum, snap.volt.n)
    BY FleetShowsCurrents
  <2>2. QED
    BY <1>4, <2>1
<1>8. \A ph \in 1 .. 3 : ~(ph <= used) => p(ph) = 0
  <2> TAKE ph \in 1 .. 3
  <2>1. ASSUME ~(ph <= used), NEW j \in Online(snap.invs) PROVE PhaseOf(snap.invs[j]) # ph
    BY <2>1
  <2>2. QED
    BY <1>4, <2>1
<1> HIDE DEF amps, a, v, w, volt, p, used, power
<1>9. v \in Nat /\ (volt.n = 0 => v = 0) /\ (volt.n > 0 => Rounded(volt.sum, volt.n, v))
  <2>1. CASE volt.n = 0
    BY <1>7, <2>1 DEF Round
  <2>2. CASE volt.n # 0
    <3> DEFINE b == volt.n
               c == volt.sum
               k == 65535
    <3>1. b \in Nat /\ b > 0 /\ c \in Nat /\ k \in Nat /\ k <= 65535 /\ c <= 65535 * b
      BY <1>3, <2>2
    <3> HIDE DEF b, c
    <3>2. b * 65535 = 65535 * b
      BY <3>1
    <3>3. 2 * c + b < 2 * (b * 65535) + 2 * b
      BY <3>1, <3>2
    <3>4. RoundsBelow(c, b, k)
      BY <3>3 DEF RoundsBelow
    <3> HIDE DEF k
    <3>5. Round(c, b) \in Nat /\ Rounded(c, b, Round(c, b))
      BY <3>1, <3>4, RoundFits
    <3>6. QED
      BY <1>7, <2>2, <3>5 DEF b, c
  <2>3. QED
    BY <2>1, <2>2
<1>10. CASE power = 0
  <2>1. p(1) = 0 /\ p(2) = 0 /\ p(3) = 0
    BY <1>4, <1>10
  <2>2. Amps10(0, volt) = 0
    BY <1>3, AmpsOfNothing
  <2>3. a = 0 /\ w = 0
    BY <1>6, <1>7, <1>10, <2>2
  <2>4. \A ph \in 1 .. 3 : amps(ph) = IF ph <= used THEN 0 ELSE 65535
    <3> TAKE ph \in 1 .. 3
    <3>1. p(ph) = 0
      <4>1. ph = 1 \/ ph = 2 \/ ph = 3
        OBVIOUS
      <4>2. QED
        BY <2>1, <4>1
    <3>2. QED
      BY <1>7, <2>2, <3>1
  <2>5. shown(1) = 0 /\ shown(2) = 0 /\ shown(3) = 0
    <3>1. \A ph \in 1 .. 3 : shown(ph) = 0
      BY <2>4
    <3> HIDE DEF shown
    <3>2. QED
      BY <3>1
  <2> HIDE DEF shown
  <2>6. a - (shown(1) + shown(2) + shown(3)) = 0 /\ a * v - 10 * w = 0 /\ a + v \in Nat
    BY <1>9, <2>3, <2>5
  <2>7. QED
    BY <2>6 DEF Near
<1>11. CASE power # 0
  <2> DEFINE c == volt.n
             b == volt.sum
             A(ph) == Amps10(p(ph), volt)
  <2>1. c \in Nat /\ b \in Nat /\ c > 0 /\ v >= 10
    BY <1>3, <1>6, <1>9, <1>11
  <2>2. 19 * c <= 2 * b
    <3>1. 2 * (c * v) <= 2 * b + c
      BY <1>9, <2>1 DEF Rounded
    <3> HIDE DEF b, c
    <3>2. c * 10 <= c * v /\ c * 10 = 10 * c /\ c * v \in Nat
      BY <1>9, <2>1
    <3>3. QED
      BY <2>1, <3>1, <3>2
  <2>3. ASSUME NEW x \in Nat, x <= power
        PROVE  /\ Amps10(x, volt) \in Nat /\ Amps10(x, volt) <= 65534
               /\ Rounded(10 * (x * c), b, Amps10(x, volt))
    <3>1. x < 32760
      BY <1>5, <1>6, <2>3
    <3>2. QED
      BY <1>3, <2>1, <2>2, <3>1, AmpsFit
  <2>4. ASSUME NEW ph \in 1 .. 3
        PROVE  /\ A(ph) \in Nat /\ Rounded(10 * (p(ph) * c), b, A(ph))
               /\ shown(ph) = A(ph)
    <3>1. p(ph) \in Nat /\ p(ph) <= power
      <4>1. ph = 1 \/ ph = 2 \/ ph = 3
        OBVIOUS
      <4>2. QED
        BY <1>4, <4>1
    <3>2. A(ph) \in Nat /\ A(ph) <= 65534 /\ Rounded(10 * (p(ph) * c), b, A(ph))
      BY <2>3, <3>1
    <3>3. CASE ph <= used
      <4>1. amps(ph) = A(ph)
        BY <1>7, <3>3
      <4> HIDE DEF A
      <4>2. QED
        BY <3>2, <4>1
    <3>4. CASE ~(ph <= used)
      <4>1. amps(ph) = 65535 /\ p(ph) = 0
        BY <1>7, <1>8, <3>4
      <4>2. A(ph) = 0
        BY <1>3, <4>1, AmpsOfNothing
      <4> HIDE DEF A
      <4>3. QED
        BY <3>2, <4>1, <4>2
    <3>5. QED
      BY <3>3, <3>4
  <2>5. a \in Nat /\ Rounded(10 * (power * c), b, a)
    BY <1>5, <1>7, <2>3
  <2> DEFINE x == 10 * (p(1) * c)
             y == 10 * (p(2) * c)
             z == 10 * (p(3) * c)
             d == 10 * (power * c)
             a1 == A(1)
             a2 == A(2)
             a3 == A(3)
  <2>6. /\ a1 \in Nat /\ Rounded(x, b, a1) /\ shown(1) = a1
        /\ a2 \in Nat /\ Rounded(y, b, a2) /\ shown(2) = a2
        /\ a3 \in Nat /\ Rounded(z, b, a3) /\ shown(3) = a3
    BY <2>4
  <2> HIDE DEF A, a1, a2, a3, shown, b
  <2>7. x \in Nat /\ y \in Nat /\ z \in Nat /\ d \in Nat /\ d = x + y + z
    <3> HIDE DEF c
    <3>1. (p(1) + p(2) + p(3)) * c = p(1) * c + p(2) * c + p(3) * c
      BY <1>4, <2>1
    <3>2. p(1) * c \in Nat /\ p(2) * c \in Nat /\ p(3) * c \in Nat /\ power * c \in Nat
      BY <1>4, <1>5, <2>1
    <3>3. power * c = p(1) * c + p(2) * c + p(3) * c
      BY <1>4, <3>1
    <3> DEFINE x0 == p(1) * c
               y0 == p(2) * c
               z0 == p(3) * c
               d0 == power * c
    <3> HIDE DEF x0, y0, z0, d0
    <3>4. x0 \in Nat /\ y0 \in Nat /\ z0 \in Nat /\ d0 = x0 + y0 + z0
      BY <3>2, <3>3 DEF x0, y0, z0, d0
    <3>5. x = 10 * x0 /\ y = 10 * y0 /\ z = 10 * z0 /\ d = 10 * d0
      BY DEF x0, y0, z0, d0
    <3> HIDE DEF x, y, z, d
    <3>6. QED
      BY <3>4, <3>5
  <2>8. b > 0
    <3> HIDE DEF c
    <3>1. QED
      BY <2>1, <2>2
  <2>9. Rounded(d, b, a)
    BY <2>5
  <2>10. Near(a * v, 10 * w, a + v)
    <3>1. Rounded(b, c, v)
      BY <1>9, <2>1 DEF b
    <3>2. Rounded(10 * (power * c), b, a)
      BY <2>5
    <3> HIDE DEF c
    <3>3. Near(a * v, 10 * power, a + v)
      BY <1>5, <1>9, <2>1, <2>5, <2>8, <3>1, <3>2, RoundedProduct
    <3>4. QED
      BY <1>6, <3>3
  <2> HIDE DEF x, y, z, d
  <2>11. Near(a, a1 + a2 + a3, 1)
    <3>1. /\ a1 \in Nat /\ a2 \in Nat /\ a3 \in Nat /\ a \in Nat /\ b \in Nat
          /\ Rounded(x, b, a1) /\ Rounded(y, b, a2) /\ Rounded(z, b, a3) /\ Rounded(d, b, a)
      BY <2>1, <2>5, <2>6, <2>9 DEF b
    <3> DEFINE sum == a1 + a2 + a3
    <3>2. Parts(b, d, x, y, z, a, a1, a2, a3, sum)
      BY <2>7, <2>8, <3>1 DEF Parts
    <3> HIDE DEF sum
    <3>3. WithinOne(a, sum)
      BY <3>2, RoundedParts
    <3>4. QED
      BY <3>3 DEF sum, WithinOne
  <2>12. QED
    BY <2>6, <2>10, <2>11
<1>12. QED
  BY <1>10, <1>11

\* The phases of a fleet of any size add up, in any mixture of its sources.
THEOREM PhasesCorrect == SmallFleets /\ TailsAreWords /\ Spec => []PhasesAddUp
<1> SUFFICES ASSUME SmallFleets, TailsAreWords PROVE Spec => []PhasesAddUp
  OBVIOUS
<1>1. Spec => []PublishInv
  BY Invariance
<1>2. Init => BuiltInv(Words)
  BY InitBuilt
<1>3. PublishInv /\ BuiltInv(Words) /\ [Next]_vars => BuiltInv(Words)'
  BY NextBuilt DEF TailsAreWords
<1>4. PublishInv /\ BuiltInv(Words) => PhasesAddUp
  BY PhasesStep DEF BuiltInv
<1>5. QED
  BY <1>1, <1>2, <1>3, <1>4, PTL DEF Spec
----------------------------------------------------------------------------
(* Trips.                                                                  *)

\* A point of a curve is a pair of codes that the row has.
PointOf(row, p, x) ==
    /\ p[1] \in DOMAIN row /\ p[2] \in DOMAIN row
    /\ x = [val |-> row[p[1]], tms |-> IF p[1] = "AB" THEN 60000 ELSE row[p[2]]]

LEMMA TripPointsAre ==
    ASSUME NEW row, NEW curve \in {"LV", "HV", "LF", "HF"}
    PROVE  \E n \in 0 .. 3 :
               /\ IsSeq(TripPoints(row, curve), n)
               /\ \A k \in 1 .. n : \E c \in DOMAIN TripCodes[curve] :
                      PointOf(row, TripCodes[curve][c], TripPoints(row, curve)[k])
<1> DEFINE codes == TripCodes[curve]
           known(p) == p[1] \in DOMAIN row /\ p[2] \in DOMAIN row
           x(p) == [val |-> row[p[1]], tms |-> IF p[1] = "AB" THEN 60000 ELSE row[p[2]]]
           point(p) == IF known(p) THEN <<x(p)>> ELSE << >>
           seqs == [c \in DOMAIN codes |-> point(codes[c])]
           S == {y \in {x(codes[c]) : c \in DOMAIN codes} :
                     \E c \in DOMAIN codes : PointOf(row, codes[c], y)}
           ps == TripPoints(row, curve)
<1>1. PICK m \in Nat : DOMAIN codes = 1 .. m
  <2>1. DOMAIN codes = 1 .. 2 \/ DOMAIN codes = 1 .. 3
    BY DEF TripCodes
  <2>2. QED
    BY <2>1
<1>2. ps = FlattenSeq(seqs)
  BY DEF TripPoints
<1>3. PICK n \in 0 .. 3 : IsSeq(ps, n)
  BY TripPointsWidth
<1> HIDE DEF codes, ps
<1> DEFINE l == [c \in 1 .. m |-> IF known(codes[c]) THEN 1 ELSE 0]
<1>4. ASSUME NEW c \in 1 .. m
      PROVE  IsSeq(seqs[c], l[c]) /\ \A i \in 1 .. l[c] : seqs[c][i] \in S
  <2>1. \A y : IsSeq(<<y>>, 1) /\ <<y>>[1] = y
    BY DEF IsSeq
  <2>2. IsSeq(<< >>, 0)
    BY DEF IsSeq
  <2>3. seqs[c] = point(codes[c]) /\ c \in DOMAIN codes
    BY <1>1
  <2>4. CASE known(codes[c])
    <3>1. l[c] = 1 /\ seqs[c] = <<x(codes[c])>>
      BY <2>3, <2>4
    <3>2. PointOf(row, codes[c], x(codes[c]))
      BY <2>4 DEF PointOf
    <3>3. x(codes[c]) \in S
      BY <2>3, <3>2
    <3> DEFINE y == x(codes[c])
    <3> HIDE DEF S, x, l, seqs, y
    <3>4. IsSeq(<<y>>, 1) /\ <<y>>[1] = y
      BY <2>1
    <3>5. QED
      BY <3>1, <3>3, <3>4 DEF y
  <2>5. CASE ~known(codes[c])
    <3>1. l[c] = 0 /\ seqs[c] = << >>
      BY <2>3, <2>5
    <3> HIDE DEF l, seqs
    <3>2. QED
      BY <2>2, <3>1
  <2> HIDE DEF known, l, seqs, S
  <2>6. QED
    BY <2>4, <2>5
<1>5. IsSeq(seqs, m)
  BY <1>1 DEF IsSeq
<1>6. IsSeq(l, m)
  BY DEF IsSeq
<1>7. \A y \in S : \E c \in DOMAIN codes : PointOf(row, codes[c], y)
  OBVIOUS
<1> HIDE DEF seqs, l, S
<1>8. IsSeq(FlattenSeq(seqs), Total(l)) /\ \A i \in 1 .. Total(l) : FlattenSeq(seqs)[i] \in S
  BY <1>4, <1>5, <1>6, FlattenTotal
<1>9. Total(l) = n
  BY <1>2, <1>3, <1>8 DEF IsSeq
<1>10. QED
  BY <1>2, <1>3, <1>7, <1>8, <1>9 DEF codes, ps

\* The codes of the points, and those of voltages among them.
VoltCodes == {"AC", "AQ", "AY", "AD", "AB"}
PointCodes == VoltCodes \cup {"BB", "BD", "BE", "BC", "AE", "BJ", "AJ", "BH", "AF", "BK", "AK", "BI"}

LEMMA CodesAre ==
    /\ \A curve \in {"LV", "HV", "LF", "HF"} : \A c \in DOMAIN TripCodes[curve] :
           TripCodes[curve][c][1] \in PointCodes /\ TripCodes[curve][c][2] \in PointCodes
    /\ \A curve \in {"LV", "HV"} : \A c \in DOMAIN TripCodes[curve] :
           TripCodes[curve][c][1] \in VoltCodes
<1>1. /\ \A c \in 1 .. 2 : TripCodes["LV"][c][1] \in VoltCodes /\ TripCodes["LV"][c][2] \in PointCodes
      /\ DOMAIN TripCodes["LV"] = 1 .. 2
  BY DEF TripCodes, VoltCodes, PointCodes
<1>2. /\ \A c \in 1 .. 3 : TripCodes["HV"][c][1] \in VoltCodes /\ TripCodes["HV"][c][2] \in PointCodes
      /\ DOMAIN TripCodes["HV"] = 1 .. 3
  BY DEF TripCodes, VoltCodes, PointCodes
<1>3. /\ \A c \in 1 .. 2 : TripCodes["LF"][c][1] \in PointCodes /\ TripCodes["LF"][c][2] \in PointCodes
      /\ DOMAIN TripCodes["LF"] = 1 .. 2
  BY DEF TripCodes, PointCodes
<1>4. /\ \A c \in 1 .. 2 : TripCodes["HF"][c][1] \in PointCodes /\ TripCodes["HF"][c][2] \in PointCodes
      /\ DOMAIN TripCodes["HF"] = 1 .. 2
  BY DEF TripCodes, PointCodes
<1>5. VoltCodes \subseteq PointCodes
  BY DEF PointCodes
<1>6. QED
  BY <1>1, <1>2, <1>3, <1>4, <1>5

\* Limits and clearances are positive numbers that two registers hold.
InTwo(v) == v \in Nat /\ v > 0 /\ v < 65536 * 65536
TripRow(row) == \A c \in PointCodes \cap DOMAIN row : InTwo(row[c])

\* They are read as they are, and so not as 0.
LEMMA TwoPositive ==
    ASSUME NEW v, InTwo(v) PROVE 65536 * Acc32(v)[1] + Acc32(v)[2] > 0
<1> DEFINE d == 65536
           q == v \div d
<1>1. v \in Nat /\ v > 0 /\ v < d * d /\ d \in Nat /\ d > 0
  BY DEF InTwo
<1>2. Acc32(v)[1] = q % 65536 /\ Acc32(v)[2] = v % 65536
  BY DEF Acc32, Word
<1>3. CASE v <= 65535
  <2> DEFINE w == 65535
  <2>1. v \in Nat
    BY DEF InTwo
  <2>2. v <= w /\ w \in Nat
    BY <1>3
  <2>3. Words = 0 .. w
    BY DEF Words
  <2> HIDE DEF d, q, w
  <2>4. v \in 0 .. w
    BY <2>1, <2>2
  <2>5. v \in Words
    BY <2>3, <2>4
  <2>6. 65536 * Acc32(v)[1] + Acc32(v)[2] = v
    BY <2>5, WordOfTwo
  <2>7. QED
    BY <1>1, <2>6
<1>4. CASE ~(v <= 65535)
  <2>1. v >= d
    BY <1>1, <1>4
  <2> HIDE DEF d
  <2>2. q \in Nat /\ d * q <= v /\ v < d * q + d
    BY <1>1, Divides
  <2> HIDE DEF q
  <2>3. q >= 1
    <3>1. q = 0 => d * q = 0
      BY <1>1
    <3>2. QED
      BY <1>1, <2>1, <2>2, <3>1
  <2>4. q < d
    <3>1. ASSUME q >= d PROVE FALSE
      <4>1. d * d <= d * q
        BY <1>1, <2>2, <3>1
      <4>2. d * d \in Nat /\ d * q \in Nat
        BY <1>1, <2>2
      <4>3. QED
        BY <1>1, <2>2, <4>1, <4>2
    <3>2. QED
      BY <1>1, <2>2, <3>1
  <2>5. q <= 65535
    BY <2>2, <2>4 DEF d
  <2>6. q % 65536 = q
    BY <2>2, <2>5, ModSmall
  <2>7. v % 65536 \in Nat
    BY <1>1, ModRange
  <2>8. QED
    BY <1>2, <2>2, <2>3, <2>6, <2>7
<1>5. QED
  BY <1>3, <1>4

\* A point in registers: a percentage of a voltage, or a frequency; and a time.
PctPoint(row, volt, r) ==
    \E c \in VoltCodes \cap DOMAIN row : \E t :
        InTwo(t) /\ r = <<PctOfVNom(row[c], volt), Acc32(t)[1], Acc32(t)[2]>>
HzPoint(r) ==
    \E v, t : InTwo(v) /\ InTwo(t) /\ r = <<Acc32(v)[1], Acc32(v)[2], Acc32(t)[1], Acc32(t)[2]>>

LEMMA OneAndTwo ==
    ASSUME NEW p, NEW q, NEW r PROVE <<p>> \o <<q, r>> = <<p, q, r>>
<1> DEFINE x == <<p>> \o <<q, r>>
           y == <<p, q, r>>
<1>1. IsSeq(x, 3) /\ x[1] = p /\ x[2] = q /\ x[3] = r
  BY DEF IsSeq
<1>2. IsSeq(y, 3) /\ y[1] = p /\ y[2] = q /\ y[3] = r
  BY DEF IsSeq
<1> HIDE DEF x, y
<1>3. x = y
  BY <1>1, <1>2 DEF IsSeq
<1>4. QED
  BY <1>3 DEF x, y

LEMMA TwoAndTwo ==
    ASSUME NEW p, NEW q, NEW r, NEW s PROVE <<p, q>> \o <<r, s>> = <<p, q, r, s>>
<1> DEFINE x == <<p, q>> \o <<r, s>>
           y == <<p, q, r, s>>
<1>1. IsSeq(x, 4) /\ x[1] = p /\ x[2] = q /\ x[3] = r /\ x[4] = s
  BY DEF IsSeq
<1>2. IsSeq(y, 4) /\ y[1] = p /\ y[2] = q /\ y[3] = r /\ y[4] = s
  BY DEF IsSeq
<1> HIDE DEF x, y
<1>3. x = y
  BY <1>1, <1>2 DEF IsSeq
<1>4. QED
  BY <1>3 DEF x, y

LEMMA PercentsAre ==
    ASSUME NEW row, TripRow(row), NEW volt, NEW curve \in {"LV", "HV"}
    PROVE  \E n \in 0 .. 3 : /\ IsSeq(Percents(row, volt, curve), n)
                             /\ \A k \in 1 .. n : PctPoint(row, volt, Percents(row, volt, curve)[k])
<1> DEFINE codes == TripCodes[curve]
           ps == TripPoints(row, curve)
           pct(x) == <<PctOfVNom(x.val, volt)>> \o Acc32(x.tms)
<1>1. PICK n \in 0 .. 3 : /\ IsSeq(ps, n)
                          /\ \A k \in 1 .. n : \E c \in DOMAIN codes : PointOf(row, codes[c], ps[k])
  BY TripPointsAre
<1>2. \A c \in DOMAIN codes : codes[c][1] \in VoltCodes /\ codes[c][2] \in PointCodes
  BY CodesAre
<1>3. DOMAIN ps = 1 .. n
  BY <1>1 DEF IsSeq
<1>4. Percents(row, volt, curve) = [k \in DOMAIN ps |-> pct(ps[k])]
  BY DEF Percents
<1> HIDE DEF codes, ps
<1>5. ASSUME NEW k \in 1 .. n PROVE PctPoint(row, volt, pct(ps[k]))
  <2>1. PICK c \in DOMAIN codes : PointOf(row, codes[c], ps[k])
    BY <1>1
  <2> DEFINE a == codes[c][1]
             b == codes[c][2]
             t == IF a = "AB" THEN 60000 ELSE row[b]
  <2>2. a \in VoltCodes \cap DOMAIN row /\ b \in PointCodes \cap DOMAIN row
    BY <1>2, <2>1 DEF PointOf
  <2>3. ps[k] = [val |-> row[a], tms |-> t]
    BY <2>1 DEF PointOf
  <2>4. InTwo(60000)
    BY DEF InTwo
  <2> HIDE DEF a, b
  <2>5. InTwo(row[b])
    BY <2>2 DEF TripRow
  <2>6. InTwo(t)
    BY <2>4, <2>5
  <2> HIDE DEF t
  <2>7. ps[k].val = row[a] /\ ps[k].tms = t
    BY <2>3
  <2> DEFINE hi == Acc32(t)[1]
             lo == Acc32(t)[2]
             p == PctOfVNom(row[a], volt)
  <2>8. Acc32(t) = <<hi, lo>>
    BY DEF Acc32
  <2> HIDE DEF hi, lo, p
  <2>9. pct(ps[k]) = <<p>> \o <<hi, lo>>
    BY <2>7, <2>8 DEF p
  <2>10. <<p>> \o <<hi, lo>> = <<p, hi, lo>>
    BY OneAndTwo
  <2> HIDE DEF pct
  <2>11. QED
    BY <2>2, <2>6, <2>9, <2>10 DEF PctPoint, hi, lo, p
<1> HIDE DEF pct
<1>6. Percents(row, volt, curve) = [k \in 1 .. n |-> pct(ps[k])]
  BY <1>3, <1>4
<1> DEFINE w == [k \in 1 .. n |-> pct(ps[k])]
<1>7. n \in Nat /\ w = [k \in 1 .. n |-> w[k]] /\ \A k \in 1 .. n : w[k] = pct(ps[k])
  OBVIOUS
<1> HIDE DEF w
<1>8. IsSeq(w, n)
  BY <1>7, FunctionIsSeq
<1>9. QED
  BY <1>5, <1>6, <1>7, <1>8 DEF w

LEMMA HertzAre ==
    ASSUME NEW row, TripRow(row), NEW curve \in {"LF", "HF"}
    PROVE  \E n \in 0 .. 3 : /\ IsSeq(Hertz(row, curve), n)
                             /\ \A k \in 1 .. n : HzPoint(Hertz(row, curve)[k])
<1> DEFINE codes == TripCodes[curve]
           ps == TripPoints(row, curve)
           hz(x) == Acc32(x.val) \o Acc32(x.tms)
<1>1. PICK n \in 0 .. 3 : /\ IsSeq(ps, n)
                          /\ \A k \in 1 .. n : \E c \in DOMAIN codes : PointOf(row, codes[c], ps[k])
  BY TripPointsAre
<1>2. \A c \in DOMAIN codes : codes[c][1] \in PointCodes /\ codes[c][2] \in PointCodes
  BY CodesAre
<1>3. DOMAIN ps = 1 .. n
  BY <1>1 DEF IsSeq
<1>4. Hertz(row, curve) = [k \in DOMAIN ps |-> hz(ps[k])]
  BY DEF Hertz
<1> HIDE DEF codes, ps
<1>5. ASSUME NEW k \in 1 .. n PROVE HzPoint(hz(ps[k]))
  <2>1. PICK c \in DOMAIN codes : PointOf(row, codes[c], ps[k])
    BY <1>1
  <2> DEFINE a == codes[c][1]
             b == codes[c][2]
             v == row[a]
             t == IF a = "AB" THEN 60000 ELSE row[b]
  <2>2. a \in PointCodes \cap DOMAIN row /\ b \in PointCodes \cap DOMAIN row
    BY <1>2, <2>1 DEF PointOf
  <2>3. ps[k] = [val |-> v, tms |-> t]
    BY <2>1 DEF PointOf
  <2>4. InTwo(60000)
    BY DEF InTwo
  <2> HIDE DEF a, b
  <2>5. InTwo(row[b]) /\ InTwo(v)
    BY <2>2 DEF TripRow
  <2>6. InTwo(t)
    BY <2>4, <2>5
  <2> HIDE DEF v, t
  <2>7. ps[k].val = v /\ ps[k].tms = t
    BY <2>3
  <2> DEFINE hi == Acc32(t)[1]
             lo == Acc32(t)[2]
             p == Acc32(v)[1]
             q == Acc32(v)[2]
  <2>8. Acc32(t) = <<hi, lo>> /\ Acc32(v) = <<p, q>>
    BY DEF Acc32
  <2> HIDE DEF hi, lo, p, q
  <2>9. hz(ps[k]) = <<p, q>> \o <<hi, lo>>
    BY <2>7, <2>8
  <2>10. <<p, q>> \o <<hi, lo>> = <<p, q, hi, lo>>
    BY TwoAndTwo
  <2> HIDE DEF hz
  <2>11. QED
    BY <2>5, <2>6, <2>9, <2>10 DEF HzPoint, hi, lo, p, q
<1> HIDE DEF hz
<1>6. Hertz(row, curve) = [k \in 1 .. n |-> hz(ps[k])]
  BY <1>3, <1>4
<1> DEFINE w == [k \in 1 .. n |-> hz(ps[k])]
<1>7. n \in Nat /\ w = [k \in 1 .. n |-> w[k]] /\ \A k \in 1 .. n : w[k] = hz(ps[k])
  OBVIOUS
<1> HIDE DEF w
<1>8. IsSeq(w, n)
  BY <1>7, FunctionIsSeq
<1>9. QED
  BY <1>5, <1>6, <1>7, <1>8 DEF w

\* The registers of a trip model: the switch, the number of points, the points.
Tier(points, n, width) == IsSeq(points, n) /\ \A k \in 1 .. n : IsSeq(points[k], width)
HoldsTier(t, points, n, width) ==
    /\ t[3] = Bool(points # << >>) /\ t[11] = n
    /\ \A k \in 1 .. n, i \in 1 .. width : t[11 + (width * (k - 1) + i)] = points[k][i]

LEMMA TripHolds ==
    ASSUME NEW id, NEW len, NEW width \in 3 .. 4, NEW points, NEW n \in 0 .. 3,
           Tier(points, n, width), NEW t, t = Trip(id, len, width, points)
    PROVE  HoldsTier(t, points, n, width)
<1>0. IsSeq(points, n) /\ \A k \in 1 .. n : IsSeq(points[k], width)
  BY DEF Tier
<1> DEFINE front == <<id, len, Bool(points # << >>), 0, 1, 3, 1, Word(-2), Word(-2), 1, Len(points)>>
           tier == FlattenSeq(points)
           a == width * n
           b == 3 * width - a
           c == 2 * (1 + 3 * width)
<1>1. Trip(id, len, width, points) = front \o tier \o Zeros(3 * width - Len(tier)) \o Zeros(c)
  BY DEF Trip
<1>2. IsSeq(front, 11) /\ front[3] = Bool(points # << >>) /\ front[11] = n
  BY <1>0 DEF IsSeq
<1>3. /\ IsSeq(tier, a)
      /\ \A k \in 1 .. n, i \in 1 .. width : tier[width * (k - 1) + i] = points[k][i]
  <2>1. width \in Nat /\ n \in Nat
    OBVIOUS
  <2>2. QED
    BY <1>0, <2>1, FlattenUniform
<1>4. a \in Nat /\ b \in Nat /\ c \in Nat
  <2>1. width = 3 \/ width = 4
    OBVIOUS
  <2>2. n = 0 \/ n = 1 \/ n = 2 \/ n = 3
    OBVIOUS
  <2>3. QED
    BY <2>1, <2>2
<1>5. 3 * width - Len(tier) = b
  BY <1>3 DEF IsSeq
<1>6. ASSUME NEW k \in 1 .. n, NEW i \in 1 .. width PROVE width * (k - 1) + i \in 1 .. a
  <2>1. width = 3 \/ width = 4
    OBVIOUS
  <2>2. QED
    BY <2>1
<1> HIDE DEF front, tier, a, b, c
<1>7. IsSeq(Zeros(b), b) /\ IsSeq(Zeros(c), c)
  BY <1>4, RepeatWidth DEF Zeros
<1> DEFINE t1 == front \o tier
           t2 == t1 \o Zeros(b)
           t3 == t2 \o Zeros(c)
           m1 == 11 + a
           m2 == m1 + b
<1>8. Trip(id, len, width, points) = t3
  BY <1>1, <1>5
<1>9. m1 \in Nat /\ m2 \in Nat
  BY <1>4
<1>10. Concatenated(t1, front, 11, tier, a)
  BY <1>2, <1>3, <1>4, ConcatIs
<1> HIDE DEF t1, m2
<1>11. IsSeq(t1, m1)
  BY <1>10 DEF Concatenated
<1> HIDE DEF m1
<1>12. Concatenated(t2, t1, m1, Zeros(b), b)
  BY <1>4, <1>7, <1>9, <1>11, ConcatIs
<1> HIDE DEF t2
<1>13. IsSeq(t2, m2)
  BY <1>12 DEF Concatenated, m2
<1>14. Concatenated(t3, t2, m2, Zeros(c), c)
  BY <1>4, <1>7, <1>9, <1>13, ConcatIs
<1> HIDE DEF t3
<1>15. ASSUME NEW j \in 1 .. m1 PROVE t3[j] = t1[j]
  <2>1. j \in 1 .. m2
    BY <1>4, <1>9 DEF m2
  <2>2. t3[j] = t2[j]
    BY <1>14, <2>1 DEF Concatenated
  <2>3. t2[j] = t1[j]
    BY <1>12 DEF Concatenated
  <2>4. QED
    BY <2>2, <2>3
<1>16. \A j \in 1 .. 11 : t3[j] = front[j]
  <2>1. \A j \in 1 .. 11 : t1[j] = front[j] /\ j \in 1 .. m1
    BY <1>4, <1>10 DEF Concatenated, m1
  <2>2. QED
    BY <1>15, <2>1
<1>17. ASSUME NEW k \in 1 .. n, NEW i \in 1 .. width
       PROVE  t3[11 + (width * (k - 1) + i)] = points[k][i]
  <2> DEFINE j == width * (k - 1) + i
  <2>1. j \in 1 .. a
    BY <1>6
  <2>2. tier[j] = points[k][i]
    BY <1>3
  <2> HIDE DEF j
  <2>3. t1[11 + j] = tier[j] /\ 11 + j \in 1 .. m1
    BY <1>4, <1>10, <2>1 DEF Concatenated, m1
  <2>4. t3[11 + j] = points[k][i]
    BY <1>15, <2>2, <2>3
  <2>5. QED
    BY <2>4 DEF j
<1>18. t3[3] = Bool(points # << >>) /\ t3[11] = n
  BY <1>2, <1>16
<1>19. HoldsTier(t3, points, n, width)
  BY <1>17, <1>18 DEF HoldsTier
<1>20. QED
  BY <1>8, <1>19

\* What a client reads of a trip model.
ShowsTrip(bank, id, width, points, n) ==
    /\ IsSeq(points, n)
    /\ Point(bank, id, 0) = Bool(points # << >>) /\ Point(bank, id, 8) = n
    /\ \A k \in 1 .. n, i \in 1 .. width :
           Point(bank, id, 9 + width * (k - 1) + (i - 1)) = points[k][i]

LEMMA ChainShowsTrip ==
    ASSUME NEW bank, NEW models, NEW ids, NEW at, NEW n \in Nat,
           Filled(bank, models, at, n), Chained(bank, ids, at, n),
           NEW i \in 1 .. n, NEW width \in 3 .. 4, NEW m \in Nat, m = 13 + 9 * width,
           at[i + 1] = at[i] + m, NEW len, NEW points, NEW k \in 0 .. 3, Tier(points, k, width),
           models[i] = Trip(ids[i], len, width, points)
    PROVE  ShowsTrip(bank, ids[i], width, points, k)
<1> DEFINE t == models[i]
           id == ids[i]
<1>0. HoldsTier(t, points, k, width)
  <2>1. t = Trip(id, len, width, points)
    OBVIOUS
  <2> HIDE DEF t, id
  <2>2. QED
    BY <2>1, TripHolds
<1>1. /\ t[3] = Bool(points # << >>) /\ t[11] = k
      /\ \A j \in 1 .. k, x \in 1 .. width : t[11 + (width * (j - 1) + x)] = points[j][x]
  BY <1>0 DEF HoldsTier
<1>2. ASSUME NEW off \in Nat, off + 3 <= m PROVE Point(bank, id, off) = t[off + 3]
  BY <1>2, PointIs
<1> HIDE DEF t, id
<1>3. Point(bank, id, 0) = t[3] /\ Point(bank, id, 8) = t[11]
  <2>1. Point(bank, id, 0) = t[0 + 3] /\ Point(bank, id, 8) = t[8 + 3]
    BY <1>2
  <2>2. QED
    BY <2>1
<1>4. ASSUME NEW j \in 1 .. k, NEW x \in 1 .. width
      PROVE  Point(bank, id, 9 + width * (j - 1) + (x - 1)) = points[j][x]
  <2> DEFINE off == 9 + width * (j - 1) + (x - 1)
  <2>1. off \in Nat /\ off + 3 <= m /\ off + 3 = 11 + (width * (j - 1) + x)
    <3>1. width = 3 \/ width = 4
      OBVIOUS
    <3>2. QED
      BY <3>1
  <2>2. t[11 + (width * (j - 1) + x)] = points[j][x]
    BY <1>1
  <2> HIDE DEF off
  <2>3. Point(bank, id, off) = points[j][x]
    BY <1>2, <2>1, <2>2
  <2>4. QED
    BY <2>3 DEF off
<1>5. ShowsTrip(bank, id, width, points, k)
  BY <1>1, <1>3, <1>4 DEF ShowsTrip, Tier
<1>6. QED
  BY <1>5 DEF id

\* The four models of a bank show the trips of a row.
BankTrips(bank, row, volt) ==
    /\ \A id \in {707, 708} : \E n \in 0 .. 3 : \E points :
           ShowsTrip(bank, id, 3, points, n) /\ \A k \in 1 .. n : PctPoint(row, volt, points[k])
    /\ \A id \in {709, 710} : \E n \in 0 .. 3 : \E points :
           ShowsTrip(bank, id, 4, points, n) /\ \A k \in 1 .. n : HzPoint(points[k])

LEMMA ChainShowsTrips ==
    ASSUME NEW bank, NEW models, NEW ids, NEW at, NEW n \in Nat,
           Filled(bank, models, at, n), Chained(bank, ids, at, n),
           NEW i \in Nat, i >= 1, i + 3 <= n,
           ids[i] = 707, ids[i + 1] = 708, ids[i + 2] = 709, ids[i + 3] = 710,
           at[i + 1] = at[i] + 40, at[i + 2] = at[i + 1] + 40,
           at[i + 3] = at[i + 2] + 49, at[i + 4] = at[i + 3] + 49,
           NEW row, TripRow(row), NEW volt,
           TripsOf(row, volt, models[i], models[i + 1], models[i + 2], models[i + 3])
    PROVE  BankTrips(bank, row, volt)
<1>1. ASSUME NEW j \in 1 .. n, at[j + 1] = at[j] + 40, NEW curve \in {"LV", "HV"},
             models[j] = Trip(ids[j], 38, 3, Percents(row, volt, curve))
      PROVE  \E k \in 0 .. 3 : \E points :
                 ShowsTrip(bank, ids[j], 3, points, k) /\ \A x \in 1 .. k : PctPoint(row, volt, points[x])
  <2> DEFINE points == Percents(row, volt, curve)
             width == 3
             m == 40
  <2>1. PICK k \in 0 .. 3 : IsSeq(points, k) /\ \A x \in 1 .. k : PctPoint(row, volt, points[x])
    BY PercentsAre
  <2> HIDE DEF points
  <2>2. ASSUME NEW x \in 1 .. k PROVE IsSeq(points[x], width)
    <3>1. \A p, q, r : IsSeq(<<p, q, r>>, width)
      BY DEF IsSeq
    <3>2. QED
      BY <2>1, <3>1 DEF PctPoint
  <2>3. width \in 3 .. 4 /\ m \in Nat /\ m = 13 + 9 * width /\ at[j + 1] = at[j] + m
    BY <1>1
  <2>4. models[j] = Trip(ids[j], 38, width, points)
    BY <1>1 DEF points
  <2> HIDE DEF width, m
  <2>5. Tier(points, k, width)
    BY <2>1, <2>2 DEF Tier
  <2>6. ShowsTrip(bank, ids[j], width, points, k)
    BY <2>3, <2>4, <2>5, ChainShowsTrip
  <2>7. QED
    BY <2>1, <2>6 DEF width, points
<1>2. ASSUME NEW j \in 1 .. n, at[j + 1] = at[j] + 49, NEW curve \in {"LF", "HF"},
             models[j] = Trip(ids[j], 47, 4, Hertz(row, curve))
      PROVE  \E k \in 0 .. 3 : \E points :
                 ShowsTrip(bank, ids[j], 4, points, k) /\ \A x \in 1 .. k : HzPoint(points[x])
  <2> DEFINE points == Hertz(row, curve)
             width == 4
             m == 49
  <2>1. PICK k \in 0 .. 3 : IsSeq(points, k) /\ \A x \in 1 .. k : HzPoint(points[x])
    BY HertzAre
  <2> HIDE DEF points
  <2>2. ASSUME NEW x \in 1 .. k PROVE IsSeq(points[x], width)
    <3>1. \A p, q, r, s : IsSeq(<<p, q, r, s>>, width)
      BY DEF IsSeq
    <3>2. HzPoint(points[x])
      BY <2>1
    <3>3. \E p, q, r, s : points[x] = <<p, q, r, s>>
      BY <3>2 DEF HzPoint
    <3>4. QED
      BY <3>1, <3>3
  <2>3. width \in 3 .. 4 /\ m \in Nat /\ m = 13 + 9 * width /\ at[j + 1] = at[j] + m
    BY <1>2
  <2>4. models[j] = Trip(ids[j], 47, width, points)
    BY <1>2 DEF points
  <2> HIDE DEF width, m
  <2>5. Tier(points, k, width)
    BY <2>1, <2>2 DEF Tier
  <2>6. ShowsTrip(bank, ids[j], width, points, k)
    BY <2>3, <2>4, <2>5, ChainShowsTrip
  <2>7. QED
    BY <2>1, <2>6 DEF width, points
<1>3. /\ models[i] = Trip(ids[i], 38, 3, Percents(row, volt, "LV"))
      /\ models[i + 1] = Trip(ids[i + 1], 38, 3, Percents(row, volt, "HV"))
      /\ models[i + 2] = Trip(ids[i + 2], 47, 4, Hertz(row, "LF"))
      /\ models[i + 3] = Trip(ids[i + 3], 47, 4, Hertz(row, "HF"))
  BY DEF TripsOf
<1>4. /\ i \in 1 .. n /\ i + 1 \in 1 .. n /\ i + 2 \in 1 .. n /\ i + 3 \in 1 .. n
      /\ (i + 1) + 1 = i + 2 /\ (i + 2) + 1 = i + 3 /\ (i + 3) + 1 = i + 4
  OBVIOUS
<1>5. \E k \in 0 .. 3 : \E points :
          ShowsTrip(bank, ids[i], 3, points, k) /\ \A x \in 1 .. k : PctPoint(row, volt, points[x])
  BY <1>1, <1>3, <1>4
<1>6. \E k \in 0 .. 3 : \E points :
          ShowsTrip(bank, ids[i + 1], 3, points, k) /\ \A x \in 1 .. k : PctPoint(row, volt, points[x])
  BY <1>1, <1>3, <1>4
<1>7. \E k \in 0 .. 3 : \E points :
          ShowsTrip(bank, ids[i + 2], 4, points, k) /\ \A x \in 1 .. k : HzPoint(points[x])
  BY <1>2, <1>3, <1>4
<1>8. \E k \in 0 .. 3 : \E points :
          ShowsTrip(bank, ids[i + 3], 4, points, k) /\ \A x \in 1 .. k : HzPoint(points[x])
  BY <1>2, <1>3, <1>4
<1>9. QED
  BY <1>5, <1>6, <1>7, <1>8 DEF BankTrips

\* The fleet's show the row that was picked,
LEMMA FleetShowsTrips ==
    ASSUME NEW s, NEW n \in Nat, n <= 254, IsSeq(s.invs, n), NEW pick, NEW outcome,
           NEW bank, bank = Encode(s, pick, outcome), TripRow(pick.trips)
    PROVE  BankTrips(bank, pick.trips, s.volt)
<1> DEFINE mppt == HasMPPT(s.invs)
           x == 100 + PhasesUsed(s)
           c == FleetCount(mppt, s.invs # << >>)
           ids == FleetIDs(x, mppt)
           i == 8
           row == pick.trips
           volt == s.volt
<1>1. PICK p \in 0 .. 4 * n : IsSeq(Panels(s.invs), p)
  BY PanelsWidth
<1> DEFINE at == FleetPlaces(p, n, mppt)
<1>2. PICK models : IsFleetBank(bank, models, s, p, n, pick, outcome)
  BY <1>1, FleetIsChained
<1>3. /\ Filled(bank, models, at, c) /\ Chained(bank, ids, at, c)
      /\ TripsOf(row, volt, models[8], models[9], models[10], models[11])
  BY <1>2 DEF IsFleetBank
<1>4. c \in Nat /\ c >= 11
  BY DEF FleetCount
<1>5. /\ ids[8] = 707 /\ ids[9] = 708 /\ ids[10] = 709 /\ ids[11] = 710
      /\ at[9] = at[8] + 40 /\ at[10] = at[9] + 40 /\ at[11] = at[10] + 49 /\ at[12] = at[11] + 49
  <2> HIDE DEF mppt, x
  <2>1. QED
    BY DEF FleetIDs, FleetPlaces
<1> HIDE DEF mppt, x, c, ids, at, row, volt
<1>6. /\ i \in Nat /\ i >= 1 /\ i + 3 <= c
      /\ ids[i] = 707 /\ ids[i + 1] = 708 /\ ids[i + 2] = 709 /\ ids[i + 3] = 710
      /\ at[i + 1] = at[i] + 40 /\ at[i + 2] = at[i + 1] + 40
      /\ at[i + 3] = at[i + 2] + 49 /\ at[i + 4] = at[i + 3] + 49
  BY <1>4, <1>5
<1>7. TripsOf(row, volt, models[i], models[i + 1], models[i + 2], models[i + 3]) /\ TripRow(row)
  BY <1>3 DEF row
<1> HIDE DEF i
<1>8. BankTrips(bank, row, volt)
  BY <1>3, <1>4, <1>6, <1>7, ChainShowsTrips
<1>9. QED
  BY <1>8 DEF row, volt

\* and a unit's that of its inverter.
LEMMA UnitShowsTrips ==
    ASSUME NEW inv, NEW unit, NEW row, NEW outcome, TripRow(row),
           NEW bank, bank = EncodePerInverter(inv, unit, row, outcome)
    PROVE  BankTrips(bank, row, [sum |-> inv.vac, n |-> 1])
<1> DEFINE c == UnitCount(HasMPPT(<<inv>>))
           ids == UnitIDs
           volt == [sum |-> inv.vac, n |-> 1]
           i == 7
<1>1. PICK p \in 0 .. 4 : IsSeq(Panels(<<inv>>), p)
  <2>1. IsSeq(<<inv>>, 1)
    BY DEF IsSeq
  <2>2. \E p \in 0 .. 4 * 1 : IsSeq(Panels(<<inv>>), p)
    BY <2>1, PanelsWidth
  <2>3. QED
    BY <2>2
<1> DEFINE at == UnitPlaces(p)
<1>2. PICK models : IsUnitBank(bank, models, inv, p, row, outcome)
  BY <1>1, UnitIsChained
<1>3. /\ Filled(bank, models, at, c) /\ Chained(bank, ids, at, c)
      /\ TripsOf(row, volt, models[7], models[8], models[9], models[10])
  BY <1>2 DEF IsUnitBank
<1>4. c \in Nat /\ c >= 10
  BY DEF UnitCount
<1>5. /\ ids[7] = 707 /\ ids[8] = 708 /\ ids[9] = 709 /\ ids[10] = 710
      /\ at[8] = at[7] + 40 /\ at[9] = at[8] + 40 /\ at[10] = at[9] + 49 /\ at[11] = at[10] + 49
  BY DEF UnitIDs, UnitPlaces
<1> HIDE DEF c, ids, at, volt
<1>6. /\ i \in Nat /\ i >= 1 /\ i + 3 <= c
      /\ ids[i] = 707 /\ ids[i + 1] = 708 /\ ids[i + 2] = 709 /\ ids[i + 3] = 710
      /\ at[i + 1] = at[i] + 40 /\ at[i + 2] = at[i + 1] + 40
      /\ at[i + 3] = at[i + 2] + 49 /\ at[i + 4] = at[i + 3] + 49
  BY <1>4, <1>5
<1>7. TripsOf(row, volt, models[i], models[i + 1], models[i + 2], models[i + 3])
  BY <1>3
<1> HIDE DEF i
<1>8. BankTrips(bank, row, volt)
  BY <1>3, <1>4, <1>6, <1>7, ChainShowsTrips
<1>9. QED
  BY <1>8 DEF volt

----------------------------------------------------------------------------
(* What is published was found in the sources.                             *)

AFile(file) == \E w \in DOMAIN Worlds : file = Worlds[w].file /\ FileParses(file)
ATable(rows, source) == rows = NoRows \/ \E w \in DOMAIN Worlds : rows = Worlds[w][source]
ACapacity(c) == c = 0 \/ \E w \in DOMAIN Worlds : c = Worlds[w].capacity /\ c # Garbled

FoundTables(g) ==
    /\ ACapacity(g.capacity)
    /\ ATable(g.limits, "limits") /\ ATable(g.events, "events")
    /\ ATable(g.list, "list") /\ ATable(g.prot, "prot")

\* Every snapshot mixes what the sources held at some moment.
Mixture(s) ==
    \E g : AFile(g.file) /\ FoundTables(g)
           /\ s = Snapshot(g.capacity, g.file, g.limits, g.events, g.list, g.prot)

FoundInv ==
    /\ pc \in {"limits", "events", "list", "prot", "publish"} => AFile(got.file)
    /\ FoundTables(got)
    /\ Published => Mixture(snap)

LEMMA NothingFound ==
    /\ FoundTables(Nothing)
    /\ DOMAIN Nothing = {"capacity", "file", "limits", "events", "list", "prot"}
BY DEF Nothing, FoundTables, ACapacity, ATable

LEMMA InitFound == Init => FoundInv
BY NothingFound DEF Init, FoundInv, Published

\* Every step preserves it.
LEMMA NextFound ==
    ASSUME PublishInv, FoundInv, [Next]_vars PROVE FoundInv'
<1>1. CASE Change
  BY <1>1 DEF Change, FoundInv, Published
<1>2. CASE StartRefresh
  <2> DEFINE c == IF Now.capacity = Garbled THEN 0 ELSE Now.capacity
  <2>1. got' = [Nothing EXCEPT !.capacity = c]
    BY <1>2 DEF StartRefresh
  <2>2. ACapacity(c)
    BY DEF ACapacity, Now, PublishInv
  <2> HIDE DEF c
  <2>3. FoundTables(got')
    <3> DEFINE g == got'
    <3>1. /\ g.capacity = c /\ g.limits = Nothing.limits /\ g.events = Nothing.events
          /\ g.list = Nothing.list /\ g.prot = Nothing.prot
      BY <2>1, NothingFound
    <3> HIDE DEF g
    <3>2. FoundTables(g)
      BY <2>2, <3>1, NothingFound DEF FoundTables
    <3>3. QED
      BY <3>2 DEF g
  <2>4. QED
    BY <1>2, <2>3 DEF StartRefresh, FoundInv, Published
<1>3. CASE ReadParams
  <2>1. got' = [got EXCEPT !.file = Now.file]
    BY <1>3 DEF ReadParams
  <2>2. AFile(Now.file)
    BY <1>3 DEF ReadParams, AFile, Now, PublishInv
  <2>3. DOMAIN got = {"capacity", "file", "limits", "events", "list", "prot"}
    BY DEF PublishInv, GotInv
  <2> DEFINE g == got'
             file == Now.file
  <2> HIDE DEF file
  <2>4. /\ g.file = file /\ g.capacity = got.capacity /\ g.limits = got.limits
        /\ g.events = got.events /\ g.list = got.list /\ g.prot = got.prot
    BY <2>1, <2>3 DEF file
  <2> HIDE DEF g
  <2>5. FoundTables(g)
    BY <2>4 DEF FoundTables, FoundInv
  <2>6. AFile(g.file)
    BY <2>2, <2>4 DEF file
  <2>7. QED
    BY <1>3, <2>5, <2>6 DEF ReadParams, FoundInv, Published, g
<1>4. CASE FailParams
  BY <1>4, NothingFound DEF FailParams, FoundInv, Published
<1>5. CASE Query
  <2>1. PICK rows \in {Now[pc], NoRows} : got' = [got EXCEPT ![pc] = rows]
    BY <1>5 DEF Query
  <2>2. pc \in {"limits", "events", "list", "prot"} /\ pc' \in {"events", "list", "prot", "publish"}
    BY <1>5 DEF Query, After
  <2>3. DOMAIN got = {"capacity", "file", "limits", "events", "list", "prot"}
    BY DEF PublishInv, GotInv
  <2>4. ATable(rows, pc)
    BY <2>1 DEF ATable, Now, PublishInv
  <2> DEFINE g == got'
  <2>5. /\ g.file = got.file /\ g.capacity = got.capacity
        /\ g.limits = (IF pc = "limits" THEN rows ELSE got.limits)
        /\ g.events = (IF pc = "events" THEN rows ELSE got.events)
        /\ g.list = (IF pc = "list" THEN rows ELSE got.list)
        /\ g.prot = (IF pc = "prot" THEN rows ELSE got.prot)
    BY <2>1, <2>2, <2>3
  <2> HIDE DEF g
  <2>6. FoundTables(g)
    BY <2>4, <2>5 DEF FoundTables, FoundInv
  <2>7. AFile(g.file)
    BY <2>2, <2>5 DEF FoundInv
  <2>8. QED
    BY <1>5, <2>6, <2>7 DEF Query, FoundInv, Published, g
<1>6. CASE Publish
  <2>1. AFile(got.file) /\ FoundTables(got)
    BY <1>6 DEF Publish, FoundInv
  <2>2. snap' = Snapshot(got.capacity, got.file, got.limits, got.events, got.list, got.prot)
    BY <1>6 DEF Publish
  <2>3. Mixture(snap')
    BY <2>1, <2>2 DEF Mixture
  <2>4. QED
    BY <1>6, <2>3, NothingFound DEF Publish, FoundInv
<1>7. CASE UNCHANGED vars
  BY <1>7 DEF vars, FoundInv, Published
<1>8. QED
  BY <1>1, <1>2, <1>3, <1>4, <1>5, <1>6, <1>7 DEF Next

----------------------------------------------------------------------------
(* What a client makes of the trips.                                       *)

\* The limits and clearances that inverters report are positive.
TripsAreSet == \A w \in DOMAIN Worlds : \A u \in DOMAIN Worlds[w].prot : TripRow(Worlds[w].prot[u])

\* A voltage is no more than six times what an inverter measures, if it does
\* measure one, so that its percentage fits a register.
Fitting6(v, vac) == vac = 0 \/ (vac \in Nat /\ vac <= 10000 /\ v <= 6 * vac)

PercentsFit ==
    \A w, x \in DOMAIN Worlds : FileParses(Worlds[w].file) =>
        \A r \in DOMAIN Worlds[w].file.rows : \A u \in DOMAIN Worlds[x].prot :
            \A c \in VoltCodes \cap DOMAIN Worlds[x].prot[u] :
                Fitting6(Worlds[x].prot[u][c],
                         ACVoltage(Worlds[w].file.rows[r].type, Worlds[w].file.rows[r].tail))

\* A percentage, taken of the voltage it was made with, is the limit again.
LEMMA PctReads ==
    ASSUME NEW v \in Nat, NEW vac \in Nat, vac > 0, vac <= 10000, v <= 6 * vac
    PROVE  Near((PctOfVNom(v, [sum |-> vac, n |-> 1]) * vac) \div 100, 100 * v, 100)
<1> DEFINE volt == [sum |-> vac, n |-> 1]
           x == 20000 * v + vac
           y == 2 * vac
           q == x \div y
           pp == q * vac
           e == pp \div 100
<1>1. volt.sum = vac /\ volt.n = 1
  OBVIOUS
<1>2. PctOfVNom(v, volt) = U16(q)
  <2>1. 20000 * v * 1 + vac = x
    OBVIOUS
  <2> HIDE DEF volt, x
  <2>2. QED
    BY <1>1, <2>1 DEF PctOfVNom
<1>3. x \in Nat /\ y \in Nat /\ y > 0
  OBVIOUS
<1>4. q \in Nat /\ y * q <= x /\ x < y * q + y
  <2> HIDE DEF x, y
  <2>1. QED
    BY <1>3, Divides
<1>5. q <= 60001
  <2> DEFINE k == 60001
  <2>1. k \in Nat /\ x <= y * k
    OBVIOUS
  <2> HIDE DEF x, y, k
  <2>2. x \div y <= k
    BY <1>3, <2>1, NoMore
  <2>3. QED
    BY <2>2 DEF k
<1> HIDE DEF q
<1>6. U16(q) = q
  BY <1>4, <1>5 DEF U16, Clamp
<1>7. pp \in Nat /\ y * q = 2 * pp
  BY <1>4
<1> HIDE DEF pp
<1>8. e \in Nat /\ 100 * e <= pp /\ pp < 100 * e + 100
  <2> DEFINE h == 100
  <2>1. h \in Nat /\ h > 0
    OBVIOUS
  <2> HIDE DEF h
  <2>2. pp \div h \in Nat /\ h * (pp \div h) <= pp /\ pp < h * (pp \div h) + h
    BY <1>7, <2>1, Divides
  <2>3. QED
    BY <2>2 DEF h
<1> HIDE DEF e
<1>9. 2 * pp <= 20000 * v + vac /\ 20000 * v + vac < 2 * pp + 2 * vac
  BY <1>4, <1>7
<1>10. e <= 100 * v + 100 /\ 100 * v <= e + 100
  BY <1>7, <1>8, <1>9
<1>11. Near(e, 100 * v, 100)
  BY <1>8, <1>10 DEF Near
<1>12. QED
  BY <1>2, <1>6, <1>11 DEF e, pp

\* The switch agrees with the number of points.
LEMMA SwitchReads ==
    ASSUME NEW bank, NEW id, NEW width, NEW points, NEW n \in 0 .. 3,
           ShowsTrip(bank, id, width, points, n)
    PROVE  Point(bank, id, 8) = n /\ ((Point(bank, id, 0) = 1) <=> (n > 0))
<1>1. IsSeq(points, n) /\ Point(bank, id, 0) = Bool(points # << >>) /\ Point(bank, id, 8) = n
  BY DEF ShowsTrip
<1>2. points # << >> <=> n > 0
  <2>1. n = 0 => points = << >>
    BY <1>1 DEF IsSeq
  <2>2. points = << >> => n = 0
    BY <1>1 DEF IsSeq
  <2>3. QED
    BY <2>1, <2>2
<1>3. QED
  BY <1>1, <1>2 DEF Bool

\* A point of a voltage has a time, and is a percentage of one of the limits.
ReadsPct(bank, id, row, volt, at) ==
    /\ Point32(bank, id, at + 3 - 2) > 0
    /\ \E c \in VoltCodes \cap DOMAIN row : Point(bank, id, at) = PctOfVNom(row[c], volt)

LEMMA PercentsRead ==
    ASSUME NEW bank, NEW id, NEW points, NEW n \in 0 .. 3, ShowsTrip(bank, id, 3, points, n),
           NEW row, NEW volt, NEW k \in 1 .. n, PctPoint(row, volt, points[k]),
           NEW at, at = 9 + 3 * (k - 1)
    PROVE  ReadsPct(bank, id, row, volt, at)
<1>0. PICK c \in VoltCodes \cap DOMAIN row : \E t :
          InTwo(t) /\ points[k] = <<PctOfVNom(row[c], volt), Acc32(t)[1], Acc32(t)[2]>>
  BY DEF PctPoint
<1>1. PICK t : InTwo(t) /\ points[k] = <<PctOfVNom(row[c], volt), Acc32(t)[1], Acc32(t)[2]>>
  BY <1>0
<1> DEFINE hi == Acc32(t)[1]
           lo == Acc32(t)[2]
           p == PctOfVNom(row[c], volt)
           pt == points[k]
<1>2. \A i \in 1 .. 3 : Point(bank, id, 9 + 3 * (k - 1) + (i - 1)) = pt[i]
  BY DEF ShowsTrip
<1>3. 65536 * hi + lo > 0
  BY <1>1, TwoPositive
<1>4. pt = <<p, hi, lo>>
  BY <1>1
<1> HIDE DEF p, hi, lo, pt
<1>5. pt[1] = p /\ pt[2] = hi /\ pt[3] = lo
  BY <1>4
<1>6. at \in Nat /\ 9 + 3 * (k - 1) + (1 - 1) = at /\ 9 + 3 * (k - 1) + (2 - 1) = at + 3 - 2
      /\ 9 + 3 * (k - 1) + (3 - 1) = at + 3 - 2 + 1
  OBVIOUS
<1>7. /\ Point(bank, id, 9 + 3 * (k - 1) + (1 - 1)) = p
      /\ Point(bank, id, 9 + 3 * (k - 1) + (2 - 1)) = hi
      /\ Point(bank, id, 9 + 3 * (k - 1) + (3 - 1)) = lo
  BY <1>2, <1>5
<1>8. Point(bank, id, at) = p /\ Point(bank, id, at + 3 - 2) = hi /\ Point(bank, id, at + 3 - 2 + 1) = lo
  BY <1>6, <1>7
<1>9. Point32(bank, id, at + 3 - 2) > 0
  BY <1>3, <1>8 DEF Point32
<1>10. c \in VoltCodes \cap DOMAIN row /\ Point(bank, id, at) = PctOfVNom(row[c], volt)
  BY <1>0, <1>8 DEF p
<1>11. QED
  BY <1>9, <1>10 DEF ReadsPct

\* A point of a frequency has a value and a time.
LEMMA HertzRead ==
    ASSUME NEW bank, NEW id, NEW points, NEW n \in 0 .. 3, ShowsTrip(bank, id, 4, points, n),
           NEW k \in 1 .. n, HzPoint(points[k]), NEW at, at = 9 + 4 * (k - 1)
    PROVE  Point32(bank, id, at + 4 - 2) > 0 /\ Point32(bank, id, at) > 0
<1>1. PICK v, t : /\ InTwo(v) /\ InTwo(t)
                  /\ points[k] = <<Acc32(v)[1], Acc32(v)[2], Acc32(t)[1], Acc32(t)[2]>>
  BY DEF HzPoint
<1> DEFINE hi == Acc32(t)[1]
           lo == Acc32(t)[2]
           p == Acc32(v)[1]
           q == Acc32(v)[2]
           pt == points[k]
<1>2. \A i \in 1 .. 4 : Point(bank, id, 9 + 4 * (k - 1) + (i - 1)) = pt[i]
  BY DEF ShowsTrip
<1>3. 65536 * hi + lo > 0 /\ 65536 * p + q > 0
  BY <1>1, TwoPositive
<1>4. pt = <<p, q, hi, lo>>
  BY <1>1
<1> HIDE DEF p, q, hi, lo, pt
<1>5. pt[1] = p /\ pt[2] = q /\ pt[3] = hi /\ pt[4] = lo
  BY <1>4
<1>6. at \in Nat /\ 9 + 4 * (k - 1) + (1 - 1) = at /\ 9 + 4 * (k - 1) + (2 - 1) = at + 1
      /\ 9 + 4 * (k - 1) + (3 - 1) = at + 4 - 2 /\ 9 + 4 * (k - 1) + (4 - 1) = at + 4 - 2 + 1
  OBVIOUS
<1>7. /\ Point(bank, id, 9 + 4 * (k - 1) + (1 - 1)) = p
      /\ Point(bank, id, 9 + 4 * (k - 1) + (2 - 1)) = q
      /\ Point(bank, id, 9 + 4 * (k - 1) + (3 - 1)) = hi
      /\ Point(bank, id, 9 + 4 * (k - 1) + (4 - 1)) = lo
  BY <1>2, <1>5
<1>8. /\ Point(bank, id, at) = p /\ Point(bank, id, at + 1) = q
      /\ Point(bank, id, at + 4 - 2) = hi /\ Point(bank, id, at + 4 - 2 + 1) = lo
  BY <1>6, <1>7
<1>9. QED
  BY <1>3, <1>8 DEF Point32

\* The rows of a snapshot are rows of the sources.
LEMMA RowsFound ==
    ASSUME TripsAreSet, NEW prot, ATable(prot, "prot")
    PROVE  TripRow(NoRows) /\ \A u \in DOMAIN prot : TripRow(prot[u])
<1>1. DOMAIN NoRows = {}
  BY DEF NoRows
<1>2. TripRow(NoRows)
  BY <1>1 DEF TripRow
<1>3. CASE prot = NoRows
  BY <1>1, <1>2, <1>3
<1>4. CASE \E w \in DOMAIN Worlds : prot = Worlds[w]["prot"]
  BY <1>2, <1>4 DEF TripsAreSet
<1>5. QED
  BY <1>3, <1>4 DEF ATable

\* What a fleet shows is a row of the table, or none.
LEMMA AggregateIsRow ==
    ASSUME NEW s, NEW n \in Nat, IsSeq(s.invs, n), NEW row \in AggregateProtection(s)
    PROVE  row = NoRows \/ \E u \in DOMAIN s.prot : row = s.prot[u]
<1> DEFINE with == {j \in DOMAIN s.invs : s.invs[j].uid \in DOMAIN s.prot}
<1>1. AggregateProtection(s) =
          IF with # {} THEN {s.prot[s.invs[Min(with)].uid]}
          ELSE IF DOMAIN s.prot # {} THEN {s.prot[u] : u \in DOMAIN s.prot}
          ELSE {NoRows}
  BY DEF AggregateProtection
<1>2. CASE with # {}
  <2>1. with \subseteq Nat
    BY DEF IsSeq
  <2>2. PICK x \in with : \A y \in with : x <= y
    <3> HIDE DEF with
    <3>1. QED
      BY <1>2, <2>1, LeastNat
  <2>3. Min(with) \in with
    <3> HIDE DEF with
    <3>1. \E y \in with : \A z \in with : y <= z
      BY <2>2
    <3>2. QED
      BY <3>1 DEF Min
  <2>4. s.invs[Min(with)].uid \in DOMAIN s.prot
    BY <2>3
  <2> HIDE DEF with
  <2>5. QED
    BY <1>1, <1>2, <2>4
<1>3. CASE with = {}
  <2> HIDE DEF with
  <2>1. QED
    BY <1>1, <1>3
<1>4. QED
  BY <1>2, <1>3

\* So is the row that stands for the fleet.
LEMMA AggregateRow ==
    ASSUME NEW s, NEW n \in Nat, IsSeq(s.invs, n), TripRow(NoRows),
           \A u \in DOMAIN s.prot : TripRow(s.prot[u]), NEW row \in AggregateProtection(s)
    PROVE  TripRow(row)
<1>1. row = NoRows \/ \E u \in DOMAIN s.prot : row = s.prot[u]
  BY AggregateIsRow
<1>2. QED
  BY <1>1

\* The bank of every unit shows the trips of a row, the fleet's of any row that
\* was reported, a unit's of its own.
LEMMA EachShowsTrips ==
    ASSUME PublishInv, FoundInv, TripsAreSet, NEW u \in DOMAIN banks
    PROVE  /\ \E row, volt : BankTrips(banks[u], row, volt)
           /\ u # 1 => LET inv == snap.invs[u - 1]
                       IN  /\ u - 1 \in DOMAIN snap.invs
                           /\ BankTrips(banks[u], RowShown(snap, inv), [sum |-> inv.vac, n |-> 1])
                           /\ Measured(banks[u], OffPhV) = inv.vac
<1>1. PICK n \in Nat : EncodesSnapshot(u, n)
  BY EachBank
<1>2. n <= 254 /\ IsSeq(snap.invs, n)
  BY <1>1 DEF EncodesSnapshot
<1>3. PICK g : /\ AFile(g.file) /\ FoundTables(g)
               /\ snap = Snapshot(g.capacity, g.file, g.limits, g.events, g.list, g.prot)
  BY DEF FoundInv, Mixture, Published
<1>4. snap.prot = g.prot
  BY <1>3 DEF Snapshot
<1>5. TripRow(NoRows) /\ \A k \in DOMAIN snap.prot : TripRow(snap.prot[k])
  BY <1>3, <1>4, RowsFound DEF FoundTables
<1>6. CASE u = 1
  <2>1. PICK pick \in Picks(snap) : banks[u] = Encode(snap, pick, Untracked[1])
    BY <1>1, <1>6 DEF EncodesSnapshot
  <2>2. pick.trips \in AggregateProtection(snap)
    BY DEF Picks
  <2>3. TripRow(pick.trips)
    BY <1>2, <1>5, <2>2, AggregateRow
  <2>4. BankTrips(banks[u], pick.trips, snap.volt)
    BY <1>2, <2>1, <2>3, FleetShowsTrips
  <2>5. QED
    BY <1>6, <2>4
<1>7. CASE u # 1
  <2> DEFINE inv == snap.invs[u - 1]
             bank == banks[u]
             m == UnitMeasure(inv)
  <2>1. PICK row : row = RowShown(snap, inv) /\ bank = EncodePerInverter(inv, u, row, Untracked[u])
    BY <1>1, <1>7 DEF EncodesSnapshot
  <2>2. u - 1 \in DOMAIN snap.invs
    BY <1>1, <1>7 DEF EncodesSnapshot, IsSeq
  <2> HIDE DEF inv, bank
  <2>3. TripRow(row)
    BY <1>5, <2>1 DEF RowShown
  <2>4. BankTrips(bank, row, [sum |-> inv.vac, n |-> 1])
    BY <2>1, <2>3, UnitShowsTrips
  <2>5. ShowsMeasure(bank, m)
    BY <2>1, UnitShowsMeasure
  <2>6. m.phases = 1 /\ m.v = inv.vac
    BY DEF UnitMeasure
  <2> HIDE DEF m
  <2>7. InverterModel(m)[11] = m.v
    BY <2>6, InverterCurrents
  <2>8. Measured(bank, 8) = InverterModel(m)[8 + 3]
    BY <2>5 DEF ShowsMeasure
  <2>9. Measured(bank, OffPhV) = inv.vac
    BY <2>6, <2>7, <2>8 DEF OffPhV
  <2>10. BankTrips(bank, RowShown(snap, inv), [sum |-> inv.vac, n |-> 1])
    BY <2>1, <2>4
  <2>11. QED
    BY <2>2, <2>9, <2>10 DEF inv, bank
<1>8. QED
  BY <1>6, <1>7

\* A limit of a unit's row fits the voltage that its inverter measures.
LEMMA LimitsFit ==
    ASSUME PublishInv, FoundInv, TripsAreSet, PercentsFit, Published, NEW j \in DOMAIN snap.invs,
           NEW c \in VoltCodes \cap DOMAIN RowShown(snap, snap.invs[j])
    PROVE  /\ Fitting6(RowShown(snap, snap.invs[j])[c], snap.invs[j].vac)
           /\ RowShown(snap, snap.invs[j])[c] \in Nat
           /\ snap.invs[j].uid \in DOMAIN snap.prot
           /\ RowShown(snap, snap.invs[j]) = snap.prot[snap.invs[j].uid]
<1> DEFINE inv == snap.invs[j]
<1>1. PICK g : /\ AFile(g.file) /\ FoundTables(g)
               /\ snap = Snapshot(g.capacity, g.file, g.limits, g.events, g.list, g.prot)
  BY DEF FoundInv, Mixture
<1> DEFINE r == g.file.rows[j]
<1>2. /\ snap.prot = g.prot
      /\ snap.invs = [i \in DOMAIN g.file.rows |->
                         Joined(ParseInverterLine(g.file.rows[i]), g.limits, g.events, g.list)]
  BY <1>1 DEF Snapshot
<1>3. j \in DOMAIN g.file.rows /\ inv = Joined(ParseInverterLine(r), g.limits, g.events, g.list)
  BY <1>2
<1> HIDE DEF r, inv
<1>4. inv.vac = ACVoltage(r.type, r.tail)
  BY <1>3, JoinedFields
<1>5. DOMAIN NoRows = {}
  BY DEF NoRows
<1>6. inv.uid \in DOMAIN snap.prot /\ RowShown(snap, inv) = snap.prot[inv.uid]
  BY <1>5 DEF RowShown, inv
<1> DEFINE row == RowShown(snap, inv)
<1>7. c \in VoltCodes \cap DOMAIN row
  BY DEF inv
<1>8. PICK x \in DOMAIN Worlds : snap.prot = Worlds[x].prot
  BY <1>1, <1>2, <1>5, <1>6 DEF FoundTables, ATable
<1>9. PICK w \in DOMAIN Worlds : g.file = Worlds[w].file /\ FileParses(g.file)
  BY <1>1 DEF AFile
<1>10. Fitting6(row[c], inv.vac)
  BY <1>3, <1>4, <1>6, <1>7, <1>8, <1>9 DEF PercentsFit, r
<1>11. row[c] \in Nat
  <2>1. TripRow(row)
    BY <1>6, <1>8 DEF TripsAreSet
  <2> HIDE DEF row
  <2>2. QED
    BY <1>7, <2>1 DEF TripRow, PointCodes, InTwo
<1>12. QED
  BY <1>6, <1>10, <1>11 DEF inv

\* The invariants imply the property.
LEMMA TripsStep ==
    ASSUME PublishInv, FoundInv, TripsAreSet, PercentsFit PROVE TripsAreUsable
<1> SUFFICES ASSUME NEW u \in DOMAIN banks, NEW id \in 707 .. 710
             PROVE  LET bank == banks[u]
                        n == Point(bank, id, 8)
                        width == IF id \in {707, 708} THEN 3 ELSE 4
                        at(k) == 9 + width * (k - 1)
                        volts(k) == (Point(bank, id, at(k)) * Measured(bank, OffPhV)) \div 100
                    IN  /\ (Point(bank, id, 0) = 1) = (n > 0)
                        /\ \A k \in 1 .. n : Point32(bank, id, at(k) + width - 2) > 0
                        /\ \A k \in 1 .. n :
                               IF width = 4 THEN Point32(bank, id, at(k)) > 0
                               ELSE u # 1 /\ Measured(bank, OffPhV) > 0 =>
                                    \E c \in {"AC", "AQ", "AY", "AD", "AB"}
                                             \cap DOMAIN snap.prot[snap.invs[u - 1].uid] :
                                        Near(volts(k), 100 * snap.prot[snap.invs[u - 1].uid][c], 100)
  BY DEF TripsAreUsable
<1> DEFINE bank == banks[u]
<1>1. Published
  BY DEF Published
<1>2. CASE id \in {709, 710}
  <2>1. PICK row, volt : BankTrips(bank, row, volt)
    BY EachShowsTrips
  <2> HIDE DEF bank
  <2>2. PICK n \in 0 .. 3 : \E points :
            ShowsTrip(bank, id, 4, points, n) /\ \A k \in 1 .. n : HzPoint(points[k])
    BY <1>2, <2>1 DEF BankTrips
  <2>3. PICK points : ShowsTrip(bank, id, 4, points, n) /\ \A k \in 1 .. n : HzPoint(points[k])
    BY <2>2
  <2>4. Point(bank, id, 8) = n /\ ((Point(bank, id, 0) = 1) <=> (n > 0))
    BY <2>3, SwitchReads
  <2>5. \A k \in 1 .. n : /\ Point32(bank, id, 9 + 4 * (k - 1) + 4 - 2) > 0
                          /\ Point32(bank, id, 9 + 4 * (k - 1)) > 0
    BY <2>3, HertzRead
  <2>6. (IF id \in {707, 708} THEN 3 ELSE 4) = 4
    BY <1>2
  <2>7. QED
    BY <2>4, <2>5, <2>6 DEF bank
<1>3. CASE id \in {707, 708}
  <2>1. \E row, volt : /\ BankTrips(bank, row, volt)
                       /\ u # 1 => LET inv == snap.invs[u - 1]
                                   IN  /\ u - 1 \in DOMAIN snap.invs
                                       /\ row = RowShown(snap, inv)
                                       /\ volt = [sum |-> inv.vac, n |-> 1]
                                       /\ Measured(bank, OffPhV) = inv.vac
    BY EachShowsTrips
  <2>2. PICK row, volt : /\ BankTrips(bank, row, volt)
                         /\ u # 1 => LET inv == snap.invs[u - 1]
                                     IN  /\ u - 1 \in DOMAIN snap.invs
                                         /\ row = RowShown(snap, inv)
                                         /\ volt = [sum |-> inv.vac, n |-> 1]
                                         /\ Measured(bank, OffPhV) = inv.vac
    BY <2>1
  <2> HIDE DEF bank
  <2>3. PICK n \in 0 .. 3 : \E points :
            ShowsTrip(bank, id, 3, points, n) /\ \A k \in 1 .. n : PctPoint(row, volt, points[k])
    BY <1>3, <2>2 DEF BankTrips
  <2>4. PICK points : ShowsTrip(bank, id, 3, points, n) /\ \A k \in 1 .. n : PctPoint(row, volt, points[k])
    BY <2>3
  <2>5. Point(bank, id, 8) = n /\ ((Point(bank, id, 0) = 1) <=> (n > 0))
    BY <2>4, SwitchReads
  <2> DEFINE at(k) == 9 + 3 * (k - 1)
  <2>6. ASSUME NEW k \in 1 .. n
        PROVE  /\ Point32(bank, id, at(k) + 3 - 2) > 0
               /\ \E c \in VoltCodes \cap DOMAIN row : Point(bank, id, at(k)) = PctOfVNom(row[c], volt)
    <3> DEFINE a == at(k)
    <3>1. a = 9 + 3 * (k - 1) /\ PctPoint(row, volt, points[k])
      BY <2>4
    <3> HIDE DEF at, a
    <3>2. ReadsPct(bank, id, row, volt, a)
      BY <2>4, <3>1, PercentsRead
    <3>3. QED
      BY <3>2 DEF a, ReadsPct
  <2>7. ASSUME NEW k \in 1 .. n, u # 1, Measured(bank, OffPhV) > 0
        PROVE  \E c \in VoltCodes \cap DOMAIN snap.prot[snap.invs[u - 1].uid] :
                   Near((Point(bank, id, at(k)) * Measured(bank, OffPhV)) \div 100,
                        100 * snap.prot[snap.invs[u - 1].uid][c], 100)
    <3> DEFINE inv == snap.invs[u - 1]
               vac == inv.vac
    <3>1. PICK c \in VoltCodes \cap DOMAIN row : Point(bank, id, at(k)) = PctOfVNom(row[c], volt)
      BY <2>6
    <3>2. /\ row = RowShown(snap, inv) /\ volt = [sum |-> vac, n |-> 1]
          /\ Measured(bank, OffPhV) = vac /\ vac > 0 /\ u - 1 \in DOMAIN snap.invs
      BY <2>2, <2>7
    <3>3. /\ Fitting6(row[c], vac) /\ row[c] \in Nat
          /\ row = snap.prot[inv.uid]
      BY <1>1, <3>2, LimitsFit
    <3> DEFINE v == row[c]
    <3> HIDE DEF at, vac, v
    <3>4. vac \in Nat /\ vac > 0 /\ vac <= 10000 /\ v <= 6 * vac /\ v \in Nat
      BY <3>2, <3>3 DEF Fitting6, v
    <3>5. Near((PctOfVNom(v, [sum |-> vac, n |-> 1]) * vac) \div 100, 100 * v, 100)
      BY <3>4, PctReads
    <3>6. Near((Point(bank, id, at(k)) * Measured(bank, OffPhV)) \div 100, 100 * v, 100)
      BY <3>1, <3>2, <3>5 DEF v
    <3>7. QED
      BY <3>3, <3>6 DEF v
  <2>8. (IF id \in {707, 708} THEN 3 ELSE 4) = 3
    BY <1>3
  <2>9. QED
    BY <2>5, <2>6, <2>7, <2>8 DEF bank, VoltCodes
<1>4. QED
  BY <1>2, <1>3

\* A client that evaluates a trip curve finds values and times in it, and gets
\* the limits of the inverter's own row, whichever refresh it reads.
THEOREM TripsCorrect ==
    SmallFleets /\ TripsAreSet /\ PercentsFit /\ Spec => []TripsAreUsable
<1> SUFFICES ASSUME SmallFleets, TripsAreSet, PercentsFit PROVE Spec => []TripsAreUsable
  OBVIOUS
<1>1. Spec => []PublishInv
  BY Invariance
<1>2. Init => FoundInv
  BY InitFound
<1>3. PublishInv /\ FoundInv /\ [Next]_vars => FoundInv'
  BY NextFound
<1>4. PublishInv /\ FoundInv => TripsAreUsable
  BY TripsStep
<1>5. QED
  BY <1>1, <1>2, <1>3, <1>4, PTL DEF Spec

----------------------------------------------------------------------------
(* Registers are words.                                                    *)

Regs(t) == t \in Seq(Words)

LEMMA RegsJoin ==
    ASSUME NEW s, NEW t, Regs(s), Regs(t) PROVE Regs(s \o t)
BY DEF Regs

LEMMA RegsOf ==
    ASSUME NEW t, NEW n \in Nat, IsSeq(t, n), \A i \in 1 .. n : t[i] \in Words PROVE Regs(t)
BY DEF Regs, IsSeq

LEMMA RegsAre ==
    ASSUME NEW t, Regs(t)
    PROVE  /\ Len(t) \in Nat /\ IsSeq(t, Len(t)) /\ \A i \in 1 .. Len(t) : t[i] \in Words
BY DEF Regs, IsSeq

\* Numbers up to 65535 are words,
LEMMA SmallIsWord ==
    ASSUME NEW x \in Nat, x <= 65535 PROVE x \in Words
<1> DEFINE w == 65535
<1>1. Words = 0 .. w
  BY DEF Words
<1>2. x <= w /\ w \in Nat
  OBVIOUS
<1> HIDE DEF w
<1>3. x \in 0 .. w
  BY <1>2
<1>4. QED
  BY <1>1, <1>3

\* and so is what is taken modulo their number, or kept between them.
LEMMA WordIsWord ==
    ASSUME NEW v \in Int PROVE Word(v) \in Words
<1>1. v % 65536 \in Nat /\ v % 65536 <= 65535
  BY ModRange
<1>2. QED
  BY <1>1, SmallIsWord DEF Word

LEMMA U16IsWord ==
    ASSUME NEW v \in Int PROVE U16(v) \in Words
<1>1. U16(v) \in Nat /\ U16(v) <= 65535
  BY DEF U16, Clamp
<1>2. QED
  BY <1>1, SmallIsWord

LEMMA RoundIsWord ==
    ASSUME NEW a \in Nat, NEW b \in Nat PROVE Round(a, b) \in Words
<1>1. CASE b = 0
  BY <1>1, SmallIsWord DEF Round
<1>2. CASE b # 0
  <2> DEFINE x == 2 * a + b
             y == 2 * b
  <2>1. x \in Nat /\ y \in Nat /\ y > 0
    BY <1>2
  <2>2. Round(a, b) = Word(x \div y)
    BY <1>2 DEF Round
  <2> HIDE DEF x, y
  <2>3. x \div y \in Nat
    BY <2>1, Divides
  <2>4. QED
    BY <2>2, <2>3, WordIsWord
<1>3. QED
  BY <1>1, <1>2

LEMMA BoolIsWord == ASSUME NEW b PROVE Bool(b) \in Words
<1>1. Bool(b) = 1 \/ Bool(b) = 0
  BY DEF Bool
<1>2. QED
  BY <1>1, SmallIsWord

\* The constants that stand in the models.
LEMMA Literals ==
    /\ \A x \in 0 .. 1000 : x \in Words
    /\ 21365 \in Words /\ 28243 \in Words /\ 32704 \in Words /\ 32768 \in Words /\ 65535 \in Words
    /\ 64202 \in Words
    /\ Word(-1) \in Words /\ Word(-2) \in Words /\ Word(-3) \in Words
<1>1. \A x \in 0 .. 1000 : x \in Words
  BY SmallIsWord
<1>2. /\ 21365 \in Words /\ 28243 \in Words /\ 32704 \in Words /\ 32768 \in Words
      /\ 65535 \in Words /\ 64202 \in Words
  BY SmallIsWord
<1>3. -1 \in Int /\ -2 \in Int /\ -3 \in Int
  OBVIOUS
<1>4. Word(-1) \in Words /\ Word(-2) \in Words /\ Word(-3) \in Words
  BY <1>3, WordIsWord
<1>5. QED
  BY <1>1, <1>2, <1>4

\* Tuples of words.
LEMMA Tuples ==
    /\ \A a \in Words : Regs(<<a>>)
    /\ \A a, b \in Words : Regs(<<a, b>>)
    /\ \A a, b, c \in Words : Regs(<<a, b, c>>)
    /\ \A a, b, c, d \in Words : Regs(<<a, b, c, d>>)
    /\ \A a, b, c, d, e \in Words : Regs(<<a, b, c, d, e>>)
    /\ \A a, b, c, d, e, f \in Words : Regs(<<a, b, c, d, e, f>>)
BY DEF Regs

LEMMA LongTuples ==
    /\ \A a, b, c, d, e, f, g \in Words : Regs(<<a, b, c, d, e, f, g>>)
    /\ \A a, b, c, d, e, f, g, h \in Words : Regs(<<a, b, c, d, e, f, g, h>>)
    /\ \A a, b, c, d, e, f, g, h, i, j \in Words : Regs(<<a, b, c, d, e, f, g, h, i, j>>)
    /\ \A a, b, c, d, e, f, g, h, i, j, k \in Words : Regs(<<a, b, c, d, e, f, g, h, i, j, k>>)
BY DEF Regs

LEMMA RegsEmpty == Regs(<< >>)
BY DEF Regs

LEMMA RegsRepeat ==
    ASSUME NEW n \in Nat, NEW v \in Words PROVE Regs(Repeat(n, v))
<1>1. IsSeq(Repeat(n, v), n)
  BY RepeatWidth
<1>2. \A i \in 1 .. n : Repeat(n, v)[i] = v
  BY DEF Repeat
<1>3. QED
  BY <1>1, <1>2, RegsOf

LEMMA Fillers ==
    ASSUME NEW n \in Nat
    PROVE  Regs(Zeros(n)) /\ Regs(NoU16(n)) /\ Regs(NoS16(n))
<1>1. 0 \in Words /\ 65535 \in Words /\ 32768 \in Words
  BY Literals
<1>2. QED
  BY <1>1, RegsRepeat DEF Zeros, NoU16, NoS16

LEMMA RegsFlatten ==
    ASSUME NEW seqs, NEW n \in Nat, IsSeq(seqs, n), \A j \in 1 .. n : Regs(seqs[j])
    PROVE  Regs(FlattenSeq(seqs))
<1> DEFINE l == [j \in 1 .. n |-> Len(seqs[j])]
<1>1. \A j \in 1 .. n : /\ l[j] = Len(seqs[j]) /\ l[j] \in Nat /\ IsSeq(seqs[j], l[j])
                        /\ \A i \in 1 .. l[j] : seqs[j][i] \in Words
  BY RegsAre
<1>2. l = [j \in 1 .. n |-> l[j]]
  OBVIOUS
<1> HIDE DEF l
<1>3. IsSeq(l, n)
  BY <1>2, FunctionIsSeq
<1>4. IsSeq(FlattenSeq(seqs), Total(l)) /\ \A i \in 1 .. Total(l) : FlattenSeq(seqs)[i] \in Words
  BY <1>1, <1>3, FlattenTotal
<1>5. Total(l) \in Nat
  BY <1>1, <1>3, TotalPositive
<1>6. QED
  BY <1>4, <1>5, RegsOf

LEMMA RegsLong ==
    ASSUME NEW v \in Int PROVE Regs(Acc32(v)) /\ Regs(Float(v))
<1> DEFINE d == 65536
<1>1. v \div d \in Int
  OBVIOUS
<1>2. Acc32(v) = <<Word(v \div d), Word(v)>>
  BY DEF Acc32
<1> HIDE DEF d
<1>3. Word(v \div d) \in Words /\ Word(v) \in Words
  BY <1>1, WordIsWord
<1>4. Regs(Acc32(v))
  BY <1>2, <1>3, Tuples
<1>5. QED
  BY <1>4 DEF Float

LEMMA RegsNaN == Regs(NaN) /\ Regs(NaNs(3)) /\ Regs(NoU32)
<1>1. Regs(NaN)
  BY SMT, Literals DEF NaN, Regs
<1> DEFINE r == Repeat(3, NaN)
<1>2. IsSeq(r, 3)
  BY RepeatWidth
<1>3. \A j \in 1 .. 3 : r[j] = NaN
  BY DEF Repeat
<1> HIDE DEF r
<1>4. Regs(FlattenSeq(r))
  BY <1>1, <1>2, <1>3, RegsFlatten
<1>5. QED
  BY <1>1, <1>4, Fillers DEF NaNs, r, NoU32

----------------------------------------------------------------------------
(* The models of the measurements.                                         *)

LEMMA RegsBits ==
    ASSUME NEW bits, NEW from \in Nat PROVE Regs(Bits32(bits, from))
<1>1. 2 ^ 16 = 65536
  OBVIOUS
<1>2. ASSUME NEW f \in Nat PROVE BitWord(bits, f) \in Words
  <2>1. 0 \in 0 .. 15
    OBVIOUS
  <2>2. BitWord(bits, f) \in Nat /\ BitWord(bits, f) < 2 ^ 16
    BY <2>1, BitWordIs
  <2>3. QED
    BY <1>1, <2>2, SmallIsWord
<1>3. BitWord(bits, from + 16) \in Words /\ BitWord(bits, from) \in Words
  BY <1>2
<1>4. QED
  BY <1>3, Tuples DEF Bits32

LEMMA RegsEvents ==
    ASSUME NEW bits PROVE Regs(EventRegisters(bits))
<1> DEFINE a == Bits32(MapToEvt1(bits), 0)
           b == Bits32(bits, 0)
           c == Bits32(bits, 32)
           d == Bits32(bits, 64)
<1>1. Regs(a) /\ Regs(b) /\ Regs(c) /\ Regs(d)
  BY RegsBits
<1>2. EventRegisters(bits) = a \o NoU32 \o b \o c \o d \o NoU32
  BY DEF EventRegisters
<1> HIDE DEF a, b, c, d
<1>3. QED
  BY <1>1, <1>2, RegsNaN, RegsJoin

LEMMA RegsPerPhase ==
    ASSUME NEW m, NEW values, NEW none, Regs(none), \A ph \in 1 .. 3 : Regs(values[ph])
    PROVE  Regs(PerPhase(m, values, none))
<1> DEFINE s == [ph \in 1 .. 3 |-> IF ph <= m.phases THEN values[ph] ELSE none]
<1>1. IsSeq(s, 3)
  BY DEF IsSeq
<1>2. \A ph \in 1 .. 3 : Regs(s[ph])
  OBVIOUS
<1>3. PerPhase(m, values, none) = FlattenSeq(s)
  BY DEF PerPhase
<1> HIDE DEF s
<1>4. QED
  BY <1>1, <1>2, <1>3, RegsFlatten

\* What a measurement may hold.
Measurable(m) ==
    /\ m.phases \in 1 .. 3 /\ m.a \in Words /\ m.v \in Words
    /\ \A ph \in 1 .. 3 : m.phA[ph] \in Words
    /\ m.w \in Int /\ m.hz \in Words /\ Regs(m.hzFloat) /\ m.temp \in Int /\ m.st \in Words

LEMMA RegsInverter ==
    ASSUME NEW m, Measurable(m) PROVE Regs(InverterModel(m))
<1> DEFINE currents == PerPhase(m, [ph \in 1 .. 3 |-> <<m.phA[ph]>>], NoU16(1))
           volts == PerPhase(m, Repeat(3, <<m.v>>), NoU16(1))
           events == EventRegisters(m.events)
           x == 100 + m.phases
           watts == Word(Clamp(m.w, -32760, 32760))
           heat == Word(Clamp(m.temp, -100, 200))
<1>1. Regs(currents) /\ Regs(volts)
  <2>1. Regs(NoU16(1))
    BY Fillers
  <2>2. m.v \in Words /\ \A ph \in 1 .. 3 : m.phA[ph] \in Words
    BY DEF Measurable
  <2> DEFINE a == [ph \in 1 .. 3 |-> <<m.phA[ph]>>]
             b == Repeat(3, <<m.v>>)
  <2>3. \A ph \in 1 .. 3 : a[ph] = <<m.phA[ph]>> /\ b[ph] = <<m.v>>
    BY DEF Repeat
  <2> HIDE DEF a, b
  <2>4. \A ph \in 1 .. 3 : Regs(a[ph]) /\ Regs(b[ph])
    BY <2>2, <2>3, Tuples
  <2>5. Regs(PerPhase(m, a, NoU16(1))) /\ Regs(PerPhase(m, b, NoU16(1)))
    BY <2>1, <2>4, RegsPerPhase
  <2>6. QED
    BY <2>5 DEF a, b
<1>2. Regs(events)
  BY RegsEvents
<1>3. x \in Words
  BY Literals DEF Measurable
<1>4. watts \in Words /\ heat \in Words
  <2>1. Clamp(m.w, -32760, 32760) \in Int /\ Clamp(m.temp, -100, 200) \in Int
    BY DEF Clamp, Measurable
  <2>2. QED
    BY <2>1, WordIsWord
<1>5. m.a \in Words /\ m.hz \in Words /\ m.st \in Words
  BY DEF Measurable
<1>6. InverterModel(m) =
          <<x, 50, m.a>> \o currents \o <<Word(-1)>>
          \o NoU16(3) \o volts \o <<0>>
          \o <<watts, 0, m.hz, Word(-2)>>
          \o <<32768, 0, 32768, 0, 32768, 0>> \o Zeros(3)
          \o <<65535, 0, 65535, 0, 32768, 0>>
          \o <<heat>> \o NoS16(3) \o <<0, m.st, 0>>
          \o events
  BY DEF InverterModel
<1> HIDE DEF currents, volts, events, x, watts, heat
<1>7. /\ Regs(<<x, 50, m.a>>) /\ Regs(<<Word(-1)>>) /\ Regs(<<0>>)
      /\ Regs(<<watts, 0, m.hz, Word(-2)>>) /\ Regs(<<32768, 0, 32768, 0, 32768, 0>>)
      /\ Regs(<<65535, 0, 65535, 0, 32768, 0>>) /\ Regs(<<heat>>) /\ Regs(<<0, m.st, 0>>)
  BY SMT, <1>3, <1>4, <1>5, Literals DEF Regs
<1>8. Regs(NoU16(3)) /\ Regs(Zeros(3)) /\ Regs(NoS16(3))
  BY Fillers
<1>9. QED
  BY <1>1, <1>2, <1>6, <1>7, <1>8, RegsJoin

LEMMA RegsFloats ==
    ASSUME NEW m, Measurable(m) PROVE Regs(InverterFloat(m))
<1> DEFINE currents == PerPhase(m, [ph \in 1 .. 3 |-> Float(m.phA[ph])], NaN)
           volts == PerPhase(m, Repeat(3, Float(m.v)), NaN)
           events == EventRegisters(m.events)
           x == 110 + m.phases
<1>1. Regs(currents) /\ Regs(volts)
  <2>1. Regs(NaN)
    BY RegsNaN
  <2>2. m.v \in Int /\ \A ph \in 1 .. 3 : m.phA[ph] \in Int
    BY WordIs DEF Measurable
  <2> DEFINE a == [ph \in 1 .. 3 |-> Float(m.phA[ph])]
             b == Repeat(3, Float(m.v))
  <2>3. \A ph \in 1 .. 3 : a[ph] = Float(m.phA[ph]) /\ b[ph] = Float(m.v)
    BY DEF Repeat
  <2> HIDE DEF a, b
  <2>4. \A ph \in 1 .. 3 : Regs(a[ph]) /\ Regs(b[ph])
    BY <2>2, <2>3, RegsLong
  <2>5. Regs(PerPhase(m, a, NaN)) /\ Regs(PerPhase(m, b, NaN))
    BY <2>1, <2>4, RegsPerPhase
  <2>6. QED
    BY <2>5 DEF a, b
<1>2. Regs(events)
  BY RegsEvents
<1>3. x \in Words
  BY Literals DEF Measurable
<1>4. m.a \in Int /\ m.w \in Int /\ m.temp \in Int /\ 0 \in Int
  BY WordIs DEF Measurable
<1>5. /\ Regs(Float(m.a)) /\ Regs(Float(m.w)) /\ Regs(Float(m.temp)) /\ Regs(Float(0))
      /\ Regs(m.hzFloat) /\ m.st \in Words
  BY <1>4, RegsLong DEF Measurable
<1>6. InverterFloat(m) =
          <<x, 60>> \o Float(m.a) \o currents
          \o NaNs(3) \o volts
          \o Float(m.w) \o m.hzFloat \o NaNs(3) \o Float(0) \o NaNs(3)
          \o Float(m.temp) \o NaNs(3) \o <<m.st, 0>> \o events
  BY DEF InverterFloat
<1> HIDE DEF currents, volts, events, x
<1>7. Regs(<<x, 60>>) /\ Regs(<<m.st, 0>>)
  BY SMT, <1>3, <1>5, Literals DEF Regs
<1>8. QED
  BY <1>1, <1>2, <1>5, <1>6, <1>7, RegsNaN, RegsJoin

----------------------------------------------------------------------------
(* The models of the panels.                                               *)

\* What Build makes of a row of numbers.
Telling(inv) ==
    /\ inv.uid \in Words /\ inv.freq \in Words /\ inv.vac \in Words
    /\ inv.temp \in Int /\ inv.pac \in Nat /\ inv.tail \in Seq(Words)
    /\ inv.phase \in Int /\ inv.model \in Int /\ inv.limit \in Nat

APanel == [uid : Words, vac : Words, temp : Int, w : Words]

LEMMA PanelsTell ==
    ASSUME NEW invs, NEW n \in Nat, IsSeq(invs, n), \A j \in 1 .. n : Telling(invs[j])
    PROVE  \E p \in 0 .. 4 * n : /\ IsSeq(Panels(invs), p)
                                 /\ \A c \in 1 .. p : Panels(invs)[c] \in APanel
<1> DEFINE of(j) == [c \in DOMAIN PanelPowers(invs[j]) |->
                         [uid |-> invs[j].uid, vac |-> invs[j].vac, temp |-> invs[j].temp,
                          w |-> PanelPowers(invs[j])[c]]]
           seqs == [j \in DOMAIN invs |-> of(j)]
           l == [j \in 1 .. n |-> Len(of(j))]
<1>1. PICK p \in 0 .. 4 * n : IsSeq(Panels(invs), p)
  BY PanelsWidth
<1>2. DOMAIN invs = 1 .. n
  BY DEF IsSeq
<1>3. ASSUME NEW j \in 1 .. n
      PROVE  /\ Len(of(j)) \in Nat /\ IsSeq(of(j), Len(of(j)))
             /\ \A c \in 1 .. Len(of(j)) : of(j)[c] \in APanel
  <2> DEFINE powers == PanelPowers(invs[j])
             a == invs[j].uid
             b == invs[j].vac
             t == invs[j].temp
  <2>1. a \in Words /\ b \in Words /\ t \in Int /\ invs[j].tail \in Seq(Words)
    BY DEF Telling
  <2>2. PICK q \in 0 .. 4 : IsSeq(powers, q) /\ \A c \in 1 .. q : powers[c] \in Words
    BY <2>1, PanelPowersAre
  <2>3. of(j) = [c \in DOMAIN powers |-> [uid |-> a, vac |-> b, temp |-> t, w |-> powers[c]]]
    OBVIOUS
  <2> HIDE DEF powers, a, b, t, of
  <2>4. of(j) = [c \in 1 .. q |-> [uid |-> a, vac |-> b, temp |-> t, w |-> powers[c]]]
    BY <2>2, <2>3 DEF IsSeq
  <2> DEFINE g == of(j)
  <2>5. q \in Nat /\ g = [c \in 1 .. q |-> g[c]]
    BY <2>4
  <2>6. \A c \in 1 .. q : g[c] \in APanel
    BY <2>1, <2>2, <2>4 DEF APanel
  <2> HIDE DEF g
  <2>7. IsSeq(g, q)
    BY <2>5, FunctionIsSeq
  <2>8. Len(g) = q
    BY <2>7 DEF IsSeq
  <2>9. QED
    BY <2>5, <2>6, <2>7, <2>8 DEF g
<1>4. Panels(invs) = FlattenSeq(seqs)
  BY DEF Panels
<1> HIDE DEF of
<1>5. /\ seqs = [j \in 1 .. n |-> of(j)] /\ \A j \in 1 .. n : seqs[j] = of(j)
      /\ l = [j \in 1 .. n |-> l[j]] /\ \A j \in 1 .. n : l[j] = Len(of(j))
  BY <1>2
<1> HIDE DEF seqs, l
<1>6. IsSeq(seqs, n) /\ IsSeq(l, n)
  <2>1. seqs = [j \in 1 .. n |-> seqs[j]]
    BY <1>5
  <2>2. QED
    BY <1>5, <2>1, FunctionIsSeq
<1>7. \A j \in 1 .. n : IsSeq(seqs[j], l[j]) /\ \A i \in 1 .. l[j] : seqs[j][i] \in APanel
  BY <1>3, <1>5
<1>8. IsSeq(FlattenSeq(seqs), Total(l)) /\ \A i \in 1 .. Total(l) : FlattenSeq(seqs)[i] \in APanel
  BY <1>6, <1>7, FlattenTotal
<1>9. Total(l) = p
  BY <1>1, <1>4, <1>8 DEF IsSeq
<1>10. QED
  BY <1>1, <1>4, <1>8, <1>9

LEMMA RegsDCData ==
    ASSUME NEW panels, NEW p \in Nat, IsSeq(panels, p), \A c \in 1 .. p : panels[c] \in APanel,
           NEW unknown, Regs(unknown)
    PROVE  Regs(DCData(panels, unknown))
<1> DEFINE volts(x) == IF x.vac > 0 THEN Float(x.vac) ELSE unknown
           amps(x) == IF x.vac > 0 THEN Float(Round(10 * x.w, x.vac)) ELSE unknown
           watts(x) == Float(x.w)
           a == FlattenSeq([c \in 1 .. 8 |-> IF c <= Len(panels) THEN volts(panels[c]) ELSE NaN])
           b == FlattenSeq([c \in 1 .. 8 |-> IF c <= Len(panels) THEN amps(panels[c]) ELSE NaN])
           d == FlattenSeq([c \in 1 .. 8 |-> IF c <= Len(panels) THEN watts(panels[c]) ELSE NaN])
<1>1. ASSUME NEW x \in APanel PROVE Regs(volts(x)) /\ Regs(amps(x)) /\ Regs(watts(x))
  <2>1. x.vac \in Words /\ x.w \in Words
    BY DEF APanel
  <2>2. x.vac \in Nat /\ x.w \in Nat
    BY <2>1, WordIs
  <2>3. 10 * x.w \in Nat
    BY <2>2
  <2>4. Round(10 * x.w, x.vac) \in Words
    BY <2>2, <2>3, RoundIsWord
  <2>5. Round(10 * x.w, x.vac) \in Int /\ x.vac \in Int /\ x.w \in Int
    BY <2>2, <2>4, WordIs
  <2>6. Regs(Float(x.vac)) /\ Regs(Float(x.w)) /\ Regs(Float(Round(10 * x.w, x.vac)))
    BY <2>5, RegsLong
  <2>7. QED
    BY <2>6
<1>2. Len(panels) = p
  BY DEF IsSeq
<1>3. DCData(panels, unknown) = <<114, 48>> \o a \o b \o d
  BY DEF DCData
<1> HIDE DEF volts, amps, watts
<1>4. ASSUME NEW s, IsSeq(s, 8), \A c \in 1 .. 8 : c <= p => Regs(s[c]),
             \A c \in 1 .. 8 : c > p => s[c] = NaN
      PROVE  Regs(FlattenSeq(s))
  <2>1. ASSUME NEW c \in 1 .. 8 PROVE Regs(s[c])
    BY <1>4, RegsNaN
  <2>2. QED
    BY <1>4, <2>1, RegsFlatten
<1>5. \A c \in 1 .. 8 : c <= p => panels[c] \in APanel
  OBVIOUS
<1>6. Regs(a)
  <2> DEFINE s == [c \in 1 .. 8 |-> IF c <= Len(panels) THEN volts(panels[c]) ELSE NaN]
  <2>1. IsSeq(s, 8)
    BY DEF IsSeq
  <2>2. /\ \A c \in 1 .. 8 : c <= p => Regs(s[c])
        /\ \A c \in 1 .. 8 : c > p => s[c] = NaN
    BY <1>1, <1>2, <1>5
  <2> HIDE DEF s
  <2>3. Regs(FlattenSeq(s))
    BY <1>4, <2>1, <2>2
  <2>4. QED
    BY <2>3 DEF s
<1>7. Regs(b)
  <2> DEFINE s == [c \in 1 .. 8 |-> IF c <= Len(panels) THEN amps(panels[c]) ELSE NaN]
  <2>1. IsSeq(s, 8)
    BY DEF IsSeq
  <2>2. /\ \A c \in 1 .. 8 : c <= p => Regs(s[c])
        /\ \A c \in 1 .. 8 : c > p => s[c] = NaN
    BY <1>1, <1>2, <1>5
  <2> HIDE DEF s
  <2>3. Regs(FlattenSeq(s))
    BY <1>4, <2>1, <2>2
  <2>4. QED
    BY <2>3 DEF s
<1>8. Regs(d)
  <2> DEFINE s == [c \in 1 .. 8 |-> IF c <= Len(panels) THEN watts(panels[c]) ELSE NaN]
  <2>1. IsSeq(s, 8)
    BY DEF IsSeq
  <2>2. /\ \A c \in 1 .. 8 : c <= p => Regs(s[c])
        /\ \A c \in 1 .. 8 : c > p => s[c] = NaN
    BY <1>1, <1>2, <1>5
  <2> HIDE DEF s
  <2>3. Regs(FlattenSeq(s))
    BY <1>4, <2>1, <2>2
  <2>4. QED
    BY <2>3 DEF s
<1> HIDE DEF a, b, d
<1>9. Regs(<<114, 48>>)
  BY SMT, Literals DEF Regs
<1>10. QED
  BY <1>3, <1>6, <1>7, <1>8, <1>9, RegsJoin

LEMMA RegsModule ==
    ASSUME NEW c \in Words, NEW p \in APanel PROVE Regs(PanelModule(c, p))
<1> DEFINE amps == IF p.vac > 0 THEN Round(10 * p.w, p.vac) ELSE 65535
           volts == IF p.vac > 0 THEN p.vac ELSE 65535
           heat == Word(Clamp(p.temp, -100, 200))
           st == IF p.w > 0 THEN StMPPT ELSE StOff
<1>1. p.uid \in Words /\ p.vac \in Words /\ p.w \in Words /\ p.temp \in Int
  BY DEF APanel
<1>2. p.vac \in Nat /\ p.w \in Nat
  BY <1>1, WordIs
<1>3. 10 * p.w \in Nat
  BY <1>2
<1>4. amps \in Words /\ volts \in Words
  <2>1. Round(10 * p.w, p.vac) \in Words
    BY <1>2, <1>3, RoundIsWord
  <2>2. 65535 \in Words
    BY Literals
  <2>3. QED
    BY <1>1, <2>1, <2>2
<1>5. Clamp(p.temp, -100, 200) \in Int
  BY <1>1 DEF Clamp
<1>6. heat \in Words
  BY <1>5, WordIsWord
<1>7. st \in Words
  BY Literals DEF StMPPT, StOff
<1>8. PanelModule(c, p) =
          <<c, p.uid>> \o Zeros(7) \o <<amps, volts, p.w>> \o Acc32(0) \o NoU32 \o <<heat, st>> \o NoU32
  BY DEF PanelModule
<1> HIDE DEF amps, volts, heat, st
<1>9. Regs(<<c, p.uid>>) /\ Regs(<<amps, volts, p.w>>) /\ Regs(<<heat, st>>)
  BY <1>1, <1>4, <1>6, <1>7, Tuples
<1>10. Regs(Acc32(0)) /\ Regs(Zeros(7))
  <2>1. 0 \in Int /\ 7 \in Nat
    OBVIOUS
  <2>2. QED
    BY <2>1, RegsLong, Fillers
<1>11. QED
  BY <1>8, <1>9, <1>10, RegsNaN, RegsJoin

LEMMA RegsMultiMPPT ==
    ASSUME NEW panels, NEW p \in Nat, p <= 1016, IsSeq(panels, p), \A c \in 1 .. p : panels[c] \in APanel
    PROVE  Regs(MultiMPPT(panels))
<1>1. CASE panels = << >> \/ DisableMPPT
  BY <1>1, RegsEmpty DEF MultiMPPT
<1>2. CASE ~(panels = << >> \/ DisableMPPT)
  <2> DEFINE s == [c \in DOMAIN panels |-> PanelModule(c, panels[c])]
             len == 8 + 20 * Len(panels)
  <2> DEFINE full == <<160, len, Word(-1), 0, 0, 0>> \o NoU32 \o <<Len(panels), 65535>> \o FlattenSeq(s)
  <2>0. MultiMPPT(panels) = IF panels = << >> \/ DisableMPPT THEN << >> ELSE full
    BY DEF MultiMPPT
  <2> HIDE DEF full
  <2>1. MultiMPPT(panels) = full
    BY <1>2, <2>0
  <2> USE DEF full
  <2>2. Len(panels) = p /\ DOMAIN panels = 1 .. p
    BY DEF IsSeq
  <2>3. len \in Nat /\ len <= 65535 /\ p <= 65535
    BY <2>2
  <2>4. ASSUME NEW c \in 1 .. p PROVE c \in Words
    <3>1. c \in Nat /\ c <= 65535
      OBVIOUS
    <3>2. QED
      BY <3>1, SmallIsWord
  <2>5. s = [c \in 1 .. p |-> s[c]] /\ \A c \in 1 .. p : s[c] = PanelModule(c, panels[c])
    BY <2>2
  <2> HIDE DEF s, len
  <2>6. IsSeq(s, p)
    BY <2>5, FunctionIsSeq
  <2>7. \A c \in 1 .. p : Regs(s[c])
    BY <2>4, <2>5, RegsModule
  <2>8. Regs(FlattenSeq(s))
    BY <2>6, <2>7, RegsFlatten
  <2>9. len \in Words /\ Len(panels) \in Words
    BY <2>2, <2>3, SmallIsWord
  <2>10. Regs(<<160, len, Word(-1), 0, 0, 0>>) /\ Regs(<<Len(panels), 65535>>)
    BY SMT, <2>9, Literals DEF Regs
  <2>11. QED
    BY <2>1, <2>8, <2>10, RegsNaN, RegsJoin
<1>3. QED
  BY <1>1, <1>2

----------------------------------------------------------------------------
(* Ratings, settings, controls and the vendor's model.                     *)

LEMMA RegsNameplate ==
    ASSUME NEW w \in Nat PROVE Regs(Nameplate(w))
<1> DEFINE r == Round(10 * w, 230)
           x == U16(w)
<1>1. 10 * w \in Nat /\ 230 \in Nat
  OBVIOUS
<1>2. r \in Words /\ x \in Words
  BY <1>1, RoundIsWord, U16IsWord
<1>3. Nameplate(w) =
          <<120, 26, 4, x, 0, x, 0>> \o NoS16(4) \o <<0, r, Word(-1)>>
          \o Repeat(4, 1000) \o <<Word(-3), 65535, 0, 65535, 0, 65535, 0, 65535, 0, 0>>
  BY DEF Nameplate
<1> HIDE DEF r, x
<1>4. Regs(<<120, 26, 4, x, 0, x, 0>>) /\ Regs(<<0, r, Word(-1)>>)
  BY SMT, <1>2, Literals DEF Regs
<1>5. Regs(<<Word(-3), 65535, 0, 65535, 0, 65535, 0, 65535, 0, 0>>)
  BY SMT, Literals DEF Regs
<1>6. Regs(NoS16(4)) /\ Regs(Repeat(4, 1000))
  <2>1. 1000 \in Words /\ 4 \in Nat
    BY Literals
  <2>2. QED
    BY <2>1, Fillers, RegsRepeat
<1>7. QED
  <2> DEFINE a == <<120, 26, 4, x, 0, x, 0>>
             b == <<0, r, Word(-1)>>
             c == <<Word(-3), 65535, 0, 65535, 0, 65535, 0, 65535, 0, 0>>
             d == NoS16(4)
             e == Repeat(4, 1000)
  <2>1. Regs(a) /\ Regs(b) /\ Regs(c) /\ Regs(d) /\ Regs(e)
    BY <1>4, <1>5, <1>6
  <2>2. Nameplate(w) = a \o d \o b \o e \o c
    BY <1>3
  <2> HIDE DEF a, b, c, d, e
  <2>3. QED
    BY <2>1, <2>2, RegsJoin

LEMMA RegsSettings ==
    ASSUME NEW s, TotalLimitedW(s) \in Nat, NEW vref \in Int PROVE Regs(BasicSettings(s, vref))
<1> DEFINE w == TotalLimitedW(s)
           x == IF w > 0 /\ w <= 65535 THEN w ELSE 65535
           y == IF vref > 0 /\ vref < 65535 THEN vref ELSE 65535
<1>1. BasicSettings(s, vref) =
          <<121, 30, x, y>>
          \o NoS16(1) \o NoU16(3) \o NoS16(4) \o NoU16(1) \o NoS16(4) \o NoU16(5)
          \o Zeros(7) \o <<Word(-3), Word(-2), 0>>
  BY DEF BasicSettings
<1>2. x \in Nat /\ x <= 65535 /\ y \in Nat /\ y <= 65535
  OBVIOUS
<1> HIDE DEF x, y
<1>3. x \in Words /\ y \in Words
  BY <1>2, SmallIsWord
<1>4. Regs(<<121, 30, x, y>>) /\ Regs(<<Word(-3), Word(-2), 0>>)
  BY SMT, <1>3, Literals DEF Regs
<1>5. /\ Regs(NoS16(1)) /\ Regs(NoU16(3)) /\ Regs(NoS16(4)) /\ Regs(NoU16(1))
      /\ Regs(NoU16(5)) /\ Regs(Zeros(7))
  BY Fillers
<1>6. QED
  BY <1>1, <1>4, <1>5, RegsJoin

LEMMA RegsControls ==
    ASSUME NEW pct \in Words, NEW ena \in Words, NEW conn \in Words
    PROVE  Regs(Controls(pct, ena, conn))
<1>1. Regs(<<123, 24>>) /\ Regs(<<conn, pct>>) /\ Regs(<<ena, 32768>>) /\ Regs(<<0>>)
  BY SMT, Literals DEF Regs
<1>2. Regs(NoU16(2)) /\ Regs(NoU16(3)) /\ Regs(NoS16(3)) /\ Regs(Zeros(5))
  BY Fillers
<1>3. QED
  BY <1>1, <1>2, RegsJoin DEF Controls

LEMMA RegsUnitControls ==
    ASSUME NEW inv, Telling(inv) PROVE Regs(UnitControls(inv))
<1>1. InvCapPct(inv) \in 0 .. 100
  BY PctIs DEF Telling
<1>2. InvCapPct(inv) \in Words
  BY <1>1, Literals
<1>3. QED
  BY <1>2, BoolIsWord, RegsControls DEF UnitControls

LEMMA RegsFleetControls ==
    ASSUME NEW s, NEW n \in Nat, IsSeq(s.invs, n), \A j \in 1 .. n : Telling(s.invs[j])
    PROVE  Regs(FleetControls(s))
<1>1. DOMAIN s.invs = 1 .. n /\ Len(s.invs) = n
  BY DEF IsSeq
<1>2. CASE s.invs = << >>
  <2>1. FleetControls(s) = Controls(100, 0, 0)
    BY <1>2 DEF FleetControls
  <2>2. 100 \in Words /\ 0 \in Words
    BY Literals
  <2>3. QED
    BY <2>1, <2>2, RegsControls
<1>3. CASE s.invs # << >>
  <2> DEFINE v == [j \in DOMAIN s.invs |-> InvCapPct(s.invs[j])]
             t == Total(v)
             x == Bool(\E j \in DOMAIN s.invs : Capped(s.invs[j]))
             y == Bool(\E j \in DOMAIN s.invs : s.invs[j].online)
  <2>1. FleetControls(s) = Controls(t \div Len(s.invs), x, y)
    BY <1>3 DEF FleetControls, SumOver
  <2>2. v = [j \in 1 .. n |-> v[j]] /\ \A j \in 1 .. n : v[j] = InvCapPct(s.invs[j])
    BY <1>1
  <2>3. x \in Words /\ y \in Words
    BY BoolIsWord
  <2> HIDE DEF v, x, y
  <2>4. IsSeq(v, n)
    BY <2>2, FunctionIsSeq
  <2>5. ASSUME NEW j \in 1 .. n PROVE v[j] \in 0 .. 100
    <3>1. InvCapPct(s.invs[j]) \in 0 .. 100
      BY PctIs DEF Telling
    <3>2. QED
      BY <2>2, <3>1
  <2> DEFINE b == 100
  <2>6. b \in Nat /\ \A j \in 1 .. n : v[j] \in 0 .. b
    BY <2>5
  <2> HIDE DEF b
  <2>7. t \in 0 .. b * n
    BY <2>4, <2>6, TotalBounded
  <2> HIDE DEF t
  <2>8. n > 0
    BY <1>3 DEF IsSeq
  <2>9. t \in Nat /\ t <= n * b
    BY <2>6, <2>7
  <2>10. t \div n \in Nat /\ t \div n <= b
    BY <2>6, <2>8, <2>9, Divides, NoMore
  <2>11. t \div n \in Words
    BY <2>10, SmallIsWord DEF b
  <2>12. QED
    BY <1>1, <2>1, <2>3, <2>11, RegsControls
<1>4. QED
  BY <1>2, <1>3

LEMMA RegsVendor ==
    ASSUME NEW s, NEW n \in Nat, n <= 254, IsSeq(s.invs, n), \A j \in 1 .. n : Telling(s.invs[j])
    PROVE  Regs(Vendor(s))
<1>1. CASE s.invs = << >>
  BY <1>1, RegsEmpty DEF Vendor
<1>2. CASE s.invs # << >>
  <2> DEFINE of(j) == <<j, 0, U16(s.invs[j].limit), U16(s.invs[j].phase), U16(s.invs[j].model), 0,
                        PanelCount(s.invs[j]), U16(NameplateW(s.invs[j])), Bool(s.invs[j].online), 0>>
             r == [j \in DOMAIN s.invs |-> of(j)]
             len == 16 + 10 * Len(s.invs)
  <2>1. Vendor(s) = <<64202, len>> \o Zeros(15) \o <<Len(s.invs)>> \o FlattenSeq(r)
    BY <1>2 DEF Vendor
  <2>2. Len(s.invs) = n /\ DOMAIN s.invs = 1 .. n
    BY DEF IsSeq
  <2>3. len \in Nat /\ len <= 65535 /\ n <= 65535
    BY <2>2
  <2>4. ASSUME NEW j \in 1 .. n PROVE Regs(of(j))
    <3> DEFINE inv == s.invs[j]
    <3>1. inv.limit \in Int /\ inv.phase \in Int /\ inv.model \in Int
      BY DEF Telling
    <3> HIDE DEF inv
    <3>2. NameplateW(inv) \in Nat /\ PanelCount(inv) \in {0, 2, 4}
      BY Ratings
    <3>3. NameplateW(inv) \in Int
      BY <3>2
    <3>4. PanelCount(inv) \in Words
      BY <3>2, Literals
    <3>5. j \in Words
      <4>1. j \in Nat /\ j <= 65535
        OBVIOUS
      <4>2. QED
        BY <4>1, SmallIsWord
    <3> DEFINE a == U16(inv.limit)
               b == U16(inv.phase)
               c == U16(inv.model)
               d == U16(NameplateW(inv))
               e == Bool(inv.online)
               f == PanelCount(inv)
    <3>6. a \in Words /\ b \in Words /\ c \in Words /\ d \in Words
      BY <3>1, <3>3, U16IsWord
    <3>7. e \in Words
      BY BoolIsWord
    <3>8. of(j) = <<j, 0, a, b, c, 0, f, d, e, 0>>
      BY DEF inv
    <3>9. 0 \in Words /\ f \in Words
      BY <3>4, Literals
    <3> HIDE DEF a, b, c, d, e, f, of
    <3>10. Regs(<<j, 0, a, b, c, 0, f, d, e, 0>>)
      BY <3>5, <3>6, <3>7, <3>9, LongTuples
    <3>11. QED
      BY <3>8, <3>10
  <2> HIDE DEF of
  <2>5. r = [j \in 1 .. n |-> r[j]] /\ \A j \in 1 .. n : r[j] = of(j)
    BY <2>2
  <2> HIDE DEF r, len
  <2>6. IsSeq(r, n)
    BY <2>5, FunctionIsSeq
  <2>7. Regs(FlattenSeq(r))
    BY <2>4, <2>5, <2>6, RegsFlatten
  <2>8. len \in Words /\ Len(s.invs) \in Words
    BY <2>2, <2>3, SmallIsWord
  <2>9. Regs(<<64202, len>>) /\ Regs(<<Len(s.invs)>>)
    BY SMT, <2>8, Literals DEF Regs
  <2>10. Regs(Zeros(15))
    BY Fillers
  <2>11. QED
    BY <2>1, <2>7, <2>9, <2>10, RegsJoin
<1>3. QED
  BY <1>1, <1>2

----------------------------------------------------------------------------
(* The models of a protection row.                                         *)

Numbers(row) == \A c \in DOMAIN row : row[c] \in Int
Averaged(volt) == volt.sum \in Nat /\ volt.n \in Nat

LEMMA ValIsNumber ==
    ASSUME NEW row, Numbers(row), NEW c PROVE Val(row, c) \in Int
BY DEF Numbers, Val

LEMMA PctIsWord ==
    ASSUME NEW v \in Int, NEW volt, Averaged(volt) PROVE PctOfVNom(v, volt) \in Words
<1> DEFINE a == 2000000 * v + 230
           m == volt.n
           b == volt.sum
           c == 20000 * v * m + b
           d == 2 * b
<1>1. a \in Int /\ b \in Nat /\ m \in Nat
  BY DEF Averaged
<1>2. c \in Int
  <2>1. 20000 * v \in Int
    OBVIOUS
  <2> DEFINE x == 20000 * v
  <2> HIDE DEF x
  <2>2. x \in Int
    BY <2>1 DEF x
  <2>3. x * m + b \in Int
    BY <1>1, <2>2
  <2>4. QED
    BY <2>3 DEF x
<1>3. PctOfVNom(v, volt) = IF b = 0 THEN U16(a \div 460) ELSE U16(c \div d)
  BY DEF PctOfVNom
<1>4. a \div 460 \in Int
  BY <1>1
<1>5. d \in Nat /\ (b # 0 => d > 0)
  BY <1>1
<1> HIDE DEF a, b, c, d, m
<1>6. b # 0 => c \div d \in Int
  BY <1>2, <1>5
<1>7. QED
  BY <1>3, <1>4, <1>6, U16IsWord

\* A point of a curve is a number with a time.
LEMMA PointsTell ==
    ASSUME NEW row, Numbers(row), NEW curve \in {"LV", "HV", "LF", "HF"}
    PROVE  \E n \in 0 .. 3 : LET ps == TripPoints(row, curve)
                             IN  IsSeq(ps, n) /\ \A k \in 1 .. n : ps[k].val \in Int /\ ps[k].tms \in Int
<1> DEFINE ps == TripPoints(row, curve)
<1>1. PICK n \in 0 .. 3 : /\ IsSeq(ps, n)
                          /\ \A k \in 1 .. n : \E c \in DOMAIN TripCodes[curve] :
                                 PointOf(row, TripCodes[curve][c], ps[k])
  BY TripPointsAre
<1>2. ASSUME NEW k \in 1 .. n PROVE ps[k].val \in Int /\ ps[k].tms \in Int
  <2>1. PICK c \in DOMAIN TripCodes[curve] : PointOf(row, TripCodes[curve][c], ps[k])
    BY <1>1
  <2> DEFINE p == TripCodes[curve][c]
             x == ps[k]
  <2> HIDE DEF p, x
  <2>2. PointOf(row, p, x)
    BY <2>1 DEF p, x
  <2>3. x.val = row[p[1]] /\ (x.tms = 60000 \/ x.tms = row[p[2]])
        /\ p[1] \in DOMAIN row /\ p[2] \in DOMAIN row
    BY <2>2 DEF PointOf
  <2>4. x.val \in Int /\ x.tms \in Int
    BY <2>3 DEF Numbers
  <2>5. QED
    BY <2>4 DEF x
<1>3. QED
  BY <1>1, <1>2

LEMMA RegsTrip ==
    ASSUME NEW id \in Words, NEW len \in Words, NEW width \in 3 .. 4, NEW points, NEW n \in 0 .. 3,
           IsSeq(points, n), \A k \in 1 .. n : IsSeq(points[k], width) /\ Regs(points[k])
    PROVE  Regs(Trip(id, len, width, points))
<1> DEFINE tier == FlattenSeq(points)
           x == Bool(points # << >>)
           a == width * n
           b == 3 * width - a
           c == 2 * (1 + 3 * width)
<1>1. Trip(id, len, width, points) =
          <<id, len, x, 0, 1, 3, 1, Word(-2), Word(-2), 1, Len(points)>>
          \o tier \o Zeros(3 * width - Len(tier)) \o Zeros(c)
  BY DEF Trip
<1>2. n \in Nat /\ Len(points) = n
  BY DEF IsSeq
<1>3. IsSeq(tier, a)
  <2>1. width \in Nat
    OBVIOUS
  <2>2. QED
    BY <1>2, <2>1, FlattenUniform
<1>4. Regs(tier)
  BY <1>2, RegsFlatten
<1>5. a \in Nat /\ b \in Nat /\ c \in Nat
  <2>1. width = 3 \/ width = 4
    OBVIOUS
  <2>2. n = 0 \/ n = 1 \/ n = 2 \/ n = 3
    OBVIOUS
  <2>3. QED
    BY <2>1, <2>2
<1>6. 3 * width - Len(tier) = b
  BY <1>3 DEF IsSeq
<1>7. x \in Words
  BY BoolIsWord
<1>8. Len(points) \in Words
  <2>1. n \in Nat /\ n <= 65535
    OBVIOUS
  <2>2. n \in Words
    BY <2>1, SmallIsWord
  <2>3. QED
    BY <1>2, <2>2
<1> DEFINE k == Len(points)
<1> HIDE DEF tier, x, a, b, c, k
<1>9. Regs(<<id, len, x, 0, 1, 3, 1, Word(-2), Word(-2), 1, k>>)
  <2>1. k \in Words
    BY <1>8 DEF k
  <2>2. 0 \in Words /\ 1 \in Words /\ 3 \in Words /\ Word(-2) \in Words
    BY Literals
  <2>3. QED
    BY <1>7, <2>1, <2>2, LongTuples
<1>10. Regs(Zeros(b)) /\ Regs(Zeros(c))
  BY <1>5, Fillers
<1>11. QED
  BY <1>1, <1>4, <1>6, <1>9, <1>10, RegsJoin DEF k

LEMMA PercentsTell ==
    ASSUME NEW row, Numbers(row), NEW volt, Averaged(volt), NEW curve \in {"LV", "HV"}
    PROVE  \E n \in 0 .. 3 : LET points == Percents(row, volt, curve)
                             IN  /\ IsSeq(points, n)
                                 /\ \A k \in 1 .. n : IsSeq(points[k], 3) /\ Regs(points[k])
<1> DEFINE ps == TripPoints(row, curve)
           pct(x) == <<PctOfVNom(x.val, volt)>> \o Acc32(x.tms)
           w == Percents(row, volt, curve)
<1>1. PICK n \in 0 .. 3 : IsSeq(ps, n) /\ \A k \in 1 .. n : ps[k].val \in Int /\ ps[k].tms \in Int
  BY PointsTell
<1>2. w = [k \in DOMAIN ps |-> pct(ps[k])]
  BY DEF Percents
<1> HIDE DEF ps
<1>3. DOMAIN ps = 1 .. n
  BY <1>1 DEF IsSeq
<1>4. ASSUME NEW k \in 1 .. n PROVE IsSeq(pct(ps[k]), 3) /\ Regs(pct(ps[k]))
  <2> DEFINE x == ps[k]
             p == PctOfVNom(x.val, volt)
             t == Acc32(x.tms)
  <2>1. x.val \in Int /\ x.tms \in Int
    BY <1>1
  <2> HIDE DEF x
  <2>2. p \in Words
    BY <2>1, PctIsWord
  <2>3. Regs(t)
    BY <2>1, RegsLong
  <2>4. IsSeq(<<p>>, 1)
    BY DEF IsSeq
  <2>5. IsSeq(t, 2)
    BY DEF IsSeq, Acc32
  <2> HIDE DEF p, t
  <2>6. Regs(<<p>>)
    BY <2>2, Tuples
  <2>7. Regs(<<p>> \o t)
    BY <2>3, <2>6, RegsJoin
  <2> DEFINE u == <<p>>
             n1 == 1
             n2 == 2
  <2>8. n1 \in Nat /\ n2 \in Nat /\ n1 + n2 = 3 /\ IsSeq(u, n1) /\ IsSeq(t, n2)
    BY <2>4, <2>5
  <2> HIDE DEF u, n1, n2
  <2>9. IsSeq(u \o t, n1 + n2)
    BY <2>8, ConcatIs DEF Concatenated
  <2>10. QED
    BY <2>7, <2>8, <2>9 DEF u, p, t, x
<1> HIDE DEF pct
<1>5. w = [k \in 1 .. n |-> w[k]] /\ \A k \in 1 .. n : w[k] = pct(ps[k])
  BY <1>2, <1>3
<1> HIDE DEF w
<1>6. n \in Nat
  OBVIOUS
<1>7. IsSeq(w, n)
  BY <1>5, <1>6, FunctionIsSeq
<1>8. \A k \in 1 .. n : IsSeq(w[k], 3) /\ Regs(w[k])
  BY <1>4, <1>5
<1>9. QED
  BY <1>7, <1>8 DEF w

LEMMA HertzTell ==
    ASSUME NEW row, Numbers(row), NEW curve \in {"LF", "HF"}
    PROVE  \E n \in 0 .. 3 : LET points == Hertz(row, curve)
                             IN  /\ IsSeq(points, n)
                                 /\ \A k \in 1 .. n : IsSeq(points[k], 4) /\ Regs(points[k])
<1> DEFINE ps == TripPoints(row, curve)
           hz(x) == Acc32(x.val) \o Acc32(x.tms)
           w == Hertz(row, curve)
<1>1. PICK n \in 0 .. 3 : IsSeq(ps, n) /\ \A k \in 1 .. n : ps[k].val \in Int /\ ps[k].tms \in Int
  BY PointsTell
<1>2. w = [k \in DOMAIN ps |-> hz(ps[k])]
  BY DEF Hertz
<1> HIDE DEF ps
<1>3. DOMAIN ps = 1 .. n
  BY <1>1 DEF IsSeq
<1>4. ASSUME NEW k \in 1 .. n PROVE IsSeq(hz(ps[k]), 4) /\ Regs(hz(ps[k]))
  <2> DEFINE x == ps[k]
             u == Acc32(x.val)
             t == Acc32(x.tms)
             n2 == 2
  <2>1. x.val \in Int /\ x.tms \in Int
    BY <1>1
  <2> HIDE DEF x
  <2>2. Regs(u) /\ Regs(t)
    BY <2>1, RegsLong
  <2>3. IsSeq(u, n2) /\ IsSeq(t, n2) /\ n2 \in Nat /\ n2 + n2 = 4
    BY DEF IsSeq, Acc32
  <2> HIDE DEF u, t, n2
  <2>4. Regs(u \o t)
    BY <2>2, RegsJoin
  <2>5. IsSeq(u \o t, n2 + n2)
    BY <2>3, ConcatIs DEF Concatenated
  <2>6. QED
    BY <2>3, <2>4, <2>5 DEF u, t, x
<1> HIDE DEF hz
<1>5. w = [k \in 1 .. n |-> w[k]] /\ \A k \in 1 .. n : w[k] = hz(ps[k])
  BY <1>2, <1>3
<1> HIDE DEF w
<1>6. n \in Nat
  OBVIOUS
<1>7. IsSeq(w, n)
  BY <1>5, <1>6, FunctionIsSeq
<1>8. \A k \in 1 .. n : IsSeq(w[k], 4) /\ Regs(w[k])
  BY <1>4, <1>5
<1>9. QED
  BY <1>7, <1>8 DEF w

LEMMA RegsTrips ==
    ASSUME NEW row, Numbers(row), NEW volt, Averaged(volt) PROVE Regs(Trips(row, volt))
<1> DEFINE lv == Trip(707, 38, 3, Percents(row, volt, "LV"))
           hv == Trip(708, 38, 3, Percents(row, volt, "HV"))
           lf == Trip(709, 47, 4, Hertz(row, "LF"))
           hf == Trip(710, 47, 4, Hertz(row, "HF"))
<1>1. Trips(row, volt) = lv \o hv \o lf \o hf
  BY DEF Trips, Percents, Hertz
<1>2. ASSUME NEW curve \in {"LV", "HV"}, NEW id \in Words
      PROVE  Regs(Trip(id, 38, 3, Percents(row, volt, curve)))
  <2> DEFINE points == Percents(row, volt, curve)
             len == 38
             width == 3
  <2>1. PICK n \in 0 .. 3 : /\ IsSeq(points, n)
                            /\ \A k \in 1 .. n : IsSeq(points[k], width) /\ Regs(points[k])
    BY PercentsTell
  <2>2. len \in Words /\ width \in 3 .. 4
    BY Literals
  <2> HIDE DEF points, len, width
  <2>3. Regs(Trip(id, len, width, points))
    BY <2>1, <2>2, RegsTrip
  <2>4. QED
    BY <2>3 DEF points, len, width
<1>3. ASSUME NEW curve \in {"LF", "HF"}, NEW id \in Words
      PROVE  Regs(Trip(id, 47, 4, Hertz(row, curve)))
  <2> DEFINE points == Hertz(row, curve)
             len == 47
             width == 4
  <2>1. PICK n \in 0 .. 3 : /\ IsSeq(points, n)
                            /\ \A k \in 1 .. n : IsSeq(points[k], width) /\ Regs(points[k])
    BY HertzTell
  <2>2. len \in Words /\ width \in 3 .. 4
    BY Literals
  <2> HIDE DEF points, len, width
  <2>3. Regs(Trip(id, len, width, points))
    BY <2>1, <2>2, RegsTrip
  <2>4. QED
    BY <2>3 DEF points, len, width
<1>4. 707 \in Words /\ 708 \in Words /\ 709 \in Words /\ 710 \in Words
  BY Literals
<1>5. Regs(lv) /\ Regs(hv) /\ Regs(lf) /\ Regs(hf)
  BY <1>2, <1>3, <1>4
<1> HIDE DEF lv, hv, lf, hf
<1>6. QED
  BY <1>1, <1>5, RegsJoin

LEMMA RegsEnterService ==
    ASSUME NEW row, Numbers(row), NEW volt, Averaged(volt) PROVE Regs(EnterService(row, volt))
<1> DEFINE x == Bool("AG" \in DOMAIN row)
           hi == PctOfVNom(Val(row, "BO"), volt)
           lo == PctOfVNom(Val(row, "BN"), volt)
           t == (Val(row, "AG") + 50) \div 100
           a == Acc32(Val(row, "BQ"))
           b == Acc32(Val(row, "BP"))
           c == Acc32(t)
<1>1. /\ Val(row, "BO") \in Int /\ Val(row, "BN") \in Int /\ Val(row, "AG") \in Int
      /\ Val(row, "BQ") \in Int /\ Val(row, "BP") \in Int
  BY ValIsNumber
<1>2. t \in Int
  BY <1>1
<1>3. EnterService(row, volt) =
          <<703, 17, x, hi, lo>> \o a \o b \o c \o Zeros(4) \o NoU32 \o <<Word(-2), Word(-2)>>
  BY DEF EnterService
<1> HIDE DEF t
<1>4. Regs(a) /\ Regs(b) /\ Regs(c)
  BY <1>1, <1>2, RegsLong
<1>5. x \in Words /\ hi \in Words /\ lo \in Words
  BY <1>1, BoolIsWord, PctIsWord
<1> HIDE DEF x, hi, lo, a, b, c
<1> DEFINE head == <<703, 17, x, hi, lo>>
           tail == <<Word(-2), Word(-2)>>
<1>6. Regs(head) /\ Regs(tail)
  BY SMT, <1>5, Literals DEF Regs
<1>7. Regs(Zeros(4))
  BY Fillers
<1> DEFINE none == Zeros(4)
<1>8. EnterService(row, volt) = head \o a \o b \o c \o none \o NoU32 \o tail
  BY <1>3
<1>9. Regs(none)
  BY <1>7
<1> HIDE DEF head, tail, none
<1>10. QED
  BY <1>4, <1>6, <1>8, <1>9, RegsNaN, RegsJoin

Outcome(outcome) == outcome.req \in Words /\ outcome.rslt \in Words

LEMMA RegsDroop ==
    ASSUME NEW row, Numbers(row), NEW outcome, Outcome(outcome) PROVE Regs(FreqDroop(row, outcome))
<1> DEFINE x == Bool(Val(row, "CV") \in DroopModes)
           dc == Val(row, "DC") - 5000
           db == Max({0, dc})
           a == Acc32(db)
           k == 10 * Val(row, "DD")
           y == U16(k)
           req == outcome.req
           rslt == outcome.rslt
<1>1. Val(row, "DC") \in Int /\ Val(row, "DD") \in Int
  BY ValIsNumber
<1>2. dc \in Int /\ k \in Int
  BY <1>1
<1>3. FreqDroop(row, outcome) =
          <<711, 22, x, req, rslt, 1>>
          \o Zeros(2) \o NoU32 \o <<0, Word(-2), Word(-1), 0>>
          \o a \o NoU32 \o <<y, 65535>> \o Zeros(4)
  BY DEF FreqDroop
<1> HIDE DEF dc, k
<1>4. db \in Int
  BY <1>2 DEF Max
<1> HIDE DEF db
<1>5. Regs(a) /\ y \in Words /\ x \in Words
  BY <1>2, <1>4, RegsLong, U16IsWord, BoolIsWord
<1>6. req \in Words /\ rslt \in Words
  BY DEF Outcome
<1> HIDE DEF x, a, y, req, rslt
<1>7. Regs(<<711, 22, x, req, rslt, 1>>) /\ Regs(<<0, Word(-2), Word(-1), 0>>) /\ Regs(<<y, 65535>>)
  BY SMT, <1>5, <1>6, Literals DEF Regs
<1>8. Regs(Zeros(2)) /\ Regs(Zeros(4))
  BY Fillers
<1>9. QED
  BY <1>3, <1>5, <1>7, <1>8, RegsNaN, RegsJoin

LEMMA RegsCurve ==
    ASSUME NEW row, Numbers(row) PROVE Regs(FreqWattCurve(row))
<1> DEFINE hz(c) == U16(Val(row, CurveCodes[c]))
           a == hz(1)
           b == hz(2)
           c == hz(3)
           d == hz(4)
           x == Bool(CurveEnabled(row))
           y == IF HasCurve(row) THEN 4 ELSE 0
<1>1. \A n \in 1 .. 4 : hz(n) \in Words
  BY ValIsNumber, U16IsWord
<1>2. a \in Words /\ b \in Words /\ c \in Words /\ d \in Words
  BY <1>1
<1>3. x \in Words
  BY BoolIsWord
<1>4. y \in Words
  BY Literals
<1>5. FreqWattCurve(row) =
          <<134, 68, 1, x>> \o Zeros(3) \o <<1, 20, Word(-2), 0, 0, y>>
          \o <<a, 0, b, 100, c, 100, d, 0>> \o Zeros(45) \o <<100>> \o Zeros(3)
  BY DEF FreqWattCurve
<1> HIDE DEF a, b, c, d, x, y, hz
<1>6. Regs(<<134, 68, 1, x>>) /\ Regs(<<1, 20, Word(-2), 0, 0, y>>) /\ Regs(<<100>>)
  BY SMT, <1>3, <1>4, Literals DEF Regs
<1>7. Regs(<<a, 0, b, 100, c, 100, d, 0>>)
  <2>1. 0 \in Words /\ 100 \in Words
    BY Literals
  <2>2. QED
    BY <1>2, <2>1, LongTuples
<1>8. Regs(Zeros(3)) /\ Regs(Zeros(45))
  BY Fillers
<1>9. QED
  <2> DEFINE p == <<134, 68, 1, x>>
             q == <<1, 20, Word(-2), 0, 0, y>>
             r == <<a, 0, b, 100, c, 100, d, 0>>
             t == <<100>>
             u == Zeros(3)
             v == Zeros(45)
  <2>1. Regs(p) /\ Regs(q) /\ Regs(r) /\ Regs(t) /\ Regs(u) /\ Regs(v)
    BY <1>6, <1>7, <1>8
  <2>2. FreqWattCurve(row) = p \o u \o q \o r \o v \o t \o u
    BY <1>5
  <2> HIDE DEF p, q, r, t, u, v
  <2>3. QED
    BY <2>1, <2>2, RegsJoin

LEMMA RegsCommon ==
    ASSUME NEW serial \in Words, NEW unit \in Words PROVE Regs(Common(serial, unit))
<1>1. Regs(<<1, 66>>) /\ Regs(<<serial>>) /\ Regs(<<unit, 0>>)
  BY SMT, Literals DEF Regs
<1>2. Regs(Zeros(48)) /\ Regs(Zeros(15))
  BY Fillers
<1>3. QED
  BY <1>1, <1>2, RegsJoin DEF Common

----------------------------------------------------------------------------
(* Banks.                                                                  *)

LEMMA UnitMeasures ==
    ASSUME NEW inv, Telling(inv) PROVE Measurable(UnitMeasure(inv))
<1> DEFINE volt == [sum |-> inv.vac, n |-> 1]
           a == Amps10(inv.pac, volt)
           phA == Repeat(3, a)
           hzFloat == IF inv.freq > 0 THEN Float(inv.freq) ELSE NaN
           st == OperatingState(inv.online, inv.pac)
           m == UnitMeasure(inv)
<1>1. inv.vac \in Nat /\ inv.freq \in Int /\ inv.pac \in Nat
  BY WordIs DEF Telling
<1>2. a \in Words
  <2>1. 10 * inv.pac * volt.n \in Nat /\ volt.sum \in Nat
    BY <1>1
  <2>2. QED
    BY <2>1, RoundIsWord DEF Amps10
<1>3. \A ph \in 1 .. 3 : phA[ph] \in Words
  BY <1>2 DEF Repeat
<1>4. Regs(hzFloat)
  BY <1>1, RegsLong, RegsNaN
<1>5. st \in Words
  BY Literals DEF OperatingState, StSleep, StMPPT, StStandby
<1>6. m = [phases |-> 1, a |-> a, phA |-> phA, v |-> inv.vac, w |-> inv.pac,
           hz |-> inv.freq, hzFloat |-> hzFloat, temp |-> inv.temp, st |-> st, events |-> inv.events]
  BY DEF UnitMeasure
<1> HIDE DEF a, phA, hzFloat, st, m
<1>7. /\ m.phases = 1 /\ m.a = a /\ m.phA = phA /\ m.v = inv.vac /\ m.w = inv.pac
      /\ m.hz = inv.freq /\ m.hzFloat = hzFloat /\ m.temp = inv.temp /\ m.st = st
  BY <1>6
<1>8. Measurable(m)
  BY <1>1, <1>2, <1>3, <1>4, <1>5, <1>7 DEF Measurable, Telling
<1>9. QED
  BY <1>8 DEF m

\* What Build makes of files and tables of numbers.
TellingFleet(s, n) ==
    /\ n \in Nat /\ n <= 254 /\ IsSeq(s.invs, n) /\ \A j \in 1 .. n : Telling(s.invs[j])
    /\ Averaged(s.volt) /\ Averaged(s.freq) /\ s.temp \in Int /\ s.power \in Nat
    /\ s.capacity \in Nat /\ \A u \in DOMAIN s.prot : Numbers(s.prot[u])

LEMMA FleetMeasures ==
    ASSUME NEW s, NEW n, TellingFleet(s, n) PROVE Measurable(FleetMeasure(s))
<1> DEFINE w(ph) == PhaseW(s, ph)
           a == Amps10(w(1) + w(2) + w(3), s.volt)
           phA == [ph \in 1 .. 3 |-> Amps10(w(ph), s.volt)]
           v == Round(s.volt.sum, s.volt.n)
           hz == Round(s.freq.sum, s.freq.n)
           st == OperatingState(s.onlineCount > 0, s.power)
           m == FleetMeasure(s)
           phases == PhasesUsed(s)
<1>1. /\ s.volt.sum \in Nat /\ s.volt.n \in Nat /\ s.freq.sum \in Nat /\ s.freq.n \in Nat
      /\ s.temp \in Int /\ s.power \in Nat
  BY DEF TellingFleet, Averaged
<1>2. \A ph \in 1 .. 3 : w(ph) \in Nat
  <2>1. n \in Nat /\ IsSeq(s.invs, n) /\ \A j \in 1 .. n : s.invs[j].pac \in Nat
    BY DEF TellingFleet, Telling
  <2>2. QED
    BY <2>1, PhasesSum
<1> HIDE DEF w
<1>3. ASSUME NEW x \in Nat PROVE Amps10(x, s.volt) \in Words
  <2> DEFINE k == s.volt.n
  <2>1. k \in Nat
    BY <1>1
  <2> HIDE DEF k
  <2>2. 10 * x * k \in Nat
    <3>1. 10 * x \in Nat
      OBVIOUS
    <3> DEFINE y == 10 * x
    <3> HIDE DEF y
    <3>2. y * k \in Nat
      BY <2>1, <3>1 DEF y
    <3>3. QED
      BY <3>2 DEF y
  <2>3. QED
    BY <1>1, <2>2, RoundIsWord DEF Amps10, k
<1>4. w(1) + w(2) + w(3) \in Nat
  BY <1>2
<1>5. a \in Words
  BY <1>3, <1>4
<1>6. \A ph \in 1 .. 3 : phA[ph] \in Words
  BY <1>2, <1>3
<1>7. v \in Words /\ hz \in Words
  BY <1>1, RoundIsWord
<1>8. Regs(Float(hz))
  <2>1. hz \in Int
    BY <1>7, WordIs
  <2>2. QED
    BY <2>1, RegsLong
<1>9. st \in Words
  BY Literals DEF OperatingState, StSleep, StMPPT, StStandby
<1>10. phases \in 1 .. 3
  BY PhasesAreFew
<1>11. m = [phases |-> phases, a |-> a, phA |-> phA, v |-> v, w |-> s.power, hz |-> hz,
            hzFloat |-> Float(hz), temp |-> s.temp, st |-> st, events |-> AggregateEventBits(s)]
  BY DEF FleetMeasure, w
<1> HIDE DEF a, phA, v, hz, st, m, phases
<1>12. /\ m.phases = phases /\ m.a = a /\ m.phA = phA /\ m.v = v /\ m.w = s.power
       /\ m.hz = hz /\ m.hzFloat = Float(hz) /\ m.temp = s.temp /\ m.st = st
  BY <1>11
<1>13. Measurable(m)
  BY <1>1, <1>5, <1>6, <1>7, <1>8, <1>9, <1>10, <1>12 DEF Measurable
<1>14. QED
  BY <1>13 DEF m

LEMMA RegsUnit ==
    ASSUME NEW inv, Telling(inv), NEW unit \in Words, NEW row, Numbers(row), NEW outcome,
           Outcome(outcome)
    PROVE  Regs(EncodePerInverter(inv, unit, row, outcome))
<1> DEFINE volt == [sum |-> inv.vac, n |-> 1]
           panels == Panels(<<inv>>)
           m == UnitMeasure(inv)
           t1 == Common(inv.uid, unit)
           t2 == InverterModel(m)
           t3 == InverterFloat(m)
           t4 == DCData(panels, NaN)
           t5 == Nameplate(NameplateW(inv))
           t6 == UnitControls(inv)
           t7 == Trips(row, volt)
           t8 == EnterService(row, volt)
           t9 == FreqDroop(row, outcome)
           t10 == FreqWattCurve(row)
           t11 == MultiMPPT(panels)
<1>1. EncodePerInverter(inv, unit, row, outcome) =
          <<21365, 28243>> \o t1 \o t2 \o t3 \o t4 \o t5 \o t6 \o t7 \o t8 \o t9 \o t10 \o t11
          \o <<EndModelID, 0>>
  BY DEF EncodePerInverter
<1>2. Regs(t1)
  BY RegsCommon DEF Telling
<1>3. Regs(t2) /\ Regs(t3)
  <2>1. Measurable(m)
    BY UnitMeasures
  <2> HIDE DEF m
  <2>2. QED
    BY <2>1, RegsInverter, RegsFloats
<1>4. Averaged(volt)
  BY WordIs DEF Averaged, Telling
<1>5. Regs(t4) /\ Regs(t11)
  <2> DEFINE one == 1
             s == <<inv>>
  <2>1. one \in Nat /\ IsSeq(s, one) /\ \A j \in 1 .. one : Telling(s[j])
    BY DEF IsSeq
  <2> HIDE DEF s, one
  <2>2. PICK p \in 0 .. 4 * one : IsSeq(Panels(s), p) /\ \A c \in 1 .. p : Panels(s)[c] \in APanel
    BY <2>1, PanelsTell
  <2>3. p \in Nat /\ p <= 1016
    BY <2>2 DEF one
  <2> DEFINE q == Panels(s)
  <2> HIDE DEF q
  <2>4. IsSeq(q, p) /\ \A c \in 1 .. p : q[c] \in APanel
    BY <2>2 DEF q
  <2>5. Regs(DCData(q, NaN)) /\ Regs(MultiMPPT(q))
    BY <2>3, <2>4, RegsDCData, RegsMultiMPPT, RegsNaN
  <2>6. QED
    BY <2>5 DEF q, s
<1>6. Regs(t5)
  <2>1. NameplateW(inv) \in Nat
    BY Ratings
  <2>2. QED
    BY <2>1, RegsNameplate
<1>7. Regs(t6)
  BY RegsUnitControls
<1> HIDE DEF volt
<1>8. Regs(t7) /\ Regs(t8)
  BY <1>4, RegsTrips, RegsEnterService
<1>9. Regs(t9) /\ Regs(t10)
  BY RegsDroop, RegsCurve
<1> HIDE DEF t1, t2, t3, t4, t5, t6, t7, t8, t9, t10, t11, m, panels
<1>10. Regs(<<21365, 28243>>) /\ Regs(<<EndModelID, 0>>)
  BY SMT, Literals DEF EndModelID, Regs
<1>11. QED
  BY <1>1, <1>2, <1>3, <1>5, <1>6, <1>7, <1>8, <1>9, <1>10, RegsJoin

LEMMA CeilingsTell ==
    ASSUME NEW s, NEW n, TellingFleet(s, n)
    PROVE  TotalLimitedW(s) \in Nat /\ TotalNameplateW(s) \in Nat
<1> DEFINE v == [j \in DOMAIN s.invs |-> LimitedW(s.invs[j])]
           w == [j \in DOMAIN s.invs |-> NameplateW(s.invs[j])]
<1>1. n \in Nat /\ IsSeq(s.invs, n) /\ DOMAIN s.invs = 1 .. n
  BY DEF TellingFleet, IsSeq
<1>2. TotalLimitedW(s) = Total(v) /\ TotalNameplateW(s) = Total(w)
  BY DEF TotalLimitedW, TotalNameplateW, SumOver
<1>3. /\ v = [j \in 1 .. n |-> v[j]] /\ \A j \in 1 .. n : v[j] = LimitedW(s.invs[j])
      /\ w = [j \in 1 .. n |-> w[j]] /\ \A j \in 1 .. n : w[j] = NameplateW(s.invs[j])
  BY <1>1
<1> HIDE DEF v, w
<1>4. ASSUME NEW j \in 1 .. n PROVE v[j] \in Nat /\ w[j] \in Nat
  <2> DEFINE inv == s.invs[j]
  <2>1. inv.limit \in Nat
    BY DEF TellingFleet, Telling
  <2> HIDE DEF inv
  <2>2. NameplateW(inv) \in Nat /\ PanelCount(inv) \in {0, 2, 4}
    BY Ratings
  <2>3. inv.limit * PanelCount(inv) \in Nat
    BY <2>1, <2>2
  <2>4. LimitedW(inv) \in Nat
    BY <2>2, <2>3 DEF LimitedW
  <2>5. QED
    BY <1>3, <2>2, <2>4 DEF inv
<1>5. IsSeq(v, n) /\ IsSeq(w, n)
  BY <1>1, <1>3, FunctionIsSeq
<1>6. Total(v) \in Nat /\ Total(w) \in Nat
  BY <1>1, <1>4, <1>5, TotalPositive
<1>7. QED
  BY <1>2, <1>6

\* What a map may yield.
LEMMA PicksTell ==
    ASSUME NEW s, NEW n, TellingFleet(s, n), NEW pick \in Picks(s)
    PROVE  /\ pick.vref \in Int /\ Numbers(pick.trips) /\ Numbers(pick.enter)
           /\ Numbers(pick.droop) /\ Numbers(pick.curve)
<1>1. /\ pick.vref \in NominalVRefs(s)
      /\ pick.trips \in AggregateProtection(s) /\ pick.enter \in AggregateProtection(s)
      /\ pick.droop \in AggregateProtection(s) /\ pick.curve \in AggregateProtection(s)
  BY DEF Picks
<1>2. \A u \in DOMAIN s.prot : Numbers(s.prot[u])
  BY DEF TellingFleet
<1>3. pick.vref \in Int
  <2> DEFINE known == {u \in DOMAIN s.prot : "AB" \in DOMAIN s.prot[u] /\ s.prot[u]["AB"] > 0}
  <2>1. NominalVRefs(s) = IF known = {} THEN {0} ELSE {(20 * s.prot[u]["AB"] + 11) \div 22 : u \in known}
    BY DEF NominalVRefs
  <2>2. \A u \in known : s.prot[u]["AB"] \in Int
    BY <1>2 DEF Numbers
  <2> HIDE DEF known
  <2>3. \A u \in known : (20 * s.prot[u]["AB"] + 11) \div 22 \in Int
    BY <2>2
  <2>4. QED
    BY <1>1, <2>1, <2>3
<1>4. ASSUME NEW row \in AggregateProtection(s) PROVE Numbers(row)
  <2> DEFINE with == {j \in DOMAIN s.invs : s.invs[j].uid \in DOMAIN s.prot}
  <2>1. n \in Nat /\ IsSeq(s.invs, n)
    BY DEF TellingFleet
  <2>2. Numbers(NoRows)
    BY DEF Numbers, NoRows
  <2>3. row = NoRows \/ \E u \in DOMAIN s.prot : row = s.prot[u]
    BY <2>1, AggregateIsRow
  <2>4. QED
    BY <1>2, <2>2, <2>3
<1>5. QED
  BY <1>1, <1>3, <1>4

LEMMA RegsFleet ==
    ASSUME NEW s, NEW n, TellingFleet(s, n), NEW pick \in Picks(s), NEW outcome, Outcome(outcome)
    PROVE  Regs(Encode(s, pick, outcome))
<1> DEFINE panels == Panels(s.invs)
           m == FleetMeasure(s)
           t1 == Common(0, 1)
           t2 == InverterModel(m)
           t3 == InverterFloat(m)
           t4 == DCData(panels, Float(0))
           t5 == FleetNameplate(s)
           t12 == BasicSettings(s, pick.vref)
           t6 == FleetControls(s)
           t7 == Trips(pick.trips, s.volt)
           t8 == EnterService(pick.enter, s.volt)
           t9 == FreqDroop(pick.droop, outcome)
           t10 == FreqWattCurve(pick.curve)
           t11 == MultiMPPT(panels)
           t13 == Vendor(s)
<1>1. Encode(s, pick, outcome) =
          <<21365, 28243>> \o t1 \o t2 \o t3 \o t4 \o t5 \o t12 \o t6 \o t7 \o t8 \o t9 \o t10 \o t11
          \o t13 \o <<EndModelID, 0>>
  BY DEF Encode
<1>2. /\ n \in Nat /\ n <= 254 /\ IsSeq(s.invs, n) /\ \A j \in 1 .. n : Telling(s.invs[j])
      /\ Averaged(s.volt) /\ s.capacity \in Nat
  BY DEF TellingFleet
<1>3. /\ pick.vref \in Int /\ Numbers(pick.trips) /\ Numbers(pick.enter)
      /\ Numbers(pick.droop) /\ Numbers(pick.curve)
  BY PicksTell
<1>4. Regs(t1)
  <2>1. 0 \in Words /\ 1 \in Words
    BY Literals
  <2>2. QED
    BY <2>1, RegsCommon
<1>5. Regs(t2) /\ Regs(t3)
  <2>1. Measurable(m)
    BY FleetMeasures
  <2> HIDE DEF m
  <2>2. QED
    BY <2>1, RegsInverter, RegsFloats
<1>6. Regs(t4) /\ Regs(t11)
  <2>1. PICK p \in 0 .. 4 * n : IsSeq(panels, p) /\ \A c \in 1 .. p : panels[c] \in APanel
    BY <1>2, PanelsTell
  <2>2. p \in Nat /\ p <= 1016
    BY <1>2, <2>1
  <2>3. 0 \in Int
    OBVIOUS
  <2>4. Regs(Float(0))
    BY <2>3, RegsLong
  <2> HIDE DEF panels
  <2>5. QED
    BY <2>1, <2>2, <2>4, RegsDCData, RegsMultiMPPT
<1>7. Regs(t5)
  <2>1. TotalNameplateW(s) \in Nat
    BY CeilingsTell
  <2> DEFINE w == IF s.capacity > 0 THEN s.capacity ELSE TotalNameplateW(s)
  <2>2. w \in Nat
    BY <1>2, <2>1
  <2>3. t5 = Nameplate(w)
    BY DEF FleetNameplate
  <2> HIDE DEF w, t5
  <2>4. QED
    BY <2>2, <2>3, RegsNameplate
<1>8. Regs(t12)
  <2>1. TotalLimitedW(s) \in Nat
    BY CeilingsTell
  <2>2. QED
    BY <1>3, <2>1, RegsSettings
<1>9. Regs(t6) /\ Regs(t13)
  BY <1>2, RegsFleetControls, RegsVendor
<1>10. Regs(t7) /\ Regs(t8)
  BY <1>2, <1>3, RegsTrips, RegsEnterService
<1>11. Regs(t9) /\ Regs(t10)
  BY <1>3, RegsDroop, RegsCurve
<1> HIDE DEF t1, t2, t3, t4, t5, t6, t7, t8, t9, t10, t11, t12, t13, m, panels
<1>12. Regs(<<21365, 28243>>) /\ Regs(<<EndModelID, 0>>)
  BY SMT, Literals DEF EndModelID, Regs
<1>13. QED
  BY <1>1, <1>4, <1>5, <1>6, <1>7, <1>8, <1>9, <1>10, <1>11, <1>12, RegsJoin

----------------------------------------------------------------------------
(* The type invariant.                                                     *)

\* Identifiers and frequencies fit a register.
RowsTell(file) ==
    \A r \in DOMAIN file.rows :
        file.rows[r].uid \in Words /\ (Short(file.rows[r]) \/ file.rows[r].freq \in Words)

\* The columns that Build reads as numbers are numbers.
ColumnsAreNumbers ==
    \A w \in DOMAIN Worlds :
        /\ Worlds[w].capacity = Garbled \/ Worlds[w].capacity \in Int
        /\ FileParses(Worlds[w].file) => RowsTell(Worlds[w].file)
        /\ \A u \in DOMAIN Worlds[w].list :
               Worlds[w].list[u].phase \in Int /\ Worlds[w].list[u].model \in Int
        /\ \A u \in DOMAIN Worlds[w].prot : Numbers(Worlds[w].prot[u])

\* No column is hotter.
Hottest == 65535

LEMMA RowTells ==
    ASSUME NEW row, NEW limits, NEW events, NEW list,
           row.uid \in Words, Short(row) \/ row.freq \in Words, row.tail \in Seq(Words),
           CapsFrom(limits, Nat), \A u \in DOMAIN list : list[u].phase \in Int /\ list[u].model \in Int
    PROVE  LET inv == Joined(ParseInverterLine(row), limits, events, list)
           IN  Telling(inv) /\ inv.temp <= Hottest
<1> DEFINE inv == Joined(ParseInverterLine(row), limits, events, list)
           meta == Listed(list)
           uid == row.uid
           tail == row.tail
<1>1. /\ inv.uid = uid
      /\ inv.freq = IF Short(row) THEN 0 ELSE row.freq
      /\ inv.temp = IF Short(row) THEN 0 ELSE tail[1] - 100
      /\ inv.vac = ACVoltage(row.type, tail)
      /\ inv.pac = ACPower(row.type, tail)
      /\ inv.tail = tail
      /\ inv.phase = IF uid \in DOMAIN meta THEN meta[uid].phase ELSE 0
      /\ inv.model = IF uid \in DOMAIN meta THEN meta[uid].model ELSE 0
      /\ inv.limit = IF uid \in DOMAIN limits THEN limits[uid] ELSE 0
  BY JoinedFields
<1>2. \A u \in DOMAIN meta : meta[u].phase \in Int /\ meta[u].model \in Int
  BY DEF Listed
<1>3. uid \in Words
  OBVIOUS
<1>4. 0 \in Words
  BY Literals
<1> HIDE DEF inv, meta, uid
<1>5. inv.phase \in Int /\ inv.model \in Int
  BY <1>1, <1>2
<1>6. inv.limit \in Nat
  BY <1>1 DEF CapsFrom
<1>7. inv.freq \in Words
  BY <1>1, <1>4
<1>8. inv.temp \in Int /\ inv.temp <= Hottest
  <2>1. CASE Short(row)
    BY SMT, <1>1, <2>1 DEF Hottest
  <2>2. CASE ~Short(row)
    <3>1. Len(tail) \in Nat /\ Len(tail) # 0
      BY <2>2 DEF Short
    <3>2. tail[1] \in Words
      BY <3>1
    <3>3. tail[1] \in Nat /\ tail[1] <= Hottest
      BY <3>2, WordIs DEF Hottest
    <3>4. QED
      BY SMT, <1>1, <2>2, <3>3 DEF Hottest
  <2>3. QED
    BY <2>1, <2>2
<1>9. inv.vac \in Words
  BY <1>1, ACVoltageIs
<1>10. inv.pac \in Nat
  <2>1. tail \in Seq(Nat)
    BY WordsAreNatural, SeqOver
  <2>2. QED
    BY <1>1, <2>1, ACPowerIs
<1>11. Telling(inv)
  BY <1>1, <1>3, <1>5, <1>6, <1>7, <1>8, <1>9, <1>10 DEF Telling
<1>12. QED
  BY <1>8, <1>11 DEF inv

\* The hottest of them is one of them.
LEMMA HottestIs ==
    ASSUME NEW invs, NEW n \in Nat, IsSeq(invs, n),
           \A j \in 1 .. n : invs[j].temp \in Int /\ invs[j].temp <= Hottest
    PROVE  MaxTemperature(invs) \in Int
<1> DEFINE S == {invs[j].temp : j \in Online(invs)}
           top == Hottest
           T == {top - x : x \in S}
<1>1. MaxTemperature(invs) = IF Online(invs) = {} THEN 0 ELSE Max(S)
  BY DEF MaxTemperature
<1>2. Online(invs) \subseteq 1 .. n
  BY DEF Online, IsSeq
<1>3. \A x \in S : x \in Int /\ x <= top
  BY <1>2
<1>4. CASE Online(invs) = {}
  BY <1>1, <1>4
<1>5. CASE Online(invs) # {}
  <2>1. S # {}
    BY <1>5
  <2> HIDE DEF S
  <2>2. top \in Int
    BY DEF Hottest
  <2> HIDE DEF top
  <2>3. T \subseteq Nat /\ T # {}
    BY <1>3, <2>1, <2>2
  <2>4. PICK t \in T : \A y \in T : t <= y
    <3> HIDE DEF T
    <3>1. QED
      BY <2>3, LeastNat
  <2>5. PICK m \in S : t = top - m
    OBVIOUS
  <2>6. ASSUME NEW y \in S PROVE m >= y
    <3>1. top - y \in T
      OBVIOUS
    <3>2. t <= top - y
      BY <2>4, <3>1
    <3>3. QED
      BY <1>3, <2>2, <2>5, <3>2
  <2>7. Max(S) \in S
    BY <2>6 DEF Max
  <2>8. QED
    BY <1>1, <1>3, <1>5, <2>7
<1>6. QED
  BY <1>4, <1>5

LEMMA AveragesTell ==
    ASSUME NEW values, NEW n \in Nat, DOMAIN values = 1 .. n, \A j \in 1 .. n : values[j] \in Words,
           NEW places, places \subseteq 1 .. n
    PROVE  Averaged(Average(values, places))
<1> DEFINE known == {j \in places : values[j] > 0}
           v == [j \in 1 .. n |-> IF j \in known THEN values[j] ELSE 0]
           a == Average(values, places)
<1>1. a = [sum |-> Total(v), n |-> Cardinality(known)]
  BY DEF Average
<1>2. known \subseteq 1 .. n
  OBVIOUS
<1>3. Cardinality(known) \in Nat
  <2> HIDE DEF known
  <2>1. IsFiniteSet(1 .. n)
    BY FS_Interval
  <2>2. QED
    BY <1>2, <2>1, FS_Subset, FS_CardinalityType
<1>4. \A j \in 1 .. n : v[j] \in Nat
  BY WordsAreNatural
<1>5. v = [j \in 1 .. n |-> v[j]]
  OBVIOUS
<1> HIDE DEF known, v, a
<1>6. IsSeq(v, n)
  BY <1>5, FunctionIsSeq
<1>7. Total(v) \in Nat
  BY <1>4, <1>6, TotalPositive
<1>8. a.sum \in Nat /\ a.n \in Nat
  BY <1>1, <1>3, <1>7
<1>9. Averaged(a)
  BY <1>8 DEF Averaged
<1>10. QED
  BY <1>9 DEF a

\* What is published is made of numbers.
LEMMA MixtureTells ==
    ASSUME TailsAreWords, CapsAreWatts, ColumnsAreNumbers, NEW s, Mixture(s),
           NEW n \in Nat, n <= 254, IsSeq(s.invs, n)
    PROVE  TellingFleet(s, n)
<1>1. PICK g : /\ AFile(g.file) /\ FoundTables(g)
               /\ s = Snapshot(g.capacity, g.file, g.limits, g.events, g.list, g.prot)
  BY DEF Mixture
<1> DEFINE file == g.file
           limits == g.limits
           list == g.list
           prot == g.prot
           capacity == g.capacity
           events == g.events
           row(j) == Joined(ParseInverterLine(file.rows[j]), limits, events, list)
<1>2. RowsTell(file) /\ TailsFrom(file, Words)
  <2>1. PICK w \in DOMAIN Worlds : file = Worlds[w].file /\ FileParses(file)
    BY <1>1 DEF AFile
  <2>2. QED
    BY <2>1 DEF ColumnsAreNumbers, TailsAreWords, WorldTails
<1>3. DOMAIN NoRows = {}
  BY DEF NoRows
<1>4. /\ ACapacity(capacity) /\ ATable(limits, "limits") /\ ATable(list, "list")
      /\ ATable(prot, "prot")
  BY <1>1 DEF FoundTables
<1>5. CapsFrom(limits, Nat)
  BY <1>3, <1>4 DEF ATable, CapsFrom, CapsAreWatts
<1>6. \A u \in DOMAIN list : list[u].phase \in Int /\ list[u].model \in Int
  BY <1>3, <1>4 DEF ATable, ColumnsAreNumbers
<1>7. \A u \in DOMAIN prot : Numbers(prot[u])
  BY <1>3, <1>4 DEF ATable, ColumnsAreNumbers
<1>8. capacity \in Int
  BY <1>4 DEF ACapacity, ColumnsAreNumbers
<1>9. /\ s.invs = [j \in DOMAIN file.rows |-> row(j)] /\ s.prot = prot
      /\ s.capacity = (IF capacity > 0 THEN capacity ELSE 0)
      /\ s.volt = Average([j \in DOMAIN s.invs |-> s.invs[j].vac], Online(s.invs))
      /\ s.freq = Average([j \in DOMAIN s.invs |-> s.invs[j].freq], Online(s.invs))
      /\ s.temp = MaxTemperature(s.invs) /\ s.power = LiveSystemPowerW(s.invs)
  <2> DEFINE invs == [j \in DOMAIN file.rows |-> row(j)]
             cap == IF capacity > 0 THEN capacity ELSE 0
             count == IF file.count = 0 THEN Len(invs) ELSE file.count
             online == Cardinality(Online(invs))
             freq == Average([j \in DOMAIN invs |-> invs[j].freq], Online(invs))
             volt == Average([j \in DOMAIN invs |-> invs[j].vac], Online(invs))
             temp == MaxTemperature(invs)
             power == LiveSystemPowerW(invs)
  <2>1. s = [capacity |-> cap, invs |-> invs, prot |-> prot, count |-> count,
             onlineCount |-> online, freq |-> freq, volt |-> volt, temp |-> temp, power |-> power]
    BY <1>1 DEF Snapshot
  <2> HIDE DEF invs, cap, count, online, freq, volt, temp, power
  <2>2. /\ s.invs = invs /\ s.prot = prot /\ s.capacity = cap /\ s.volt = volt
        /\ s.freq = freq /\ s.temp = temp /\ s.power = power
    BY <2>1
  <2>3. QED
    BY <2>2 DEF invs, cap, freq, volt, temp, power
<1>10. ASSUME NEW j \in DOMAIN file.rows PROVE Telling(row(j)) /\ row(j).temp <= Hottest
  <2> DEFINE r == file.rows[j]
  <2>1. r.uid \in Words /\ (Short(r) \/ r.freq \in Words) /\ r.tail \in Seq(Words)
    BY <1>2 DEF RowsTell, TailsFrom
  <2> HIDE DEF r, limits, list, events
  <2>2. LET inv == Joined(ParseInverterLine(r), limits, events, list)
        IN  Telling(inv) /\ inv.temp <= Hottest
    BY <1>5, <1>6, <2>1, RowTells
  <2>3. QED
    BY <2>2 DEF r
<1>11. DOMAIN s.invs = 1 .. n
  BY DEF IsSeq
<1> HIDE DEF row, file, limits, list, prot, capacity, events
<1>12. \A j \in 1 .. n : Telling(s.invs[j]) /\ s.invs[j].temp <= Hottest
  BY <1>9, <1>10, <1>11
<1> DEFINE volts == [j \in DOMAIN s.invs |-> s.invs[j].vac]
           freqs == [j \in DOMAIN s.invs |-> s.invs[j].freq]
           places == Online(s.invs)
<1>13. places \subseteq 1 .. n
  BY <1>11 DEF Online
<1>14. /\ DOMAIN volts = 1 .. n /\ \A j \in 1 .. n : volts[j] \in Words
       /\ DOMAIN freqs = 1 .. n /\ \A j \in 1 .. n : freqs[j] \in Words
  BY <1>11, <1>12 DEF Telling
<1>15. s.volt = Average(volts, places) /\ s.freq = Average(freqs, places)
  BY <1>9
<1> HIDE DEF volts, freqs, places
<1>16. Averaged(s.volt) /\ Averaged(s.freq)
  BY <1>13, <1>14, <1>15, AveragesTell
<1>17. s.temp \in Int
  <2>1. \A j \in 1 .. n : s.invs[j].temp \in Int /\ s.invs[j].temp <= Hottest
    BY <1>12 DEF Telling
  <2> DEFINE invs == s.invs
  <2> HIDE DEF invs
  <2>2. IsSeq(invs, n) /\ \A j \in 1 .. n : invs[j].temp \in Int /\ invs[j].temp <= Hottest
    BY <2>1 DEF invs
  <2>3. MaxTemperature(invs) \in Int
    BY <2>2, HottestIs
  <2>4. QED
    BY <1>9, <2>3 DEF invs
<1>18. s.power \in Nat
  <2>1. \A j \in 1 .. n : s.invs[j].pac \in Nat
    BY <1>12 DEF Telling
  <2>2. /\ \A ph \in 1 .. 3 : PhaseW(s, ph) \in Nat
        /\ PhaseW(s, 1) + PhaseW(s, 2) + PhaseW(s, 3) = LiveSystemPowerW(s.invs)
    BY <2>1, PhasesSum
  <2>3. QED
    BY <1>9, <2>2
<1>19. s.capacity \in Nat
  BY <1>8, <1>9
<1>20. QED
  BY <1>7, <1>9, <1>12, <1>16, <1>17, <1>18, <1>19 DEF TellingFleet

\* Every bank that is published is a sequence of words.
LEMMA BanksTell ==
    ASSUME TailsAreWords, CapsAreWatts, ColumnsAreNumbers, PublishInv, FoundInv, NEW u \in DOMAIN banks
    PROVE  Regs(banks[u])
<1>1. Published
  BY DEF Published
<1>2. PICK n \in Nat : EncodesSnapshot(u, n)
  BY EachBank
<1>3. n <= 254 /\ IsSeq(snap.invs, n)
  BY <1>2 DEF EncodesSnapshot
<1>4. TellingFleet(snap, n)
  BY <1>1, <1>3, MixtureTells DEF FoundInv
<1>5. \A v \in 0 .. 255 : Outcome(Untracked[v])
  <2>1. 0 \in Words /\ 1 \in Words
    BY Literals
  <2>2. QED
    BY <2>1 DEF Untracked, Outcome
<1>6. CASE u = 1
  <2>1. PICK pick \in Picks(snap) : banks[u] = Encode(snap, pick, Untracked[1])
    BY <1>2, <1>6 DEF EncodesSnapshot
  <2> DEFINE o == Untracked[1]
  <2>2. Outcome(o)
    BY <1>5
  <2> HIDE DEF o
  <2>3. Regs(Encode(snap, pick, o))
    BY <1>4, <2>2, RegsFleet
  <2>4. QED
    BY <2>1, <2>3 DEF o
<1>7. CASE u # 1
  <2> DEFINE inv == snap.invs[u - 1]
             o == Untracked[u]
  <2>1. PICK row : row = RowShown(snap, inv) /\ banks[u] = EncodePerInverter(inv, u, row, o)
    BY <1>2, <1>7 DEF EncodesSnapshot
  <2>2. u - 1 \in 1 .. n
    BY <1>2, <1>7 DEF EncodesSnapshot
  <2>3. u \in 2 .. 255
    <3>1. PICK m \in Nat : m <= 254 /\ Units = {1 + j : j \in 1 .. m}
      BY <1>1, UnitsAre
    <3>2. PICK j \in 1 .. m : u = 1 + j
      BY <1>7, <3>1 DEF Units
    <3>3. QED
      BY <3>1, <3>2
  <2>4. u \in Words
    BY <2>3, Literals
  <2>5. Telling(inv)
    BY <1>4, <2>2 DEF TellingFleet
  <2>6. Outcome(o)
    BY <1>5, <2>3
  <2>7. Numbers(row)
    <3>1. Numbers(NoRows)
      BY DEF Numbers, NoRows
    <3>2. \A v \in DOMAIN snap.prot : Numbers(snap.prot[v])
      BY <1>4 DEF TellingFleet
    <3>3. QED
      BY <2>1, <3>1, <3>2 DEF RowShown
  <2> HIDE DEF inv, o
  <2>8. QED
    BY <2>1, <2>4, <2>5, <2>6, <2>7, RegsUnit
<1>8. QED
  BY <1>6, <1>7

\* Refreshes are counted up to their bound.
RefreshesBounded == refreshes \in 0 .. MaxRefresh

LEMMA InitRefreshes == Init => RefreshesBounded
BY BoundAssumption DEF Init, RefreshesBounded

LEMMA NextRefreshes == RefreshesBounded /\ [Next]_vars => RefreshesBounded'
BY BoundAssumption
   DEF RefreshesBounded, Next, vars, Change, StartRefresh, ReadParams, FailParams, Query, Publish

LEMMA TypeStep ==
    ASSUME TailsAreWords, CapsAreWatts, ColumnsAreNumbers, PublishInv, FoundInv, RefreshesBounded
    PROVE  TypeOK
<1>1. world \in DOMAIN Worlds /\ refreshes \in 0 .. MaxRefresh
  BY DEF PublishInv, RefreshesBounded
<1>2. pc \in {"idle", "file", "publish"} \cup DOMAIN After
  BY DEF PublishInv, GotInv, After
<1>3. ASSUME NEW u \in DOMAIN banks, NEW k \in DOMAIN banks[u] PROVE banks[u][k] \in Words
  <2> DEFINE bank == banks[u]
  <2>1. Regs(bank)
    BY BanksTell
  <2> HIDE DEF bank
  <2>2. k \in 1 .. Len(bank)
    BY <2>1 DEF Regs, bank
  <2>3. QED
    BY <2>1, <2>2, RegsAre DEF bank
<1>4. QED
  BY <1>1, <1>2, <1>3 DEF TypeOK

\* The type invariant: whatever the sources hold, if their columns are numbers
\* that an inverter or a table can hold, every register of every bank is a
\* word.
THEOREM TypeCorrect ==
    SmallFleets /\ TailsAreWords /\ CapsAreWatts /\ ColumnsAreNumbers /\ Spec => []TypeOK
<1> SUFFICES ASSUME SmallFleets, TailsAreWords, CapsAreWatts, ColumnsAreNumbers
             PROVE  Spec => []TypeOK
  OBVIOUS
<1>1. Spec => []PublishInv
  BY Invariance
<1>2. Init => FoundInv /\ RefreshesBounded
  BY InitFound, InitRefreshes
<1>3. PublishInv /\ FoundInv /\ RefreshesBounded /\ [Next]_vars => FoundInv' /\ RefreshesBounded'
  BY NextFound, NextRefreshes
<1>4. PublishInv /\ FoundInv /\ RefreshesBounded => TypeOK
  BY TypeStep
<1>5. QED
  BY <1>1, <1>2, <1>3, <1>4, PTL DEF Spec
=============================================================================
