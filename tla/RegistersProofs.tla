-------------------------- MODULE RegistersProofs ---------------------------
(***************************************************************************)
(* Lemmas about Registers, for any snapshot: how many registers each model *)
(* emits and which length it declares, where the models of a bank stand,   *)
(* and that findModelInBank finds each of them there.                      *)
(***************************************************************************)
EXTENDS Registers, DataLemmas, FiniteSetTheorems

----------------------------------------------------------------------------
(* The walk of findModelInBank, from its recursion equation.               *)

\* Where the walk goes on after the model at cur, and where it ends.
NextPlace(bank, cur) == Word(cur + 2 + At(bank, Word(cur + 1)))

\* The address behind a bank.
EndOf(bank) == Word(Base + Len(bank))

\* One step of the walk for a model, of which f is the rest.
Walked(bank, id, f, cur) ==
    IF Word(cur + 1) >= EndOf(bank) \/ At(bank, cur) = EndModelID THEN NotFound
    ELSE IF At(bank, cur) = id THEN cur
    ELSE IF NextPlace(bank, cur) \notin cur + 1 .. EndOf(bank) THEN NotFound
    ELSE f[NextPlace(bank, cur)]

\* The last address of a Modbus unit.
LastAddress == 65535

\* The function f is the walk over the addresses from `from` on.
Walks(bank, id, f, from) == f = [cur \in from .. LastAddress |-> Walked(bank, id, f, cur)]

\* The end of a bank is an address.
LEMMA EndIsAWord ==
    ASSUME NEW bank, Len(bank) \in Nat
    PROVE  EndOf(bank) \in Nat /\ EndOf(bank) <= 65535
<1> DEFINE e == Base + Len(bank)
<1>1. e \in Int
  BY DEF Base
<1> HIDE DEF e
<1>2. e % 65536 \in Nat /\ e % 65536 <= 65535
  BY <1>1, ModRange
<1>3. Word(e) \in Nat /\ Word(e) <= 65535
  BY <1>2 DEF Word
<1>4. QED
  BY <1>3 DEF e, EndOf

\* What a walk yields at an address.
LEMMA WalkAt ==
    ASSUME NEW bank, NEW id, NEW f, Walks(bank, id, f, 0), NEW c \in 0 .. LastAddress
    PROVE  f[c] = Walked(bank, id, f, c)
<1>1. QED
  BY DEF Walks

\* There is a walk: each step leads to a later address, and none leads
\* behind the end of the bank. By induction on how many addresses are left.
LEMMA WalksExists ==
    ASSUME NEW bank, NEW id, Len(bank) \in Nat
    PROVE  \E f : Walks(bank, id, f, 0)
<1>1. LastAddress \in Nat
  BY DEF LastAddress
<1> DEFINE T == {n \in Nat : n <= (LastAddress + 1) => \E f : Walks(bank, id, f, (LastAddress + 1) - n)}
<1>2. 0 \in T
  <2>1. Walks(bank, id, << >>, (LastAddress + 1))
    BY <1>1 DEF Walks
  <2>2. QED
    BY <1>1, <2>1
<1>3. ASSUME NEW n \in Nat, n \in T, n + 1 <= (LastAddress + 1)
      PROVE  \E f : Walks(bank, id, f, (LastAddress + 1) - (n + 1))
  <2> DEFINE c == LastAddress - n
  <2>1. PICK f : Walks(bank, id, f, c + 1)
    BY <1>1, <1>3
  <2> DEFINE g == [cur \in c .. LastAddress |-> IF cur = c THEN Walked(bank, id, f, c) ELSE f[cur]]
  <2>2. ASSUME NEW cur \in c .. LastAddress PROVE g[cur] = Walked(bank, id, g, cur)
    <3>1. ASSUME NextPlace(bank, cur) \in cur + 1 .. EndOf(bank)
          PROVE  g[NextPlace(bank, cur)] = f[NextPlace(bank, cur)]
      <4> DEFINE h == NextPlace(bank, cur)
                 e == EndOf(bank)
      <4>1. e \in Nat /\ e <= LastAddress
        BY EndIsAWord DEF LastAddress
      <4>2. h \in cur + 1 .. e /\ cur \in Int /\ c <= cur
        BY <1>1, <3>1
      <4> HIDE DEF h, e
      <4>3. h \in c + 1 .. LastAddress
        BY <1>1, <4>1, <4>2
      <4>4. g[h] = f[h]
        BY <1>1, <4>3
      <4>5. QED
        BY <1>1, <4>4 DEF h
    <3>2. Walked(bank, id, g, cur) = Walked(bank, id, f, cur)
      BY <1>1, <3>1 DEF Walked
    <3>3. CASE cur = c
      BY <1>1, <3>2, <3>3
    <3>4. CASE cur \in c + 1 .. LastAddress
      BY <1>1, <2>1, <3>2, <3>4 DEF Walks
    <3>5. QED
      BY <1>1, <3>3, <3>4
  <2>3. Walks(bank, id, g, c)
    BY <1>1, <2>2 DEF Walks
  <2>4. QED
    BY <1>1, <2>3
<1>4. \A n \in Nat : n \in T => n + 1 \in T
  BY <1>1, <1>3
<1> HIDE DEF T
<1>5. Nat \subseteq T
  BY <1>1, <1>2, <1>4, AllNat
<1>6. (LastAddress + 1) \in T
  BY <1>1, <1>5
<1>7. QED
  BY <1>1, <1>6 DEF T

\* FindModel is what a walk yields at the first model.
LEMMA FindModelIs ==
    ASSUME NEW bank, NEW id, Len(bank) \in Nat
    PROVE  \E f : Walks(bank, id, f, 0) /\ FindModel(bank, id) = f[Base + 2]
<1> DEFINE f == CHOOSE f : Walks(bank, id, f, 0)
<1>1. Walks(bank, id, f, 0)
  BY WalksExists
<1>2. FindModel(bank, id) = f[Base + 2]
  BY DEF FindModel, LastAddress, Walks, Walked, NextPlace, EndOf
<1>3. QED
  BY <1>1, <1>2

----------------------------------------------------------------------------
(* Chains of models, which stand at the addresses at[1], at[2], ...        *)

\* The registers t stand in a bank from the address a up to b, and declare so.
Stands(bank, t, a, b) ==
    /\ IsSeq(t, b - a) /\ a + 2 <= b /\ t[2] = b - a - 2
    /\ \A j \in 1 .. b - a : At(bank, a + j - 1) = t[j]

\* The first k models of a bank that is being filled, and nothing else.
Laid(bank, models, at, k) ==
    /\ IsSeq(bank, at[k + 1] - Base)
    /\ at[1] = Base + 2
    /\ \A i \in 1 .. k + 1 : at[i] \in Base .. at[k + 1]
    /\ \A i \in 1 .. k : Stands(bank, models[i], at[i], at[i + 1])

\* A bank starts with the two registers of the SunSpec marker.
LEMMA StartIsLaid ==
    ASSUME NEW models, NEW at, at[1] = 40002, NEW a, NEW b
    PROVE  Laid(<<a, b>>, models, at, 0)
BY DEF Laid, Base, IsSeq

\* What stands in a bank is not moved by what follows.
LEMMA StandsOn ==
    ASSUME NEW bank, NEW n \in Nat, IsSeq(bank, n), NEW t, NEW m \in Nat, IsSeq(t, m),
           NEW s, NEW a \in Nat, NEW b \in Nat, a >= 40000, b <= 40000 + n, Stands(bank, s, a, b)
    PROVE  Stands(bank \o t, s, a, b)
<1> DEFINE u == bank \o t
<1>1. Concatenated(u, bank, n, t, m)
  BY ConcatIs
<1> HIDE DEF u
<1>2. DOMAIN u = 1 .. n + m /\ DOMAIN bank = 1 .. n
  BY <1>1 DEF Concatenated, IsSeq
<1>3. ASSUME NEW j \in 1 .. b - a PROVE At(u, a + j - 1) = s[j]
  <2> DEFINE i == a + j - 1 - 40000 + 1
  <2>1. i \in 1 .. n /\ i \in 1 .. n + m
    OBVIOUS
  <2>2. At(bank, a + j - 1) = s[j]
    BY DEF Stands
  <2>3. u[i] = bank[i]
    BY <1>1, <2>1 DEF Concatenated
  <2>4. QED
    BY <1>2, <2>1, <2>2, <2>3 DEF At, Base
<1>4. Stands(u, s, a, b)
  BY <1>3 DEF Stands
<1>5. QED
  BY <1>4 DEF u

\* What is appended to a bank stands there.
LEMMA StandsLast ==
    ASSUME NEW bank, NEW n \in Nat, IsSeq(bank, n), NEW t, NEW m \in Nat, IsSeq(t, m),
           m >= 2, t[2] = m - 2, NEW a \in Nat, a = 40000 + n, NEW b \in Nat, b = a + m
    PROVE  Stands(bank \o t, t, a, b)
<1> DEFINE u == bank \o t
<1>1. Concatenated(u, bank, n, t, m)
  BY ConcatIs
<1> HIDE DEF u
<1>2. DOMAIN u = 1 .. n + m
  BY <1>1 DEF Concatenated, IsSeq
<1>3. ASSUME NEW j \in 1 .. m PROVE At(u, a + j - 1) = t[j]
  <2>1. a + j - 1 - 40000 + 1 = n + j /\ n + j \in 1 .. n + m
    OBVIOUS
  <2>2. u[n + j] = t[j]
    BY <1>1 DEF Concatenated
  <2>3. QED
    BY <1>2, <2>1, <2>2 DEF At, Base
<1>4. b - a = m
  OBVIOUS
<1>5. Stands(u, t, a, b)
  BY <1>3, <1>4 DEF Stands
<1>6. QED
  BY <1>5 DEF u

\* Registers that declare how many they are lay one more model.
LEMMA LayRegisters ==
    ASSUME NEW bank, NEW models, NEW at, NEW k \in Nat, Laid(bank, models, at, k),
           NEW t, NEW m \in Nat, IsSeq(t, m), m >= 2, t[2] = m - 2,
           models[k + 1] = t, at[k + 2] = at[k + 1] + m
    PROVE  Laid(bank \o t, models, at, k + 1)
<1> DEFINE n == at[k + 1] - 40000
           u == bank \o t
<1>1. n \in Nat /\ IsSeq(bank, n)
  BY DEF Laid, Base
<1> HIDE DEF n
<1>2. IsSeq(u, n + m)
  <2>1. Concatenated(u, bank, n, t, m)
    BY <1>1, ConcatIs
  <2>2. QED
    BY <2>1 DEF Concatenated
<1>3. /\ at[k + 1] \in Nat /\ at[k + 1] = 40000 + n
      /\ at[k + 2] \in Nat /\ n + m = at[k + 2] - 40000
  BY <1>1 DEF n, Laid, Base
<1>4. \A i \in 1 .. k + 1 : at[i] \in Nat /\ at[i] >= 40000 /\ at[i] <= at[k + 1]
  BY <1>3 DEF Laid, Base
<1>5. ASSUME NEW i \in 1 .. k + 1 PROVE Stands(u, models[i], at[i], at[i + 1])
  <2>1. CASE i = k + 1
    <3>1. Stands(u, t, at[k + 1], at[k + 2])
      BY <1>1, <1>3, StandsLast
    <3>2. (k + 1) + 1 = k + 2
      OBVIOUS
    <3>3. QED
      BY <2>1, <3>1, <3>2
  <2>2. CASE i \in 1 .. k
    <3>1. Stands(bank, models[i], at[i], at[i + 1])
      BY <2>2 DEF Laid
    <3>2. /\ at[i] \in Nat /\ at[i] >= 40000 /\ at[i + 1] \in Nat /\ at[i + 1] <= 40000 + n
      BY <1>3, <1>4, <2>2
    <3>3. QED
      BY <1>1, <3>1, <3>2, StandsOn
  <2>3. QED
    BY <2>1, <2>2
<1>6. at[1] = Base + 2 /\ \A i \in 1 .. k + 2 : at[i] \in Base .. at[k + 2]
  <2>1. at[1] = Base + 2
    BY DEF Laid
  <2>2. ASSUME NEW i \in 1 .. k + 2 PROVE at[i] \in Base .. at[k + 2]
    <3>1. CASE i = k + 2
      BY <1>1, <1>3, <3>1 DEF Base
    <3>2. CASE i \in 1 .. k + 1
      BY <1>1, <1>3, <1>4, <3>2 DEF Base
    <3>3. QED
      BY <3>1, <3>2
  <2>3. QED
    BY <2>1, <2>2
<1>7. IsSeq(u, at[(k + 1) + 1] - Base)
  BY <1>2, <1>3 DEF Base
<1>8. QED
  BY <1>5, <1>6, <1>7 DEF Laid, u

\* The m registers of a model, which declare an ID and a length.
Emitted(t, id, len, m) == IsSeq(t, m) /\ m >= 2 /\ t[1] = id /\ t[2] = len

\* The model at a place of the chain.
Is(models, i, t) == models[i] = t

\* The model k1 of m registers, of which len are declared, comes behind the model k.
Follows(at, k, k1, len, m) ==
    k \in Nat /\ m \in Nat /\ k1 = k + 1 /\ len = m - 2 /\ at[k1 + 1] = at[k1] + m

\* A model that declares the length it has is laid.
LEMMA LayModel ==
    ASSUME NEW bank, NEW models, NEW at, NEW k, Laid(bank, models, at, k),
           NEW t, NEW id, NEW len, NEW m, Emitted(t, id, len, m),
           NEW k1, Is(models, k1, t), Follows(at, k, k1, len, m)
    PROVE  Laid(bank \o t, models, at, k1)
<1>1. k \in Nat /\ m \in Nat /\ k1 = k + 1 /\ len = m - 2 /\ at[k1 + 1] = at[k1] + m
  BY DEF Follows
<1>2. IsSeq(t, m) /\ m >= 2 /\ models[k + 1] = t /\ t[2] = m - 2
  BY <1>1 DEF Emitted, Is
<1>3. at[k + 2] = at[k + 1] + m
  BY <1>1
<1>4. Laid(bank \o t, models, at, k + 1)
  BY <1>1, <1>2, <1>3, LayRegisters
<1>5. QED
  BY <1>1, <1>4

\* The k models of a bank with the end model behind them.
Filled(bank, models, at, k) ==
    /\ IsSeq(bank, at[k + 1] + 2 - Base)
    /\ at[k + 1] + 2 <= 65535
    /\ At(bank, at[k + 1]) = EndModelID /\ At(bank, at[k + 1] + 1) = 0
    /\ at[1] = Base + 2
    /\ \A i \in 1 .. k + 1 : at[i] \in Base .. at[k + 1]
    /\ \A i \in 1 .. k : Stands(bank, models[i], at[i], at[i + 1])

\* The end model ends a bank.
LEMMA LayEnd ==
    ASSUME NEW bank, NEW models, NEW at, NEW k \in Nat, Laid(bank, models, at, k),
           at[k + 1] + 2 <= 65535
    PROVE  Filled(bank \o <<EndModelID, 0>>, models, at, k)
<1> DEFINE n == at[k + 1] - 40000
           t == <<EndModelID, 0>>
           a == at[k + 1]
           b == at[k + 1] + 2
           u == bank \o t
<1>1. n \in Nat /\ IsSeq(bank, n) /\ a \in Nat /\ a = 40000 + n /\ b = a + 2 /\ b \in Nat
  BY DEF Laid, Base
<1>2. IsSeq(t, 2) /\ t[1] = EndModelID /\ t[2] = 0
  BY DEF IsSeq
<1> HIDE DEF n, t
<1>3. \A i \in 1 .. k + 1 : at[i] \in Nat /\ at[i] >= 40000 /\ at[i] <= a
  BY <1>1 DEF Laid, Base
<1> HIDE DEF a, b
<1>4. Stands(u, t, a, b)
  BY <1>1, <1>2, StandsLast
<1>5. At(u, a) = EndModelID /\ At(u, a + 1) = 0
  <2>1. 1 \in 1 .. b - a /\ 2 \in 1 .. b - a /\ a + 1 - 1 = a /\ a + 2 - 1 = a + 1
    BY <1>1
  <2> HIDE DEF u
  <2>2. At(u, a + 1 - 1) = t[1] /\ At(u, a + 2 - 1) = t[2]
    BY <1>4, <2>1 DEF Stands
  <2>3. QED
    BY <1>2, <2>1, <2>2
<1>6. ASSUME NEW i \in 1 .. k PROVE Stands(u, models[i], at[i], at[i + 1])
  <2>1. Stands(bank, models[i], at[i], at[i + 1])
    BY DEF Laid
  <2>2. at[i] \in Nat /\ at[i] >= 40000 /\ at[i + 1] \in Nat /\ at[i + 1] <= 40000 + n
    BY <1>1, <1>3
  <2>3. QED
    BY <1>1, <1>2, <2>1, <2>2, StandsOn
<1>7. IsSeq(u, at[k + 1] + 2 - Base)
  <2>1. Concatenated(u, bank, n, t, 2)
    BY <1>1, <1>2, ConcatIs
  <2> HIDE DEF u
  <2>2. IsSeq(u, n + 2)
    BY <2>1 DEF Concatenated
  <2>3. n + 2 = at[k + 1] + 2 - Base
    BY <1>1 DEF a, Base
  <2>4. QED
    BY <2>2, <2>3
<1> HIDE DEF u
<1>8. at[1] = Base + 2 /\ \A i \in 1 .. k + 1 : at[i] \in Base .. a
  BY DEF Laid, a
<1>9. Filled(u, models, at, k)
  <2>1. At(u, at[k + 1]) = EndModelID /\ At(u, at[k + 1] + 1) = 0
    BY <1>5 DEF a
  <2>2. \A i \in 1 .. k + 1 : at[i] \in Base .. at[k + 1]
    BY <1>8 DEF a
  <2>3. QED
    BY <1>6, <1>7, <1>8, <2>1, <2>2 DEF Filled
<1>10. QED
  BY <1>9 DEF u, t

\* The k models of a bank by their IDs.
Ended(bank, ids, at, k) ==
    /\ IsSeq(bank, at[k + 1] + 2 - Base)
    /\ at[k + 1] + 2 <= 65535
    /\ At(bank, at[k + 1]) = EndModelID /\ At(bank, at[k + 1] + 1) = 0
    /\ at[1] = Base + 2
    /\ \A i \in 1 .. k + 1 : at[i] \in Base .. at[k + 1]
    /\ \A i \in 1 .. k : /\ at[i] + 2 <= at[i + 1]
                         /\ At(bank, at[i]) = ids[i]
                         /\ At(bank, at[i] + 1) = at[i + 1] - at[i] - 2

\* A bank seen by a client that reads the IDs and the lengths.
LEMMA FilledIsEnded ==
    ASSUME NEW bank, NEW models, NEW at, NEW k \in Nat, Filled(bank, models, at, k),
           NEW ids, \A i \in 1 .. k : models[i][1] = ids[i]
    PROVE  Ended(bank, ids, at, k)
<1>1. ASSUME NEW i \in 1 .. k
      PROVE  /\ at[i] + 2 <= at[i + 1]
             /\ At(bank, at[i]) = ids[i]
             /\ At(bank, at[i] + 1) = at[i + 1] - at[i] - 2
  <2> DEFINE a == at[i]
             b == at[i + 1]
  <2>1. Stands(bank, models[i], a, b) /\ a \in Nat /\ b \in Nat
    BY DEF Filled, Base
  <2>2. models[i][1] = ids[i]
    OBVIOUS
  <2> HIDE DEF a, b
  <2>3. a + 2 <= b /\ models[i][2] = b - a - 2
    BY <2>1 DEF Stands
  <2>4. 1 \in 1 .. b - a /\ 2 \in 1 .. b - a /\ a + 1 - 1 = a /\ a + 2 - 1 = a + 1
    BY <2>1, <2>3
  <2>5. At(bank, a + 1 - 1) = models[i][1] /\ At(bank, a + 2 - 1) = models[i][2]
    BY <2>1, <2>4 DEF Stands
  <2>6. QED
    BY <2>2, <2>3, <2>4, <2>5 DEF a, b
<1>2. QED
  BY <1>1 DEF Filled, Ended

\* A client reads, at a model's address, its registers.
LEMMA FilledHolds ==
    ASSUME NEW bank, NEW models, NEW at, NEW k \in Nat, Filled(bank, models, at, k),
           NEW i \in 1 .. k, NEW m \in Nat, at[i + 1] = at[i] + m, NEW j \in 1 .. m
    PROVE  At(bank, at[i] + j - 1) = models[i][j]
<1> DEFINE a == at[i]
           b == at[i + 1]
<1>1. Stands(bank, models[i], a, b) /\ a \in Nat /\ b \in Nat
  BY DEF Filled, Base
<1>2. b = a + m
  OBVIOUS
<1> HIDE DEF a, b
<1>3. j \in 1 .. b - a
  BY <1>1, <1>2
<1>4. At(bank, a + j - 1) = models[i][j]
  BY <1>1, <1>3 DEF Stands
<1>5. QED
  BY <1>4 DEF a

\* A walk goes from model to model until it finds its ID, or to the end model.
LEMMA WalkOn ==
    ASSUME NEW bank, NEW ids, NEW at, NEW n \in Nat, Ended(bank, ids, at, n),
           \A i \in 1 .. n : ids[i] # 65535, NEW id, NEW f, Walks(bank, id, f, 0)
    PROVE  /\ \A i \in 1 .. n : f[at[i]] = IF ids[i] = id THEN at[i] ELSE f[at[i + 1]]
           /\ f[at[n + 1]] = NotFound
<1> DEFINE e == at[n + 1] + 2
<1>1. /\ e \in Nat /\ e <= 65535 /\ e = EndOf(bank) /\ Len(bank) \in Nat
      /\ \A i \in 1 .. n + 1 : at[i] \in Nat /\ at[i] >= 40000 /\ at[i] + 2 <= e
      /\ \A i \in 1 .. n : at[i] + 2 <= at[i + 1]
  <2>1. /\ e \in Nat /\ e <= 65535
        /\ \A i \in 1 .. n + 1 : at[i] \in Nat /\ at[i] >= 40000 /\ at[i] + 2 <= e
    <3>1. \A i \in 1 .. n + 1 : at[i] \in Base .. at[n + 1]
      BY DEF Ended
    <3>2. at[n + 1] \in Base .. at[n + 1] /\ e <= 65535
      BY <3>1 DEF Ended
    <3>3. at[n + 1] \in Nat
      BY <3>2 DEF Base
    <3>4. QED
      BY <3>1, <3>2, <3>3 DEF Base
  <2>2. Len(bank) = e - 40000 /\ Len(bank) \in Nat
    BY DEF Ended, Base, IsSeq
  <2>3. e = EndOf(bank)
    <3> HIDE DEF e
    <3>1. 40000 + Len(bank) = e
      BY <2>1, <2>2
    <3>2. e % 65536 = e
      BY <2>1, ModSmall
    <3>3. QED
      BY <3>1, <3>2 DEF EndOf, Word, Base
  <2>4. QED
    BY <2>1, <2>2, <2>3 DEF Ended
<1> HIDE DEF e
<1>2. ASSUME NEW i \in 1 .. n
      PROVE  f[at[i]] = IF ids[i] = id THEN at[i] ELSE f[at[i + 1]]
  <2> DEFINE c == at[i]
             d == at[i + 1]
  <2>1. /\ c \in Nat /\ d \in Nat /\ c >= 40000 /\ c + 2 <= d /\ d + 2 <= e
        /\ At(bank, c) = ids[i] /\ At(bank, c + 1) = d - c - 2
    BY <1>1 DEF Ended
  <2> HIDE DEF c, d
  <2>2. Word(c + 1) = c + 1
    <3>1. c + 1 \in Nat /\ c + 1 <= 65535
      BY <1>1, <2>1
    <3>2. QED
      BY <3>1, ModSmall DEF Word
  <2>3. NextPlace(bank, c) = d
    <3>1. c + 2 + (d - c - 2) = d
      BY <2>1
    <3>2. d % 65536 = d
      <4>1. d <= 65535
        BY <1>1, <2>1
      <4>2. QED
        BY <2>1, <4>1, ModSmall
    <3>3. QED
      BY <2>1, <2>2, <3>1, <3>2 DEF NextPlace, Word
  <2>4. f[c] = Walked(bank, id, f, c)
    <3>1. c \in Int /\ 0 <= c /\ c <= 65535
      BY <1>1, <2>1
    <3>2. c \in 0 .. LastAddress
      <4>1. LastAddress \in Int /\ c <= LastAddress
        BY <3>1 DEF LastAddress
      <4>2. QED
        BY <3>1, <4>1
    <3> HIDE DEF c
    <3>3. QED
      BY <3>2, WalkAt
  <2>5. /\ ~(c + 1 >= e) /\ At(bank, c) # 65535 /\ d \in c + 1 .. e
    BY <1>1, <2>1
  <2>6. Walked(bank, id, f, c) = IF ids[i] = id THEN c ELSE f[d]
    BY <1>1, <2>1, <2>2, <2>3, <2>5 DEF Walked, EndModelID
  <2>7. QED
    BY <2>4, <2>6 DEF c, d
<1>3. f[at[n + 1]] = NotFound
  <2> DEFINE c == at[n + 1]
  <2>1. c \in Nat /\ c <= 65535 /\ At(bank, c) = EndModelID
    <3>1. n + 1 \in 1 .. n + 1
      OBVIOUS
    <3>2. at[n + 1] \in Nat /\ at[n + 1] + 2 <= e
      BY <1>1, <3>1
    <3>3. QED
      BY <1>1, <3>2 DEF Ended
  <2> HIDE DEF c
  <2>2. c \in 0 .. LastAddress
    <3>1. LastAddress \in Int /\ c <= LastAddress
      BY <2>1 DEF LastAddress
    <3>2. QED
      BY <2>1, <3>1
  <2>3. f[c] = Walked(bank, id, f, c)
    BY <2>2, WalkAt
  <2>4. QED
    BY <2>1, <2>3 DEF Walked, c
<1>4. QED
  BY <1>2, <1>3

\* A model of an ID that no other model has is found where it stands, by
\* induction on the models before it.
LEMMA ChainFound ==
    ASSUME NEW bank, NEW ids, NEW at, NEW n \in Nat, Ended(bank, ids, at, n),
           \A i, j \in 1 .. n : ids[i] = ids[j] => i = j,
           \A i \in 1 .. n : ids[i] # 65535,
           NEW k \in 1 .. n
    PROVE  FindModel(bank, ids[k]) = at[k]
<1> DEFINE id == ids[k]
<1>1. Len(bank) \in Nat
  BY DEF Ended, IsSeq
<1>2. PICK f : Walks(bank, id, f, 0) /\ FindModel(bank, id) = f[Base + 2]
  <2> HIDE DEF id
  <2>1. QED
    BY <1>1, FindModelIs
<1>3. \A i \in 1 .. n : f[at[i]] = IF ids[i] = id THEN at[i] ELSE f[at[i + 1]]
  BY <1>2, WalkOn
<1>4. \A i \in 1 .. n : f[at[i]] = IF i = k THEN at[i] ELSE f[at[i + 1]]
  BY <1>3
<1> DEFINE T == {i \in Nat : i + 1 \in 1 .. k => f[at[1]] = f[at[i + 1]]}
<1>5. 0 \in T
  OBVIOUS
<1>6. ASSUME NEW i \in Nat, i \in T PROVE i + 1 \in T
  <2> SUFFICES ASSUME i + 2 \in 1 .. k PROVE f[at[1]] = f[at[i + 2]]
    OBVIOUS
  <2>1. i + 1 \in 1 .. n /\ i + 1 # k /\ i + 1 \in 1 .. k /\ (i + 1) + 1 = i + 2
    OBVIOUS
  <2>2. f[at[i + 1]] = f[at[i + 2]]
    BY <1>4, <2>1
  <2>3. QED
    BY <1>6, <2>1, <2>2
<1> HIDE DEF T
<1>7. Nat \subseteq T
  BY <1>5, <1>6, AllNat
<1>8. f[at[1]] = f[at[k]]
  <2>1. k - 1 \in T /\ (k - 1) + 1 = k
    BY <1>7
  <2>2. QED
    BY <2>1 DEF T
<1>9. at[1] = Base + 2
  BY DEF Ended
<1>10. QED
  BY <1>2, <1>4, <1>8, <1>9

\* A model that a bank does not have is not found.
LEMMA ChainLacks ==
    ASSUME NEW bank, NEW ids, NEW at, NEW n \in Nat, Ended(bank, ids, at, n),
           \A i \in 1 .. n : ids[i] # 65535, NEW id, \A i \in 1 .. n : ids[i] # id
    PROVE  FindModel(bank, id) = NotFound
<1>1. Len(bank) \in Nat
  BY DEF Ended, IsSeq
<1>2. PICK f : Walks(bank, id, f, 0) /\ FindModel(bank, id) = f[Base + 2]
  BY <1>1, FindModelIs
<1>3. /\ \A i \in 1 .. n : f[at[i]] = IF ids[i] = id THEN at[i] ELSE f[at[i + 1]]
      /\ f[at[n + 1]] = NotFound
  BY <1>2, WalkOn
<1>4. \A i \in 1 .. n : f[at[i]] = f[at[i + 1]]
  BY <1>3
<1> DEFINE T == {i \in Nat : i \in 0 .. n => f[at[1]] = f[at[i + 1]]}
<1>5. 0 \in T
  OBVIOUS
<1>6. ASSUME NEW i \in Nat, i \in T, i + 1 \in 0 .. n PROVE f[at[1]] = f[at[(i + 1) + 1]]
  <2>1. i + 1 \in 1 .. n /\ i \in 0 .. n
    BY <1>6
  <2>2. f[at[i + 1]] = f[at[(i + 1) + 1]]
    BY <1>4, <2>1
  <2>3. QED
    BY <1>6, <2>1, <2>2
<1>7. \A i \in Nat : i \in T => i + 1 \in T
  BY <1>6
<1> HIDE DEF T
<1>8. Nat \subseteq T
  BY <1>5, <1>7, AllNat
<1>9. f[at[1]] = f[at[n + 1]]
  BY <1>8 DEF T
<1>10. at[1] = Base + 2
  BY DEF Ended
<1>11. QED
  BY <1>2, <1>3, <1>9, <1>10

----------------------------------------------------------------------------
(* The registers that each model emits.                                    *)

\* More registers behind those of a model.
LEMMA EmittedOn ==
    ASSUME NEW s, NEW id, NEW len, NEW n \in Nat, Emitted(s, id, len, n),
           NEW t, NEW k \in Nat, IsSeq(t, k), NEW m \in Nat, m = n + k
    PROVE  Emitted(s \o t, id, len, m)
<1> DEFINE u == s \o t
<1>1. IsSeq(s, n) /\ n >= 2
  BY DEF Emitted
<1>2. Concatenated(u, s, n, t, k)
  BY <1>1, ConcatIs
<1> HIDE DEF u
<1>3. IsSeq(u, m) /\ u[1] = s[1] /\ u[2] = s[2]
  BY <1>1, <1>2 DEF Concatenated
<1>4. Emitted(u, id, len, m)
  BY <1>1, <1>3 DEF Emitted
<1>5. QED
  BY <1>4 DEF u

\* Padding has the width it is asked for.
LEMMA RepeatWidth ==
    ASSUME NEW n \in Nat, NEW v PROVE IsSeq(Repeat(n, v), n)
BY DEF Repeat, IsSeq

\* Three phases of one width, in use or not.
LEMMA PerPhaseWidth ==
    ASSUME NEW m, NEW values, NEW none, NEW w \in Nat, IsSeq(none, w),
           \A ph \in 1 .. 3 : IsSeq(values[ph], w)
    PROVE  IsSeq(PerPhase(m, values, none), w * 3)
<1> DEFINE seqs == [ph \in 1 .. 3 |-> IF ph <= m.phases THEN values[ph] ELSE none]
<1>1. IsSeq(seqs, 3)
  BY DEF IsSeq
<1>2. \A j \in 1 .. 3 : IsSeq(seqs[j], w)
  OBVIOUS
<1>3. PerPhase(m, values, none) = FlattenSeq(seqs)
  BY DEF PerPhase
<1> HIDE DEF seqs
<1>4. QED
  BY <1>1, <1>2, <1>3, FlattenUniform

\* Three floats that are not known.
LEMMA NaNsWidth ==
    IsSeq(NaNs(3), 6)
<1> DEFINE seqs == Repeat(3, NaN)
<1>1. IsSeq(seqs, 3) /\ \A j \in 1 .. 3 : IsSeq(seqs[j], 2)
  BY DEF Repeat, NaN, IsSeq
<1> HIDE DEF seqs
<1>2. IsSeq(FlattenSeq(seqs), 2 * 3)
  BY <1>1, FlattenUniform
<1>3. QED
  BY <1>2 DEF NaNs, seqs

\* A float is two registers.
LEMMA FloatWidth ==
    ASSUME NEW v PROVE IsSeq(Float(v), 2)
BY DEF Float, Acc32, IsSeq

\* Six event words of two registers.
LEMMA EventRegistersWidth ==
    ASSUME NEW bits PROVE IsSeq(EventRegisters(bits), 12)
BY DEF EventRegisters, Bits32, NoU32, NoU16, Repeat, IsSeq

\* The currents and the voltages of the phases, as registers
LEMMA PhasesWidth ==
    ASSUME NEW m
    PROVE  /\ IsSeq(PerPhase(m, [ph \in 1 .. 3 |-> <<m.phA[ph]>>], NoU16(1)), 3)
           /\ IsSeq(PerPhase(m, Repeat(3, <<m.v>>), NoU16(1)), 3)
<1> DEFINE p == PerPhase(m, [ph \in 1 .. 3 |-> <<m.phA[ph]>>], NoU16(1))
           q == PerPhase(m, Repeat(3, <<m.v>>), NoU16(1))
<1>1. IsSeq(p, 3)
  <2> DEFINE values == [ph \in 1 .. 3 |-> <<m.phA[ph]>>]
  <2>1. IsSeq(NoU16(1), 1) /\ \A ph \in 1 .. 3 : IsSeq(values[ph], 1)
    BY DEF NoU16, Repeat, IsSeq
  <2> HIDE DEF values
  <2>2. IsSeq(PerPhase(m, values, NoU16(1)), 1 * 3)
    BY <2>1, PerPhaseWidth
  <2>3. QED
    BY <2>2 DEF values
<1>2. IsSeq(q, 3)
  <2> DEFINE values == Repeat(3, <<m.v>>)
  <2>1. IsSeq(NoU16(1), 1) /\ \A ph \in 1 .. 3 : IsSeq(values[ph], 1)
    BY DEF NoU16, Repeat, IsSeq
  <2> HIDE DEF values
  <2>2. IsSeq(PerPhase(m, values, NoU16(1)), 1 * 3)
    BY <2>1, PerPhaseWidth
  <2>3. QED
    BY <2>2 DEF values
<1>3. QED
  BY <1>1, <1>2

\* and as floats.
LEMMA FloatPhasesWidth ==
    ASSUME NEW m
    PROVE  /\ IsSeq(PerPhase(m, [ph \in 1 .. 3 |-> Float(m.phA[ph])], NaN), 6)
           /\ IsSeq(PerPhase(m, Repeat(3, Float(m.v)), NaN), 6)
<1> DEFINE p == PerPhase(m, [ph \in 1 .. 3 |-> Float(m.phA[ph])], NaN)
           q == PerPhase(m, Repeat(3, Float(m.v)), NaN)
<1>1. IsSeq(p, 6)
  <2> DEFINE values == [ph \in 1 .. 3 |-> Float(m.phA[ph])]
  <2>1. IsSeq(NaN, 2) /\ \A ph \in 1 .. 3 : IsSeq(values[ph], 2)
    BY DEF NaN, Float, Acc32, IsSeq
  <2> HIDE DEF values
  <2>2. IsSeq(PerPhase(m, values, NaN), 2 * 3)
    BY <2>1, PerPhaseWidth
  <2>3. QED
    BY <2>2 DEF values
<1>2. IsSeq(q, 6)
  <2> DEFINE values == Repeat(3, Float(m.v))
  <2>1. IsSeq(NaN, 2) /\ \A ph \in 1 .. 3 : IsSeq(values[ph], 2)
    BY DEF NaN, Float, Acc32, Repeat, IsSeq
  <2> HIDE DEF values
  <2>2. IsSeq(PerPhase(m, values, NaN), 2 * 3)
    BY <2>1, PerPhaseWidth
  <2>3. QED
    BY <2>2 DEF values
<1>3. QED
  BY <1>1, <1>2

\* Model 101, 102 or 103 without its events: p are the currents of the
\* phases and q their voltages.
InverterFront(m, p, q) ==
    <<100 + m.phases, 50, m.a>> \o p \o <<Word(-1)>>
    \o NoU16(3) \o q \o <<0>>
    \o <<Word(Clamp(m.w, -32760, 32760)), 0, m.hz, Word(-2)>>
    \o <<32768, 0, 32768, 0, 32768, 0>> \o Zeros(3)
    \o <<65535, 0, 65535, 0, 32768, 0>>
    \o <<Word(Clamp(m.temp, -100, 200))>> \o NoS16(3) \o <<0, m.st, 0>>

\* encodeInverter declares the 50 registers it emits.
LEMMA InverterModelIs ==
    ASSUME NEW m PROVE Emitted(InverterModel(m), 100 + m.phases, 50, 52)
<1> DEFINE p == PerPhase(m, [ph \in 1 .. 3 |-> <<m.phA[ph]>>], NoU16(1))
           q == PerPhase(m, Repeat(3, <<m.v>>), NoU16(1))
           e == EventRegisters(m.events)
<1>1. IsSeq(p, 3) /\ IsSeq(q, 3)
  BY PhasesWidth
<1>2. IsSeq(e, 12)
  BY EventRegistersWidth
<1>3. PICK a, b, c : p = <<a, b, c>>
  BY <1>1, ThreeValues
<1>4. PICK d, g, h : q = <<d, g, h>>
  BY <1>1, ThreeValues
<1>5. InverterModel(m) = InverterFront(m, p, q) \o e
  BY DEF InverterModel, InverterFront
<1>6. Emitted(InverterFront(m, <<a, b, c>>, <<d, g, h>>), 100 + m.phases, 50, 40)
  BY DEF InverterFront, NoU16, NoS16, Zeros, Repeat, IsSeq, Emitted
<1>7. Emitted(InverterFront(m, p, q), 100 + m.phases, 50, 40)
  <2> HIDE DEF p, q
  <2>1. QED
    BY <1>3, <1>4, <1>6
<1> DEFINE front == InverterFront(m, p, q)
           id == 100 + m.phases
<1> HIDE DEF p, q, e, front, id
<1>8. Emitted(front \o e, id, 50, 52)
  BY <1>2, <1>7, EmittedOn DEF front, id
<1>9. QED
  BY <1>5, <1>8 DEF front, id

\* Model 111, 112 or 113 without its events: p and q as above, h is the
\* frequency and x are floats that are not known.
InverterFloatFront(m, p, q, h, x) ==
    <<110 + m.phases, 60>> \o Float(m.a) \o p \o x \o q
    \o Float(m.w) \o h \o x \o Float(0) \o x \o Float(m.temp) \o x \o <<m.st, 0>>

\* encodeInverterFloat declares the 60 registers it emits.
LEMMA InverterFloatIs ==
    ASSUME NEW m, IsSeq(m.hzFloat, 2)
    PROVE  Emitted(InverterFloat(m), 110 + m.phases, 60, 62)
<1> DEFINE p == PerPhase(m, [ph \in 1 .. 3 |-> Float(m.phA[ph])], NaN)
           q == PerPhase(m, Repeat(3, Float(m.v)), NaN)
           e == EventRegisters(m.events)
           x == NaNs(3)
           h == m.hzFloat
<1>1. IsSeq(p, 6) /\ IsSeq(q, 6)
  BY FloatPhasesWidth
<1>2. IsSeq(e, 12) /\ IsSeq(x, 6)
  BY EventRegistersWidth, NaNsWidth
<1>3. PICK p1, p2, p3, p4, p5, p6 : p = <<p1, p2, p3, p4, p5, p6>>
  BY <1>1, SixValues
<1>4. PICK q1, q2, q3, q4, q5, q6 : q = <<q1, q2, q3, q4, q5, q6>>
  BY <1>1, SixValues
<1>5. PICK x1, x2, x3, x4, x5, x6 : x = <<x1, x2, x3, x4, x5, x6>>
  BY <1>2, SixValues
<1>6. PICK h1, h2 : h = <<h1, h2>>
  <2>1. h = <<h[1], h[2]>>
    BY DEF IsSeq
  <2>2. QED
    BY <2>1
<1>7. InverterFloat(m) = InverterFloatFront(m, p, q, h, x) \o e
  BY DEF InverterFloat, InverterFloatFront
<1>8. Emitted(InverterFloatFront(m, <<p1, p2, p3, p4, p5, p6>>, <<q1, q2, q3, q4, q5, q6>>,
                                 <<h1, h2>>, <<x1, x2, x3, x4, x5, x6>>), 110 + m.phases, 60, 50)
  BY DEF InverterFloatFront, Float, Acc32, IsSeq, Emitted
<1>9. Emitted(InverterFloatFront(m, p, q, h, x), 110 + m.phases, 60, 50)
  <2> HIDE DEF p, q, h, x
  <2>1. QED
    BY <1>3, <1>4, <1>5, <1>6, <1>8
<1> DEFINE front == InverterFloatFront(m, p, q, h, x)
           id == 110 + m.phases
<1> HIDE DEF p, q, h, x, e, front, id
<1>10. Emitted(front \o e, id, 60, 62)
  BY <1>2, <1>9, EmittedOn DEF front, id
<1>11. QED
  BY <1>7, <1>10 DEF front, id

\* Model 1 declares the 66 registers it emits.
LEMMA CommonIs ==
    ASSUME NEW serial, NEW unit PROVE Emitted(Common(serial, unit), 1, 66, 68)
BY DEF Common, Zeros, Repeat, IsSeq, Emitted

\* Model 120 declares the 26 registers it emits.
LEMMA NameplateIs ==
    ASSUME NEW w PROVE Emitted(Nameplate(w), 120, 26, 28)
BY DEF Nameplate, NoS16, Repeat, IsSeq, Emitted

\* Model 121 with these two ratings.
SettingsOf(wmax, vref) ==
    <<121, 30, wmax, vref>>
    \o NoS16(1) \o NoU16(3) \o NoS16(4) \o NoU16(1) \o NoS16(4) \o NoU16(5)
    \o Zeros(7) \o <<Word(-3), Word(-2), 0>>

\* Model 121 declares the 30 registers it emits.
LEMMA BasicSettingsIs ==
    ASSUME NEW s, NEW vref PROVE Emitted(BasicSettings(s, vref), 121, 30, 32)
<1>1. \A a, b : Emitted(SettingsOf(a, b), 121, 30, 32)
  BY DEF SettingsOf, NoS16, NoU16, Zeros, Repeat, IsSeq, Emitted
<1> DEFINE w == TotalLimitedW(s)
           a == IF w > 0 /\ w <= 65535 THEN w ELSE 65535
           b == IF vref > 0 /\ vref < 65535 THEN vref ELSE 65535
<1>2. BasicSettings(s, vref) = SettingsOf(a, b)
  BY DEF BasicSettings, SettingsOf
<1> HIDE DEF a, b
<1>3. QED
  BY <1>1, <1>2

\* Model 123 declares the 24 registers it emits, of a unit
LEMMA ControlsIs ==
    ASSUME NEW pct, NEW ena, NEW conn PROVE Emitted(Controls(pct, ena, conn), 123, 24, 26)
BY DEF Controls, NoS16, NoU16, Zeros, Repeat, IsSeq, Emitted

\* and of the fleet.
LEMMA FleetControlsIs ==
    ASSUME NEW s PROVE Emitted(FleetControls(s), 123, 24, 26)
BY ControlsIs DEF FleetControls

\* Model 703 declares the 17 registers it emits.
LEMMA EnterServiceIs ==
    ASSUME NEW row, NEW volt PROVE Emitted(EnterService(row, volt), 703, 17, 19)
BY DEF EnterService, Acc32, NoU32, NoU16, Zeros, Repeat, IsSeq, Emitted

\* Model 711 declares the 22 registers it emits.
LEMMA FreqDroopIs ==
    ASSUME NEW row, NEW outcome PROVE Emitted(FreqDroop(row, outcome), 711, 22, 24)
BY DEF FreqDroop, Acc32, NoU32, NoU16, Zeros, Repeat, IsSeq, Emitted

\* Model 134 declares the 68 registers it emits.
LEMMA FreqWattCurveIs ==
    ASSUME NEW row PROVE Emitted(FreqWattCurve(row), 134, 68, 70)
BY DEF FreqWattCurve, Zeros, Repeat, IsSeq, Emitted

\* An inverter has at most four panels.
LEMMA PanelPowersWidth ==
    ASSUME NEW inv PROVE \E w \in 0 .. 4 : IsSeq(PanelPowers(inv), w)
<1> DEFINE columns == PowerColumns(inv.type, inv.tail)
<1>1. columns = <<2, 4>> \/ columns = <<2, 4, 5, 6>> \/ columns = << >>
  BY DEF PowerColumns
<1>2. PICK w \in 0 .. 4 : DOMAIN columns = 1 .. w
  <2> HIDE DEF columns
  <2>1. DOMAIN columns = 1 .. 2 \/ DOMAIN columns = 1 .. 4 \/ DOMAIN columns = 1 .. 0
    BY <1>1
  <2>2. QED
    BY <2>1
<1>3. IsSeq(PowersIn(inv.type, inv.tail), w)
  <2> HIDE DEF columns
  <2>1. PowersIn(inv.type, inv.tail) = [c \in 1 .. w |-> inv.tail[columns[c]]]
    BY <1>2 DEF PowersIn, columns
  <2>2. QED
    BY <2>1 DEF IsSeq
<1>4. IsSeq(<< >>, 0)
  BY DEF IsSeq
<1>5. QED
  BY <1>3, <1>4 DEF PanelPowers

\* n inverters have at most four panels each.
LEMMA PanelsWidth ==
    ASSUME NEW invs, NEW n \in Nat, IsSeq(invs, n)
    PROVE  \E k \in 0 .. 4 * n : IsSeq(Panels(invs), k)
<1> DEFINE row(j) == [c \in DOMAIN PanelPowers(invs[j]) |->
                        [uid |-> invs[j].uid, vac |-> invs[j].vac, temp |-> invs[j].temp,
                         w |-> PanelPowers(invs[j])[c]]]
           seqs == [j \in DOMAIN invs |-> row(j)]
<1>1. \A j \in 1 .. n : \E w \in 0 .. 4 : IsSeq(row(j), w)
  <2> TAKE j \in 1 .. n
  <2>1. PICK w \in 0 .. 4 : IsSeq(PanelPowers(invs[j]), w)
    BY PanelPowersWidth
  <2>2. DOMAIN PanelPowers(invs[j]) = 1 .. w
    BY <2>1 DEF IsSeq
  <2>3. IsSeq(row(j), w)
    BY <2>2 DEF IsSeq
  <2>4. QED
    BY <2>3
<1> HIDE DEF row
<1>2. seqs = [j \in 1 .. n |-> row(j)]
  BY DEF IsSeq
<1>3. IsSeq(seqs, n) /\ \A j \in 1 .. n : \E w \in 0 .. 4 : IsSeq(seqs[j], w)
  <2>1. IsSeq(seqs, n)
    BY <1>2 DEF IsSeq
  <2>2. QED
    BY <1>1, <1>2, <2>1
<1>4. Panels(invs) = FlattenSeq(seqs)
  BY DEF Panels, row
<1> HIDE DEF seqs
<1>5. QED
  BY <1>3, <1>4, FlattenBounded

\* One quantity of the eight channels of Model 114.
Channel(panels, value) ==
    FlattenSeq([c \in 1 .. 8 |-> IF c <= Len(panels) THEN value[c] ELSE NaN])

\* Eight channels of two registers, in use or not.
LEMMA ChannelWidth ==
    ASSUME NEW panels, NEW value, \A c \in 1 .. 8 : IsSeq(value[c], 2)
    PROVE  IsSeq(Channel(panels, value), 16)
<1> DEFINE seqs == [c \in 1 .. 8 |-> IF c <= Len(panels) THEN value[c] ELSE NaN]
<1>1. IsSeq(NaN, 2)
  BY DEF NaN, IsSeq
<1>2. IsSeq(seqs, 8) /\ \A j \in 1 .. 8 : IsSeq(seqs[j], 2)
  <2>1. IsSeq(seqs, 8)
    BY DEF IsSeq
  <2>2. QED
    BY <1>1, <2>1
<1> HIDE DEF seqs
<1>3. IsSeq(FlattenSeq(seqs), 2 * 8)
  BY <1>2, FlattenUniform
<1>4. QED
  BY <1>3 DEF Channel, seqs

\* Model 114 declares the 48 registers it emits, for any number of panels.
LEMMA DCDataIs ==
    ASSUME NEW panels, NEW unknown, IsSeq(unknown, 2)
    PROVE  Emitted(DCData(panels, unknown), 114, 48, 50)
<1> DEFINE volts(p) == IF p.vac > 0 THEN Float(p.vac) ELSE unknown
           amps(p) == IF p.vac > 0 THEN Float(Round(10 * p.w, p.vac)) ELSE unknown
           a == FlattenSeq([c \in 1 .. 8 |-> IF c <= Len(panels) THEN amps(panels[c]) ELSE NaN])
           v == FlattenSeq([c \in 1 .. 8 |-> IF c <= Len(panels) THEN volts(panels[c]) ELSE NaN])
           w == FlattenSeq([c \in 1 .. 8 |-> IF c <= Len(panels) THEN Float(panels[c].w) ELSE NaN])
<1>1. DCData(panels, unknown) = <<114, 48>> \o v \o a \o w
  BY DEF DCData
<1>2. IsSeq(v, 16)
  <2> DEFINE value == [c \in 1 .. 8 |-> volts(panels[c])]
  <2>1. \A c \in 1 .. 8 : IsSeq(value[c], 2)
    <3>1. \A p : IsSeq(volts(p), 2)
      BY FloatWidth
    <3> HIDE DEF volts
    <3>2. QED
      BY <3>1
  <2>2. v = Channel(panels, value)
    BY DEF Channel
  <2> HIDE DEF value, v
  <2>3. QED
    BY <2>1, <2>2, ChannelWidth
<1>3. IsSeq(a, 16)
  <2> DEFINE value == [c \in 1 .. 8 |-> amps(panels[c])]
  <2>1. \A c \in 1 .. 8 : IsSeq(value[c], 2)
    <3>1. \A p : IsSeq(amps(p), 2)
      BY FloatWidth
    <3> HIDE DEF amps
    <3>2. QED
      BY <3>1
  <2>2. a = Channel(panels, value)
    BY DEF Channel
  <2> HIDE DEF value, a
  <2>3. QED
    BY <2>1, <2>2, ChannelWidth
<1>4. IsSeq(w, 16)
  <2> DEFINE value == [c \in 1 .. 8 |-> Float(panels[c].w)]
  <2>1. \A c \in 1 .. 8 : IsSeq(value[c], 2)
    BY FloatWidth
  <2>2. w = Channel(panels, value)
    BY DEF Channel
  <2> HIDE DEF value, w
  <2>3. QED
    BY <2>1, <2>2, ChannelWidth
<1> HIDE DEF v, a, w
<1> DEFINE t0 == <<114, 48>>
           t1 == t0 \o v
           t2 == t1 \o a
           t3 == t2 \o w
<1>5. Emitted(t0, 114, 48, 2)
  BY DEF IsSeq, Emitted
<1> HIDE DEF t0
<1>6. Emitted(t1, 114, 48, 18)
  BY <1>2, <1>5, EmittedOn
<1> HIDE DEF t1
<1>7. Emitted(t2, 114, 48, 34)
  BY <1>3, <1>6, EmittedOn
<1> HIDE DEF t2
<1>8. Emitted(t3, 114, 48, 50)
  BY <1>4, <1>7, EmittedOn
<1>9. QED
  BY <1>1, <1>8 DEF t0, t1, t2, t3

\* Model 160 declares 20 registers a panel and 8 more, and emits them.
LEMMA MultiMPPTIs ==
    ASSUME NEW panels, NEW k \in Nat, IsSeq(panels, k), panels # << >>, ~DisableMPPT
    PROVE  Emitted(MultiMPPT(panels), 160, 8 + 20 * k, 10 + 20 * k)
<1> DEFINE seqs == [c \in DOMAIN panels |-> PanelModule(c, panels[c])]
           front == <<160, 8 + 20 * Len(panels), Word(-1), 0, 0, 0>> \o NoU32 \o <<Len(panels), 65535>>
<1>1. MultiMPPT(panels) = front \o FlattenSeq(seqs)
  BY DEF MultiMPPT
<1>2. IsSeq(seqs, k) /\ \A j \in 1 .. k : IsSeq(seqs[j], 20)
  <2>1. DOMAIN panels = 1 .. k
    BY DEF IsSeq
  <2>2. IsSeq(seqs, k)
    BY <2>1 DEF IsSeq
  <2>3. ASSUME NEW c, NEW p PROVE IsSeq(PanelModule(c, p), 20)
    BY DEF PanelModule, Zeros, Acc32, NoU32, NoU16, Repeat, IsSeq
  <2>4. QED
    BY <2>1, <2>2, <2>3
<1> HIDE DEF seqs
<1> DEFINE tail == FlattenSeq(seqs)
<1>3. IsSeq(tail, 20 * k)
  BY <1>2, FlattenUniform
<1>4. Len(panels) = k
  BY DEF IsSeq
<1>5. Emitted(front, 160, 8 + 20 * k, 10)
  BY <1>4 DEF NoU32, NoU16, Repeat, IsSeq, Emitted
<1> DEFINE m == 20 * k
           len == 8 + 20 * k
<1>6. m \in Nat
  OBVIOUS
<1> HIDE DEF front, tail, m, len
<1>7. Emitted(front \o tail, 160, len, 10 + m)
  BY <1>3, <1>5, <1>6, EmittedOn DEF m, len
<1>8. QED
  BY <1>1, <1>7 DEF m, len, tail

\* The vendor model declares 10 registers an inverter and 16 more, and
\* emits them.
LEMMA VendorIs ==
    ASSUME NEW s, NEW n \in Nat, IsSeq(s.invs, n), s.invs # << >>
    PROVE  Emitted(Vendor(s), 64202, 16 + 10 * n, 18 + 10 * n)
<1> DEFINE entry(j) == <<j, 0, U16(s.invs[j].limit), U16(s.invs[j].phase), U16(s.invs[j].model), 0,
                         PanelCount(s.invs[j]), U16(NameplateW(s.invs[j])), Bool(s.invs[j].online), 0>>
           seqs == [j \in DOMAIN s.invs |-> entry(j)]
           front == <<64202, 16 + 10 * Len(s.invs)>> \o Zeros(15) \o <<Len(s.invs)>>
<1>1. Vendor(s) = front \o FlattenSeq(seqs)
  BY DEF Vendor
<1>2. IsSeq(seqs, n) /\ \A j \in 1 .. n : IsSeq(seqs[j], 10)
  <2>1. \A j : IsSeq(entry(j), 10)
    BY DEF IsSeq
  <2> HIDE DEF entry
  <2>2. seqs = [j \in 1 .. n |-> entry(j)]
    BY DEF IsSeq
  <2>3. IsSeq(seqs, n)
    BY <2>2 DEF IsSeq
  <2>4. QED
    BY <2>1, <2>2, <2>3
<1> HIDE DEF seqs
<1> DEFINE tail == FlattenSeq(seqs)
<1>3. IsSeq(tail, 10 * n)
  BY <1>2, FlattenUniform
<1>4. Len(s.invs) = n
  BY DEF IsSeq
<1>5. Emitted(front, 64202, 16 + 10 * n, 18)
  BY <1>4 DEF Zeros, Repeat, IsSeq, Emitted
<1> DEFINE m == 10 * n
           len == 16 + 10 * n
<1>6. m \in Nat
  OBVIOUS
<1> HIDE DEF front, tail, m, len
<1>7. Emitted(front \o tail, 64202, len, 18 + m)
  BY <1>3, <1>5, <1>6, EmittedOn DEF m, len
<1>8. QED
  BY <1>1, <1>7 DEF m, len, tail

\* A trip curve has at most three points.
LEMMA TripPointsWidth ==
    ASSUME NEW row, NEW curve \in {"LV", "HV", "LF", "HF"}
    PROVE  \E k \in 0 .. 3 : IsSeq(TripPoints(row, curve), k)
<1> DEFINE point(p) ==
            IF p[1] \in DOMAIN row /\ p[2] \in DOMAIN row
            THEN << [val |-> row[p[1]], tms |-> IF p[1] = "AB" THEN 60000 ELSE row[p[2]]] >>
            ELSE << >>
           seqs == [c \in DOMAIN TripCodes[curve] |-> point(TripCodes[curve][c])]
<1>1. PICK n \in 0 .. 3 : DOMAIN TripCodes[curve] = 1 .. n
  <2>1. DOMAIN TripCodes[curve] = 1 .. 2 \/ DOMAIN TripCodes[curve] = 1 .. 3
    BY DEF TripCodes
  <2>2. QED
    BY <2>1
<1>2. ASSUME NEW p PROVE \E w \in 0 .. 1 : IsSeq(point(p), w)
  <2>1. \A x : IsSeq(<<x>>, 1)
    BY DEF IsSeq
  <2>2. IsSeq(<< >>, 0)
    BY DEF IsSeq
  <2>3. CASE p[1] \in DOMAIN row /\ p[2] \in DOMAIN row
    <3> DEFINE x == [val |-> row[p[1]], tms |-> IF p[1] = "AB" THEN 60000 ELSE row[p[2]]]
    <3>1. point(p) = <<x>>
      BY <2>3
    <3> HIDE DEF x, point
    <3>2. IsSeq(point(p), 1)
      BY <2>1, <3>1
    <3>3. QED
      BY <3>2
  <2>4. CASE ~(p[1] \in DOMAIN row /\ p[2] \in DOMAIN row)
    <3>1. point(p) = << >>
      BY <2>4
    <3> HIDE DEF point
    <3>2. QED
      BY <2>2, <3>1
  <2>5. QED
    BY <2>3, <2>4
<1>3. TripPoints(row, curve) = FlattenSeq(seqs)
  BY DEF TripPoints
<1> HIDE DEF point
<1>4. IsSeq(seqs, n) /\ \A c \in 1 .. n : \E w \in 0 .. 1 : IsSeq(seqs[c], w)
  <2>1. IsSeq(seqs, n)
    BY <1>1 DEF IsSeq
  <2>2. QED
    BY <1>1, <1>2, <2>1
<1> HIDE DEF seqs
<1>5. \E k \in 0 .. 1 * n : IsSeq(FlattenSeq(seqs), k)
  BY <1>4, FlattenBounded
<1>6. QED
  BY <1>3, <1>5

\* A trip model pads its points to the length it declares.
LEMMA TripIs ==
    ASSUME NEW id, NEW len, NEW width \in 3 .. 4, NEW points, NEW n \in 0 .. 3, IsSeq(points, n),
           \A k \in 1 .. n : IsSeq(points[k], width), NEW m \in Nat, m = 13 + 9 * width
    PROVE  Emitted(Trip(id, len, width, points), id, len, m)
<1> DEFINE front == <<id, len, Bool(points # << >>), 0, 1, 3, 1, Word(-2), Word(-2), 1, Len(points)>>
           tier == FlattenSeq(points)
           a == width * n
           b == 3 * width - a
           c == 2 * (1 + 3 * width)
<1>1. Trip(id, len, width, points) = front \o tier \o Zeros(3 * width - Len(tier)) \o Zeros(c)
  BY DEF Trip
<1>2. Emitted(front, id, len, 11)
  BY DEF IsSeq, Emitted
<1>3. IsSeq(tier, a)
  <2>1. width \in Nat /\ n \in Nat
    OBVIOUS
  <2>2. QED
    BY <2>1, FlattenUniform
<1>4. a \in Nat /\ b \in Nat /\ c \in Nat /\ 11 + a + b + c = m
  <2>1. width = 3 \/ width = 4
    OBVIOUS
  <2>2. n = 0 \/ n = 1 \/ n = 2 \/ n = 3
    OBVIOUS
  <2>3. QED
    BY <2>1, <2>2
<1>5. 3 * width - Len(tier) = b
  BY <1>3 DEF IsSeq
<1> HIDE DEF front, tier, a, b, c
<1>6. IsSeq(Zeros(b), b) /\ IsSeq(Zeros(c), c)
  BY <1>4, RepeatWidth DEF Zeros
<1> DEFINE t1 == front \o tier
           t2 == t1 \o Zeros(b)
           t3 == t2 \o Zeros(c)
           m1 == 11 + a
           m2 == 11 + a + b
<1>7. m1 \in Nat /\ m2 \in Nat /\ m1 = 11 + a /\ m2 = m1 + b /\ m = m2 + c
  BY <1>4
<1> HIDE DEF m1, m2
<1>8. Emitted(t1, id, len, m1)
  BY <1>2, <1>3, <1>4, <1>7, EmittedOn
<1> HIDE DEF t1
<1>9. Emitted(t2, id, len, m2)
  BY <1>4, <1>6, <1>7, <1>8, EmittedOn
<1> HIDE DEF t2
<1>10. Emitted(t3, id, len, m)
  BY <1>4, <1>6, <1>7, <1>9, EmittedOn
<1>11. Trip(id, len, width, points) = t3
  BY <1>1, <1>5 DEF t1, t2
<1> HIDE DEF t3
<1>12. QED
  BY <1>10, <1>11

\* The registers of the four trip models, one behind the other.
FourTrips(trips, lv, hv, lf, hf) ==
    /\ trips = ((lv \o hv) \o lf) \o hf
    /\ Emitted(lv, 707, 38, 40) /\ Emitted(hv, 708, 38, 40)
    /\ Emitted(lf, 709, 47, 49) /\ Emitted(hf, 710, 47, 49)

\* The points of a curve as registers: of voltages, and of frequencies.
Percents(row, volt, curve) ==
    LET ps == TripPoints(row, curve)
    IN  [k \in DOMAIN ps |-> <<PctOfVNom(ps[k].val, volt)>> \o Acc32(ps[k].tms)]
Hertz(row, curve) ==
    LET ps == TripPoints(row, curve)
    IN  [k \in DOMAIN ps |-> Acc32(ps[k].val) \o Acc32(ps[k].tms)]

\* What the four hold.
TripsOf(row, volt, lv, hv, lf, hf) ==
    /\ lv = Trip(707, 38, 3, Percents(row, volt, "LV"))
    /\ hv = Trip(708, 38, 3, Percents(row, volt, "HV"))
    /\ lf = Trip(709, 47, 4, Hertz(row, "LF"))
    /\ hf = Trip(710, 47, 4, Hertz(row, "HF"))

\* They are what Trips emits, for any row and voltage.
LEMMA TripsAre ==
    ASSUME NEW row, NEW volt
    PROVE  \E lv, hv, lf, hf : /\ FourTrips(Trips(row, volt), lv, hv, lf, hf)
                               /\ TripsOf(row, volt, lv, hv, lf, hf)
<1> DEFINE percents(curve) == Percents(row, volt, curve)
           hertz(curve) == Hertz(row, curve)
<1>1. ASSUME NEW curve \in {"LV", "HV", "LF", "HF"}
      PROVE  /\ \E n \in 0 .. 3 : IsSeq(percents(curve), n) /\ \A k \in 1 .. n : IsSeq(percents(curve)[k], 3)
             /\ \E n \in 0 .. 3 : IsSeq(hertz(curve), n) /\ \A k \in 1 .. n : IsSeq(hertz(curve)[k], 4)
  <2> DEFINE pct(p) == <<PctOfVNom(p.val, volt)>> \o Acc32(p.tms)
             hz(p) == Acc32(p.val) \o Acc32(p.tms)
             ps == TripPoints(row, curve)
  <2>1. PICK n \in 0 .. 3 : IsSeq(ps, n)
    BY TripPointsWidth
  <2>2. DOMAIN ps = 1 .. n
    BY <2>1 DEF IsSeq
  <2>3. \A p : IsSeq(pct(p), 3)
    BY DEF Acc32, IsSeq
  <2>4. \A p : IsSeq(hz(p), 4)
    BY DEF Acc32, IsSeq
  <2> HIDE DEF pct, hz, ps
  <2>5. percents(curve) = [k \in 1 .. n |-> pct(ps[k])]
    BY <2>2 DEF pct, ps, Percents
  <2>6. hertz(curve) = [k \in 1 .. n |-> hz(ps[k])]
    BY <2>2 DEF hz, ps, Hertz
  <2> HIDE DEF percents, hertz
  <2>7. IsSeq(percents(curve), n) /\ IsSeq(hertz(curve), n)
    BY <2>5, <2>6 DEF IsSeq
  <2>8. QED
    BY <2>3, <2>4, <2>5, <2>6, <2>7
<1> DEFINE t1 == Trip(707, 38, 3, percents("LV"))
           t2 == Trip(708, 38, 3, percents("HV"))
           t3 == Trip(709, 47, 4, hertz("LF"))
           t4 == Trip(710, 47, 4, hertz("HF"))
<1>2. Trips(row, volt) = ((t1 \o t2) \o t3) \o t4
  BY DEF Trips, Percents, Hertz
<1>6. TripsOf(row, volt, t1, t2, t3, t4)
  BY DEF TripsOf
<1> HIDE DEF percents, hertz
<1>3. Emitted(t1, 707, 38, 40) /\ Emitted(t2, 708, 38, 40)
  BY <1>1, TripIs
<1>4. Emitted(t3, 709, 47, 49) /\ Emitted(t4, 710, 47, 49)
  BY <1>1, TripIs
<1> HIDE DEF t1, t2, t3, t4
<1>5. FourTrips(Trips(row, volt), t1, t2, t3, t4)
  BY <1>2, <1>3, <1>4 DEF FourTrips
<1>7. QED
  BY <1>5, <1>6

\* Associative for the widths of the last two trip models,
LEMMA LastTrip ==
    ASSUME NEW a, NEW n \in Nat, IsSeq(a, n), NEW b, IsSeq(b, 129), NEW c, IsSeq(c, 49)
    PROVE  a \o (b \o c) = (a \o b) \o c
BY Associative

\* and for a bank that all four are laid in.
LEMMA AfterTrips ==
    ASSUME NEW a, NEW n \in Nat, IsSeq(a, n), NEW trips, NEW lv, NEW hv, NEW lf, NEW hf,
           FourTrips(trips, lv, hv, lf, hf)
    PROVE  a \o trips = (((a \o lv) \o hv) \o lf) \o hf
<1>1. IsSeq(lv, 40) /\ IsSeq(hv, 40) /\ IsSeq(lf, 49) /\ IsSeq(hf, 49)
  BY DEF FourTrips, Emitted
<1> DEFINE b2 == lv \o hv
           b3 == b2 \o lf
<1>2. IsSeq(b2, 80)
  <2>1. Concatenated(b2, lv, 40, hv, 40)
    BY <1>1, ConcatIs
  <2>2. QED
    BY <2>1 DEF Concatenated
<1>3. a \o b2 = (a \o lv) \o hv
  BY <1>1, Associative
<1> HIDE DEF b2
<1>4. IsSeq(b3, 129)
  <2>1. Concatenated(b3, b2, 80, lf, 49)
    BY <1>1, <1>2, ConcatIs
  <2>2. QED
    BY <2>1 DEF Concatenated
<1>5. a \o b3 = (a \o b2) \o lf
  BY <1>1, <1>2, Associative
<1> HIDE DEF b3
<1>6. a \o (b3 \o hf) = (a \o b3) \o hf
  BY <1>1, <1>4, LastTrip
<1>7. QED
  BY <1>3, <1>5, <1>6 DEF b2, b3, FourTrips

----------------------------------------------------------------------------
(* Banks.                                                                  *)

\* A bank of k models that have k different IDs.
Chained(bank, ids, at, k) ==
    /\ Ended(bank, ids, at, k)
    /\ \A i, j \in 1 .. k : ids[i] = ids[j] => i = j
    /\ \A i \in 1 .. k : ids[i] # EndModelID

\* The inverter model of a fleet is 101, 102 or 103.
LEMMA PhasesAreFew ==
    ASSUME NEW s PROVE PhasesUsed(s) \in 1 .. 3
<1> DEFINE seen == {PhaseOf(s.invs[j]) : j \in Online(s.invs)}
<1>1. \A inv : PhaseOf(inv) \in 1 .. 3
  BY DEF PhaseOf
<1>2. seen \subseteq 1 .. 3
  BY <1>1
<1>3. DetectPhase(s) = IF seen = {} THEN 1 ELSE Cardinality(seen)
  BY DEF DetectPhase
<1> HIDE DEF seen
<1>4. IsFiniteSet(1 .. 3) /\ Cardinality(1 .. 3) = 3
  <2> DEFINE a == 1
             b == 3
  <2>1. a \in Int /\ b \in Int /\ ~(a > b) /\ b - a + 1 = 3
    OBVIOUS
  <2> HIDE DEF a, b
  <2>2. IsFiniteSet(a .. b) /\ Cardinality(a .. b) = 3
    BY <2>1, FS_Interval
  <2>3. QED
    BY <2>2 DEF a, b
<1>5. IsFiniteSet(seen) /\ Cardinality(seen) <= 3
  BY <1>2, <1>4, FS_Subset
<1>6. Cardinality(seen) \in Nat /\ (seen # {} => Cardinality(seen) # 0)
  BY <1>5, FS_CardinalityType, FS_EmptySet
<1>7. DetectPhase(s) \in 1 .. 3
  BY <1>3, <1>5, <1>6
<1>8. QED
  BY <1>7, OptionAssumption DEF PhasesUsed

\* The condition under which a bank has a Model 160.
HasMPPT(invs) == Panels(invs) # << >> /\ ~DisableMPPT

\* The models of a fleet's bank: 160 and 64202 are there or not.
FleetIDs(x, mppt) ==
    <<1, x, x + 10, 114, 120, 121, 123, 707, 708, 709, 710, 703, 711, 134,
      IF mppt THEN 160 ELSE 64202, 64202>>

\* Where they stand in the bank of n inverters with p panels.
FleetPlaces(p, n, mppt) ==
    LET beyond == 40611 + IF mppt THEN 10 + 20 * p ELSE 18 + 10 * n
    IN  <<40002, 40070, 40122, 40184, 40234, 40262, 40294, 40320, 40360, 40400, 40449,
          40498, 40517, 40541, 40611, beyond, beyond + 18 + 10 * n>>

\* How many they are.
FleetCount(mppt, some) == 14 + (IF mppt THEN 1 ELSE 0) + (IF some THEN 1 ELSE 0)

\* A bank with this chain of these models.
IsFleetBank(bank, models, s, p, n, pick, outcome) ==
    LET mppt == HasMPPT(s.invs)
        at == FleetPlaces(p, n, mppt)
        count == FleetCount(mppt, s.invs # << >>)
    IN  /\ Filled(bank, models, at, count)
        /\ Chained(bank, FleetIDs(100 + PhasesUsed(s), mppt), at, count)
        /\ models[2] = InverterModel(FleetMeasure(s))
        /\ models[3] = InverterFloat(FleetMeasure(s))
        /\ models[4] = DCData(Panels(s.invs), Float(0))
        /\ models[6] = BasicSettings(s, pick.vref)
        /\ models[7] = FleetControls(s)
        /\ TripsOf(pick.trips, s.volt, models[8], models[9], models[10], models[11])
        /\ models[13] = FreqDroop(pick.droop, outcome)
        /\ models[14] = FreqWattCurve(pick.curve)
        /\ mppt => models[15] = MultiMPPT(Panels(s.invs))

\* Encode emits this chain, for any snapshot of at most 254 inverters: the
\* bank still ends on a 16-bit address.
LEMMA FleetIsChained ==
    ASSUME NEW s, NEW n \in Nat, n <= 254, IsSeq(s.invs, n),
           NEW p \in Nat, p <= 4 * n, IsSeq(Panels(s.invs), p), NEW pick, NEW outcome
    PROVE  \E models : IsFleetBank(Encode(s, pick, outcome), models, s, p, n, pick, outcome)
<1> DEFINE m == FleetMeasure(s)
           mppt == HasMPPT(s.invs)
           some == s.invs # << >>
           x == 100 + PhasesUsed(s)
           ids == FleetIDs(x, mppt)
           at == FleetPlaces(p, n, mppt)
<1>1. /\ ids[1] = 1 /\ ids[2] = x /\ ids[3] = x + 10 /\ ids[4] = 114 /\ ids[5] = 120
      /\ ids[6] = 121 /\ ids[7] = 123 /\ ids[8] = 707 /\ ids[9] = 708 /\ ids[10] = 709
      /\ ids[11] = 710 /\ ids[12] = 703 /\ ids[13] = 711 /\ ids[14] = 134
      /\ ids[15] = (IF mppt THEN 160 ELSE 64202) /\ ids[16] = 64202
  <2> HIDE DEF x, mppt
  <2>1. QED
    BY DEF FleetIDs
<1>2. /\ at[1] = 40002 /\ at[2] = 40070 /\ at[3] = 40122 /\ at[4] = 40184 /\ at[5] = 40234
      /\ at[6] = 40262 /\ at[7] = 40294 /\ at[8] = 40320 /\ at[9] = 40360 /\ at[10] = 40400
      /\ at[11] = 40449 /\ at[12] = 40498 /\ at[13] = 40517 /\ at[14] = 40541 /\ at[15] = 40611
      /\ at[16] = 40611 + (IF mppt THEN 10 + 20 * p ELSE 18 + 10 * n)
      /\ at[17] = at[16] + 18 + 10 * n
  <2> HIDE DEF mppt
  <2>1. QED
    BY DEF FleetPlaces
<1>3. x \in 101 .. 103
  BY PhasesAreFew
<1>4. 100 + m.phases = x /\ 110 + m.phases = x + 10 /\ IsSeq(m.hzFloat, 2)
  <2>1. m.phases = PhasesUsed(s) /\ m.hzFloat = Float(Round(s.freq.sum, s.freq.n))
    BY DEF FleetMeasure
  <2>2. IsSeq(m.hzFloat, 2)
    BY <2>1, FloatWidth
  <2>3. PhasesUsed(s) \in 1 .. 3
    BY PhasesAreFew
  <2> HIDE DEF m
  <2>4. QED
    BY <2>1, <2>2, <2>3
<1> DEFINE t1 == Common(0, 1)
           t2 == InverterModel(m)
           t3 == InverterFloat(m)
           t4 == DCData(Panels(s.invs), Float(0))
           t5 == FleetNameplate(s)
           t6 == BasicSettings(s, pick.vref)
           t7 == FleetControls(s)
           t12 == EnterService(pick.enter, s.volt)
           t13 == FreqDroop(pick.droop, outcome)
           t14 == FreqWattCurve(pick.curve)
           t15 == MultiMPPT(Panels(s.invs))
           t16 == Vendor(s)
           b0 == <<21365, 28243>>
           b1 == b0 \o t1
           b2 == b1 \o t2
           b3 == b2 \o t3
           b4 == b3 \o t4
           b5 == b4 \o t5
           b6 == b5 \o t6
           b7 == b6 \o t7
           trips == Trips(pick.trips, s.volt)
<1>5. PICK t8, t9, t10, t11 : /\ FourTrips(trips, t8, t9, t10, t11)
                              /\ TripsOf(pick.trips, s.volt, t8, t9, t10, t11)
  BY TripsAre
<1> DEFINE b8 == b7 \o t8
           b9 == b8 \o t9
           b10 == b9 \o t10
           b11 == b10 \o t11
           b12 == b11 \o t12
           b13 == b12 \o t13
           b14 == b13 \o t14
           b15 == b14 \o t15
           b16 == b15 \o t16
<1>6. Encode(s, pick, outcome) =
          (b7 \o trips) \o t12 \o t13 \o t14 \o t15 \o t16 \o <<EndModelID, 0>>
  BY DEF Encode
<1>7. Emitted(t1, 1, 66, 68) /\ Emitted(t2, x, 50, 52) /\ Emitted(t3, x + 10, 60, 62)
  <2> HIDE DEF m, x
  <2>1. QED
    BY <1>4, CommonIs, InverterModelIs, InverterFloatIs
<1>8. Emitted(t4, 114, 48, 50) /\ Emitted(t5, 120, 26, 28)
  BY DCDataIs, FloatWidth, NameplateIs DEF FleetNameplate
<1>9. /\ Emitted(t6, 121, 30, 32) /\ Emitted(t7, 123, 24, 26) /\ Emitted(t12, 703, 17, 19)
      /\ Emitted(t13, 711, 22, 24) /\ Emitted(t14, 134, 68, 70)
  BY BasicSettingsIs, FleetControlsIs, EnterServiceIs, FreqDroopIs, FreqWattCurveIs
<1>10. /\ Emitted(t8, 707, 38, 40) /\ Emitted(t9, 708, 38, 40)
       /\ Emitted(t10, 709, 47, 49) /\ Emitted(t11, 710, 47, 49)
  BY <1>5 DEF FourTrips
<1>11. mppt => Emitted(t15, 160, 8 + 20 * p, 10 + 20 * p)
  BY MultiMPPTIs DEF HasMPPT
<1>12. ~mppt => t15 = << >>
  BY DEF HasMPPT, MultiMPPT
<1>13. some => Emitted(t16, 64202, 16 + 10 * n, 18 + 10 * n)
  BY VendorIs
<1>14. ~some => t16 = << >>
  BY DEF Vendor
<1> DEFINE models == <<t1, t2, t3, t4, t5, t6, t7, t8, t9, t10, t11, t12, t13, t14,
                       IF mppt THEN t15 ELSE t16, t16>>
<1>15. /\ models[1] = t1 /\ models[2] = t2 /\ models[3] = t3 /\ models[4] = t4 /\ models[5] = t5
       /\ models[6] = t6 /\ models[7] = t7 /\ models[8] = t8 /\ models[9] = t9 /\ models[10] = t10
       /\ models[11] = t11 /\ models[12] = t12 /\ models[13] = t13 /\ models[14] = t14
       /\ models[15] = (IF mppt THEN t15 ELSE t16) /\ models[16] = t16
  <2> HIDE DEF mppt, t1, t2, t3, t4, t5, t6, t7, t12, t13, t14, t15, t16
  <2>1. QED
    OBVIOUS
<1> HIDE DEF m, mppt, some, x, ids, at, models, trips, t1, t2, t3, t4, t5, t6, t7, t12, t13, t14, t15, t16
<1>16. /\ Is(models, 1, t1) /\ Is(models, 2, t2) /\ Is(models, 3, t3) /\ Is(models, 4, t4)
       /\ Is(models, 5, t5) /\ Is(models, 6, t6) /\ Is(models, 7, t7) /\ Is(models, 8, t8)
       /\ Is(models, 9, t9) /\ Is(models, 10, t10) /\ Is(models, 11, t11) /\ Is(models, 12, t12)
       /\ Is(models, 13, t13) /\ Is(models, 14, t14)
  BY <1>15 DEF Is
<1>17. /\ Follows(at, 0, 1, 66, 68) /\ Follows(at, 1, 2, 50, 52)
       /\ Follows(at, 2, 3, 60, 62) /\ Follows(at, 3, 4, 48, 50)
       /\ Follows(at, 4, 5, 26, 28) /\ Follows(at, 5, 6, 30, 32)
       /\ Follows(at, 6, 7, 24, 26) /\ Follows(at, 7, 8, 38, 40)
       /\ Follows(at, 8, 9, 38, 40) /\ Follows(at, 9, 10, 47, 49)
       /\ Follows(at, 10, 11, 47, 49) /\ Follows(at, 11, 12, 17, 19)
       /\ Follows(at, 12, 13, 22, 24) /\ Follows(at, 13, 14, 68, 70)
  BY <1>2 DEF Follows
<1>18. Laid(b0, models, at, 0)
  BY <1>2, StartIsLaid
<1> HIDE DEF b0
<1>19. Laid(b1, models, at, 1)
  BY <1>16, <1>17, <1>7, <1>18, LayModel
<1> HIDE DEF b1
<1>20. Laid(b2, models, at, 2)
  BY <1>16, <1>17, <1>7, <1>19, LayModel
<1> HIDE DEF b2
<1>21. Laid(b3, models, at, 3)
  BY <1>16, <1>17, <1>7, <1>20, LayModel
<1> HIDE DEF b3
<1>22. Laid(b4, models, at, 4)
  BY <1>16, <1>17, <1>8, <1>21, LayModel
<1> HIDE DEF b4
<1>23. Laid(b5, models, at, 5)
  BY <1>16, <1>17, <1>8, <1>22, LayModel
<1> HIDE DEF b5
<1>24. Laid(b6, models, at, 6)
  BY <1>16, <1>17, <1>9, <1>23, LayModel
<1> HIDE DEF b6
<1>25. Laid(b7, models, at, 7)
  BY <1>16, <1>17, <1>9, <1>24, LayModel
<1> HIDE DEF b7
<1>26. b7 \o trips = b11
  <2>1. IsSeq(b7, 320)
    <3>1. at[8] - 40000 = 320 /\ IsSeq(b7, at[8] - Base)
      BY <1>2, <1>25 DEF Laid
    <3>2. QED
      BY <3>1 DEF Base
  <2> DEFINE w == 320
  <2>2. w \in Nat /\ IsSeq(b7, w)
    BY <2>1
  <2> HIDE DEF w
  <2>3. b7 \o trips = (((b7 \o t8) \o t9) \o t10) \o t11
    BY <1>5, <2>2, AfterTrips
  <2>4. QED
    BY <2>3
<1>27. Laid(b8, models, at, 8)
  BY <1>16, <1>17, <1>10, <1>25, LayModel
<1> HIDE DEF b8
<1>28. Laid(b9, models, at, 9)
  BY <1>16, <1>17, <1>10, <1>27, LayModel
<1> HIDE DEF b9
<1>29. Laid(b10, models, at, 10)
  BY <1>16, <1>17, <1>10, <1>28, LayModel
<1> HIDE DEF b10
<1>30. Laid(b11, models, at, 11)
  BY <1>16, <1>17, <1>10, <1>29, LayModel
<1> HIDE DEF b11
<1>31. Laid(b12, models, at, 12)
  BY <1>16, <1>17, <1>9, <1>30, LayModel
<1>32. Encode(s, pick, outcome) = b16 \o <<EndModelID, 0>>
  BY <1>6, <1>26
<1> HIDE DEF b12
<1>33. Laid(b13, models, at, 13)
  BY <1>16, <1>17, <1>9, <1>31, LayModel
<1> HIDE DEF b13
<1>34. Laid(b14, models, at, 14)
  BY <1>16, <1>17, <1>9, <1>33, LayModel
<1> HIDE DEF b14
<1> DEFINE m15 == 10 + 20 * p
           len15 == 8 + 20 * p
           m16 == 18 + 10 * n
           len16 == 16 + 10 * n
           k15 == IF mppt THEN 15 ELSE 14
           k16 == FleetCount(mppt, some)
<1>35. /\ m15 \in Nat /\ len15 = m15 - 2 /\ m16 \in Nat /\ len16 = m16 - 2
       /\ at[16] = 40611 + (IF mppt THEN m15 ELSE m16) /\ at[17] = at[16] + m16
       /\ m15 <= 20330 /\ m16 <= 2558
  <2>1. at[16] + 18 + 10 * n = at[16] + (18 + 10 * n)
    BY <1>2
  <2>2. QED
    BY <1>2, <2>1
<1>36. /\ mppt => Emitted(t15, 160, len15, m15)
       /\ some => Emitted(t16, 64202, len16, m16)
  BY <1>11, <1>13
<1>37. /\ k16 = IF some THEN k15 + 1 ELSE k15
       /\ k15 \in 14 .. 15 /\ k16 \in 14 .. 16
  BY DEF FleetCount
<1> HIDE DEF m15, m16, len15, len16
<1>38. Laid(b15, models, at, k15)
  <2>1. CASE mppt
    <3>1. Is(models, 15, t15)
      BY <1>15, <2>1 DEF Is
    <3>2. Follows(at, 14, 15, len15, m15)
      BY <1>2, <1>35, <2>1 DEF Follows
    <3>3. Laid(b15, models, at, 15)
      BY <3>1, <3>2, <1>34, <1>36, <2>1, LayModel
    <3>4. QED
      BY <2>1, <3>3
  <2>2. CASE ~mppt
    <3>1. IsSeq(b14, 611)
      <4>1. at[15] - 40000 = 611 /\ IsSeq(b14, at[15] - Base)
        BY <1>2, <1>34 DEF Laid
      <4>2. QED
        BY <4>1 DEF Base
    <3>2. b15 = b14
      <4>1. t15 = << >>
        BY <1>12, <2>2
      <4>2. QED
        BY <3>1, <4>1, NothingMore
    <3> HIDE DEF b15
    <3>3. QED
      BY <1>34, <2>2, <3>2
  <2>3. QED
    BY <2>1, <2>2
<1> HIDE DEF b15, k15
<1>39. Laid(b16, models, at, k16)
  <2>1. CASE some
    <3>1. models[k15 + 1] = t16 /\ at[(k15 + 1) + 1] = at[k15 + 1] + m16
      <4>1. CASE mppt
        BY <1>15, <1>2, <1>35, <4>1 DEF k15
      <4>2. CASE ~mppt
        BY <1>15, <1>2, <1>35, <4>2 DEF k15
      <4>3. QED
        BY <4>1, <4>2
    <3>2. k15 \in Nat /\ k16 \in Nat /\ k16 = k15 + 1
      BY <1>37, <2>1
    <3>3. Is(models, k16, t16) /\ at[k16 + 1] = at[k16] + m16
      BY <3>1, <3>2 DEF Is
    <3> HIDE DEF k16
    <3>4. Follows(at, k15, k16, len16, m16)
      BY <1>35, <3>2, <3>3 DEF Follows
    <3>5. QED
      BY <1>36, <1>38, <2>1, <3>3, <3>4, LayModel
  <2>2. CASE ~some
    <3>1. IsSeq(b15, at[k15 + 1] - Base)
      BY <1>38 DEF Laid
    <3>2. at[k15 + 1] - Base \in Nat
      BY <3>1 DEF IsSeq
    <3>3. b16 = b15
      BY <1>14, <2>2, <3>1, <3>2, NothingMore
    <3>4. k16 = k15
      BY <1>37, <2>2
    <3> HIDE DEF b16, k16
    <3>5. QED
      BY <1>38, <3>3, <3>4
  <2>3. QED
    BY <2>1, <2>2
<1> HIDE DEF b16, k16
<1>40. at[k16 + 1] + 2 <= 65535
  <2>1. at[15] + 2 <= 65535 /\ at[16] + 2 <= 65535 /\ at[17] + 2 <= 65535
    BY <1>2, <1>35
  <2>2. k16 = 14 \/ k16 = 15 \/ k16 = 16
    BY <1>37
  <2>3. QED
    BY <2>1, <2>2
<1> DEFINE bank == b16 \o <<EndModelID, 0>>
<1>41. Filled(bank, models, at, k16)
  BY <1>37, <1>39, <1>40, LayEnd
<1>42. \A i \in 1 .. k16 : models[i][1] = ids[i]
  <2>1. /\ t1[1] = 1 /\ t2[1] = x /\ t3[1] = x + 10 /\ t4[1] = 114 /\ t5[1] = 120
        /\ t6[1] = 121 /\ t7[1] = 123 /\ t8[1] = 707 /\ t9[1] = 708 /\ t10[1] = 709
        /\ t11[1] = 710 /\ t12[1] = 703 /\ t13[1] = 711 /\ t14[1] = 134
    BY <1>7, <1>8, <1>9, <1>10 DEF Emitted
  <2>2. \A i \in 1 .. 14 : models[i][1] = ids[i]
    BY <1>1, <1>15, <2>1
  <2>3. 15 <= k16 => models[15][1] = ids[15]
    <3>1. mppt => t15[1] = 160
      BY <1>11 DEF Emitted
    <3>2. some => t16[1] = 64202
      BY <1>13 DEF Emitted
    <3>3. 15 <= k16 => mppt \/ some
      BY <1>37 DEF k15
    <3>4. QED
      BY <1>1, <1>15, <3>1, <3>2, <3>3
  <2>4. 16 <= k16 => models[16][1] = ids[16]
    <3>1. some => t16[1] = 64202
      BY <1>13 DEF Emitted
    <3>2. 16 <= k16 => some
      BY <1>37
    <3>3. QED
      BY <1>1, <1>15, <3>1, <3>2
  <2>5. QED
    BY <1>37, <2>2, <2>3, <2>4
<1> HIDE DEF bank
<1>43. Ended(bank, ids, at, k16)
  BY <1>37, <1>41, <1>42, FilledIsEnded
<1>44. \A i, j \in 1 .. k16 : ids[i] = ids[j] => i = j
  <2>1. CASE mppt
    <3>1. \A i, j \in 1 .. 16 : ids[i] = ids[j] => i = j
      BY <1>1, <1>3, <2>1
    <3>2. QED
      BY <1>37, <3>1
  <2>2. CASE ~mppt
    <3>1. \A i, j \in 1 .. 15 : ids[i] = ids[j] => i = j
      BY <1>1, <1>3, <2>2
    <3>2. k16 \in 14 .. 15
      BY <1>37, <2>2 DEF k15
    <3>3. QED
      BY <3>1, <3>2
  <2>3. QED
    BY <2>1, <2>2
<1>45. \A i \in 1 .. k16 : ids[i] # EndModelID
  <2>1. \A i \in 1 .. 16 : ids[i] # 65535
    BY <1>1, <1>3
  <2>2. QED
    BY <1>37, <2>1 DEF EndModelID
<1>46. Chained(bank, ids, at, k16)
  BY <1>43, <1>44, <1>45 DEF Chained
<1>47. /\ models[2] = t2 /\ models[3] = t3 /\ models[4] = t4 /\ models[6] = t6
       /\ models[7] = t7 /\ models[13] = t13 /\ models[14] = t14 /\ (mppt => models[15] = t15)
       /\ TripsOf(pick.trips, s.volt, models[8], models[9], models[10], models[11])
  BY <1>5, <1>15
<1>48. IsFleetBank(bank, models, s, p, n, pick, outcome)
  BY <1>41, <1>46, <1>47
     DEF IsFleetBank, ids, at, k16, mppt, some, x, m, t2, t3, t4, t6, t7, t13, t14, t15
<1>49. QED
  BY <1>32, <1>48 DEF bank

\* The models of an inverter's bank: 160 is there or not.
UnitIDs == <<1, 101, 111, 114, 120, 123, 707, 708, 709, 710, 703, 711, 134, 160>>

\* Where they stand in the bank of an inverter with p panels.
UnitPlaces(p) ==
    <<40002, 40070, 40122, 40184, 40234, 40262, 40288, 40328, 40368, 40417,
      40466, 40485, 40509, 40579, 40589 + 20 * p>>

\* How many they are.
UnitCount(mppt) == IF mppt THEN 14 ELSE 13

\* A bank with this chain of these models.
IsUnitBank(bank, models, inv, p, row, outcome) ==
    LET count == UnitCount(HasMPPT(<<inv>>))
    IN  /\ Filled(bank, models, UnitPlaces(p), count)
        /\ Chained(bank, UnitIDs, UnitPlaces(p), count)
        /\ models[2] = InverterModel(UnitMeasure(inv))
        /\ models[3] = InverterFloat(UnitMeasure(inv))
        /\ models[4] = DCData(Panels(<<inv>>), NaN)
        /\ models[5] = Nameplate(NameplateW(inv))
        /\ models[6] = UnitControls(inv)
        /\ TripsOf(row, [sum |-> inv.vac, n |-> 1], models[7], models[8], models[9], models[10])
        /\ models[12] = FreqDroop(row, outcome)
        /\ models[13] = FreqWattCurve(row)
        /\ HasMPPT(<<inv>>) => models[14] = MultiMPPT(Panels(<<inv>>))

\* EncodePerInverterWithProtection emits this chain.
LEMMA UnitIsChained ==
    ASSUME NEW inv, NEW p \in Nat, p <= 4, IsSeq(Panels(<<inv>>), p),
           NEW unit, NEW row, NEW outcome
    PROVE  \E models : IsUnitBank(EncodePerInverter(inv, unit, row, outcome), models,
                                   inv, p, row, outcome)
<1> DEFINE m == UnitMeasure(inv)
           volt == [sum |-> inv.vac, n |-> 1]
           mppt == HasMPPT(<<inv>>)
           ids == UnitIDs
           at == UnitPlaces(p)
<1>1. /\ ids[1] = 1 /\ ids[2] = 101 /\ ids[3] = 111 /\ ids[4] = 114 /\ ids[5] = 120
      /\ ids[6] = 123 /\ ids[7] = 707 /\ ids[8] = 708 /\ ids[9] = 709
      /\ ids[10] = 710 /\ ids[11] = 703 /\ ids[12] = 711 /\ ids[13] = 134 /\ ids[14] = 160
  BY DEF UnitIDs
<1>2. /\ at[1] = 40002 /\ at[2] = 40070 /\ at[3] = 40122 /\ at[4] = 40184 /\ at[5] = 40234
      /\ at[6] = 40262 /\ at[7] = 40288 /\ at[8] = 40328 /\ at[9] = 40368 /\ at[10] = 40417
      /\ at[11] = 40466 /\ at[12] = 40485 /\ at[13] = 40509 /\ at[14] = 40579
      /\ at[15] = 40589 + 20 * p
  BY DEF UnitPlaces
<1>3. 100 + m.phases = 101 /\ 110 + m.phases = 111 /\ IsSeq(m.hzFloat, 2)
  <2>1. m.phases = 1 /\ m.hzFloat = (IF inv.freq > 0 THEN Float(inv.freq) ELSE NaN)
    BY DEF UnitMeasure
  <2>2. IsSeq(NaN, 2)
    BY DEF NaN, IsSeq
  <2>3. IsSeq(m.hzFloat, 2)
    BY <2>1, <2>2, FloatWidth
  <2> HIDE DEF m
  <2>4. QED
    BY <2>1, <2>3
<1> DEFINE t1 == Common(inv.uid, unit)
           t2 == InverterModel(m)
           t3 == InverterFloat(m)
           t4 == DCData(Panels(<<inv>>), NaN)
           t5 == Nameplate(NameplateW(inv))
           t6 == UnitControls(inv)
           t11 == EnterService(row, volt)
           t12 == FreqDroop(row, outcome)
           t13 == FreqWattCurve(row)
           t14 == MultiMPPT(Panels(<<inv>>))
           trips == Trips(row, volt)
           b0 == <<21365, 28243>>
           b1 == b0 \o t1
           b2 == b1 \o t2
           b3 == b2 \o t3
           b4 == b3 \o t4
           b5 == b4 \o t5
           b6 == b5 \o t6
<1>4. PICK t7, t8, t9, t10 : FourTrips(trips, t7, t8, t9, t10) /\ TripsOf(row, volt, t7, t8, t9, t10)
  BY TripsAre
<1> DEFINE b7 == b6 \o t7
           b8 == b7 \o t8
           b9 == b8 \o t9
           b10 == b9 \o t10
           b11 == b10 \o t11
           b12 == b11 \o t12
           b13 == b12 \o t13
           b14 == b13 \o t14
<1>5. EncodePerInverter(inv, unit, row, outcome) =
          (b6 \o trips) \o t11 \o t12 \o t13 \o t14 \o <<EndModelID, 0>>
  BY DEF EncodePerInverter
<1>6. Emitted(t1, 1, 66, 68) /\ Emitted(t2, 101, 50, 52) /\ Emitted(t3, 111, 60, 62)
  <2> HIDE DEF m
  <2>1. QED
    BY <1>3, CommonIs, InverterModelIs, InverterFloatIs
<1>7. Emitted(t4, 114, 48, 50) /\ Emitted(t5, 120, 26, 28) /\ Emitted(t6, 123, 24, 26)
  <2>1. IsSeq(NaN, 2)
    BY DEF NaN, IsSeq
  <2>2. QED
    BY <2>1, DCDataIs, NameplateIs, ControlsIs DEF UnitControls
<1>8. Emitted(t11, 703, 17, 19) /\ Emitted(t12, 711, 22, 24) /\ Emitted(t13, 134, 68, 70)
  BY EnterServiceIs, FreqDroopIs, FreqWattCurveIs
<1>9. /\ Emitted(t7, 707, 38, 40) /\ Emitted(t8, 708, 38, 40)
      /\ Emitted(t9, 709, 47, 49) /\ Emitted(t10, 710, 47, 49)
  BY <1>4 DEF FourTrips
<1>10. mppt => Emitted(t14, 160, 8 + 20 * p, 10 + 20 * p)
  BY MultiMPPTIs DEF HasMPPT
<1>11. ~mppt => t14 = << >>
  BY DEF HasMPPT, MultiMPPT
<1> DEFINE models == <<t1, t2, t3, t4, t5, t6, t7, t8, t9, t10, t11, t12, t13, t14>>
<1>12. /\ models[1] = t1 /\ models[2] = t2 /\ models[3] = t3 /\ models[4] = t4 /\ models[5] = t5
       /\ models[6] = t6 /\ models[7] = t7 /\ models[8] = t8 /\ models[9] = t9 /\ models[10] = t10
       /\ models[11] = t11 /\ models[12] = t12 /\ models[13] = t13 /\ models[14] = t14
  <2> HIDE DEF t1, t2, t3, t4, t5, t6, t11, t12, t13, t14
  <2>1. QED
    OBVIOUS
<1> HIDE DEF m, mppt, ids, at, models, trips, t1, t2, t3, t4, t5, t6, t11, t12, t13, t14
<1>13. /\ Is(models, 1, t1) /\ Is(models, 2, t2) /\ Is(models, 3, t3) /\ Is(models, 4, t4)
       /\ Is(models, 5, t5) /\ Is(models, 6, t6) /\ Is(models, 7, t7) /\ Is(models, 8, t8)
       /\ Is(models, 9, t9) /\ Is(models, 10, t10) /\ Is(models, 11, t11) /\ Is(models, 12, t12)
       /\ Is(models, 13, t13) /\ Is(models, 14, t14)
  BY <1>12 DEF Is
<1>14. /\ Follows(at, 0, 1, 66, 68) /\ Follows(at, 1, 2, 50, 52)
       /\ Follows(at, 2, 3, 60, 62) /\ Follows(at, 3, 4, 48, 50)
       /\ Follows(at, 4, 5, 26, 28) /\ Follows(at, 5, 6, 24, 26)
       /\ Follows(at, 6, 7, 38, 40) /\ Follows(at, 7, 8, 38, 40)
       /\ Follows(at, 8, 9, 47, 49) /\ Follows(at, 9, 10, 47, 49)
       /\ Follows(at, 10, 11, 17, 19) /\ Follows(at, 11, 12, 22, 24)
       /\ Follows(at, 12, 13, 68, 70)
  BY <1>2 DEF Follows
<1>15. Laid(b0, models, at, 0)
  BY <1>2, StartIsLaid
<1> HIDE DEF b0
<1>16. Laid(b1, models, at, 1)
  BY <1>13, <1>14, <1>6, <1>15, LayModel
<1> HIDE DEF b1
<1>17. Laid(b2, models, at, 2)
  BY <1>13, <1>14, <1>6, <1>16, LayModel
<1> HIDE DEF b2
<1>18. Laid(b3, models, at, 3)
  BY <1>13, <1>14, <1>6, <1>17, LayModel
<1> HIDE DEF b3
<1>19. Laid(b4, models, at, 4)
  BY <1>13, <1>14, <1>7, <1>18, LayModel
<1> HIDE DEF b4
<1>20. Laid(b5, models, at, 5)
  BY <1>13, <1>14, <1>7, <1>19, LayModel
<1> HIDE DEF b5
<1>21. Laid(b6, models, at, 6)
  BY <1>13, <1>14, <1>7, <1>20, LayModel
<1> HIDE DEF b6
<1>22. b6 \o trips = b10
  <2>1. IsSeq(b6, 288)
    <3>1. at[7] - 40000 = 288 /\ IsSeq(b6, at[7] - Base)
      BY <1>2, <1>21 DEF Laid
    <3>2. QED
      BY <3>1 DEF Base
  <2> DEFINE w == 288
  <2>2. w \in Nat /\ IsSeq(b6, w)
    BY <2>1
  <2> HIDE DEF w
  <2>3. b6 \o trips = (((b6 \o t7) \o t8) \o t9) \o t10
    BY <1>4, <2>2, AfterTrips
  <2>4. QED
    BY <2>3
<1>23. Laid(b7, models, at, 7)
  BY <1>13, <1>14, <1>9, <1>21, LayModel
<1> HIDE DEF b7
<1>24. Laid(b8, models, at, 8)
  BY <1>13, <1>14, <1>9, <1>23, LayModel
<1> HIDE DEF b8
<1>25. Laid(b9, models, at, 9)
  BY <1>13, <1>14, <1>9, <1>24, LayModel
<1> HIDE DEF b9
<1>26. Laid(b10, models, at, 10)
  BY <1>13, <1>14, <1>9, <1>25, LayModel
<1> HIDE DEF b10
<1>27. Laid(b11, models, at, 11)
  BY <1>13, <1>14, <1>8, <1>26, LayModel
<1>28. EncodePerInverter(inv, unit, row, outcome) = b14 \o <<EndModelID, 0>>
  BY <1>5, <1>22
<1> HIDE DEF b11
<1>29. Laid(b12, models, at, 12)
  BY <1>13, <1>14, <1>8, <1>27, LayModel
<1> HIDE DEF b12
<1>30. Laid(b13, models, at, 13)
  BY <1>13, <1>14, <1>8, <1>29, LayModel
<1> HIDE DEF b13
<1> DEFINE m14 == 10 + 20 * p
           len14 == 8 + 20 * p
           k14 == UnitCount(mppt)
<1>31. /\ m14 \in Nat /\ len14 = m14 - 2 /\ at[15] = at[14] + m14 /\ m14 <= 90
       /\ mppt => Emitted(t14, 160, len14, m14)
  BY <1>2, <1>10
<1>32. k14 = (IF mppt THEN 14 ELSE 13) /\ k14 \in 13 .. 14
  BY DEF UnitCount
<1> HIDE DEF m14, len14
<1>33. Laid(b14, models, at, k14)
  <2>1. CASE mppt
    <3>1. Follows(at, 13, 14, len14, m14)
      BY <1>2, <1>31 DEF Follows
    <3>2. Laid(b14, models, at, 14)
      BY <1>13, <3>1, <1>30, <1>31, <2>1, LayModel
    <3>3. QED
      BY <1>32, <2>1, <3>2
  <2>2. CASE ~mppt
    <3>1. IsSeq(b13, 579)
      <4>1. at[14] - 40000 = 579 /\ IsSeq(b13, at[14] - Base)
        BY <1>2, <1>30 DEF Laid
      <4>2. QED
        BY <4>1 DEF Base
    <3>2. b14 = b13
      <4>1. t14 = << >>
        BY <1>11, <2>2
      <4>2. QED
        BY <3>1, <4>1, NothingMore
    <3> HIDE DEF b14
    <3>3. QED
      BY <1>30, <1>32, <2>2, <3>2
  <2>3. QED
    BY <2>1, <2>2
<1> HIDE DEF b14, k14
<1>34. at[k14 + 1] + 2 <= 65535
  <2>1. at[14] + 2 <= 65535 /\ at[15] + 2 <= 65535
    BY <1>2, <1>31
  <2>2. k14 = 13 \/ k14 = 14
    BY <1>32
  <2>3. QED
    BY <2>1, <2>2
<1> DEFINE bank == b14 \o <<EndModelID, 0>>
<1>35. Filled(bank, models, at, k14)
  BY <1>32, <1>33, <1>34, LayEnd
<1>36. \A i \in 1 .. k14 : models[i][1] = ids[i]
  <2>1. /\ t1[1] = 1 /\ t2[1] = 101 /\ t3[1] = 111 /\ t4[1] = 114 /\ t5[1] = 120
        /\ t6[1] = 123 /\ t7[1] = 707 /\ t8[1] = 708 /\ t9[1] = 709
        /\ t10[1] = 710 /\ t11[1] = 703 /\ t12[1] = 711 /\ t13[1] = 134
    BY <1>6, <1>7, <1>8, <1>9 DEF Emitted
  <2>2. \A i \in 1 .. 13 : models[i][1] = ids[i]
    BY <1>1, <1>12, <2>1
  <2>3. 14 <= k14 => models[14][1] = ids[14]
    <3>1. mppt => t14[1] = 160
      BY <1>10 DEF Emitted
    <3>2. QED
      BY <1>1, <1>32, <1>12, <3>1
  <2>4. QED
    BY <1>32, <2>2, <2>3
<1> HIDE DEF bank
<1>37. Ended(bank, ids, at, k14)
  BY <1>32, <1>35, <1>36, FilledIsEnded
<1>38. \A i, j \in 1 .. k14 : ids[i] = ids[j] => i = j
  <2>1. \A i, j \in 1 .. 14 : ids[i] = ids[j] => i = j
    BY <1>1
  <2>2. QED
    BY <1>32, <2>1
<1>39. \A i \in 1 .. k14 : ids[i] # EndModelID
  <2>1. \A i \in 1 .. 14 : ids[i] # 65535
    BY <1>1
  <2>2. QED
    BY <1>32, <2>1 DEF EndModelID
<1>40. Chained(bank, ids, at, k14)
  BY <1>37, <1>38, <1>39 DEF Chained
<1>41. /\ models[2] = t2 /\ models[3] = t3 /\ models[4] = t4 /\ models[5] = t5
       /\ models[6] = t6 /\ models[12] = t12 /\ models[13] = t13 /\ (mppt => models[14] = t14)
       /\ TripsOf(row, volt, models[7], models[8], models[9], models[10])
  BY <1>4, <1>12
<1>42. IsUnitBank(bank, models, inv, p, row, outcome)
  BY <1>35, <1>40, <1>41
     DEF IsUnitBank, ids, at, k14, mppt, m, t2, t3, t4, t5, t6, t12, t13, t14
<1>43. QED
  BY <1>28, <1>42 DEF bank

\* A model of a chain is found at its place, with its length behind its ID.
LEMMA ModelPlace ==
    ASSUME NEW bank, NEW ids, NEW at, NEW n \in Nat, Chained(bank, ids, at, n), NEW k \in 1 .. n
    PROVE  /\ FindModel(bank, ids[k]) = at[k]
           /\ At(bank, at[k] + 1) = at[k + 1] - at[k] - 2
           /\ At(bank, at[k]) = ids[k]
<1>1. /\ Ended(bank, ids, at, n)
      /\ \A i, j \in 1 .. n : ids[i] = ids[j] => i = j
      /\ \A i \in 1 .. n : ids[i] # 65535
  BY DEF Chained, EndModelID
<1>2. FindModel(bank, ids[k]) = at[k]
  BY <1>1, ChainFound
<1>3. QED
  BY <1>1, <1>2 DEF Ended

\* Unit 1 reads the fleet's bank unless a unit number wraps to 1.
LEMMA FleetBank ==
    ASSUME NEW s, NEW n \in Nat, n <= 254, IsSeq(s.invs, n), NEW pick, NEW outcome
    PROVE  BuildBanks(s, pick, outcome)[1] = Encode(s, pick, outcome[1])
<1>1. DOMAIN s.invs = 1 .. n
  BY DEF IsSeq
<1>2. \A j \in 1 .. n : Unit(j) = 1 + j
  BY DEF Unit
<1>3. {j \in DOMAIN s.invs : Unit(j) = 1} = {}
  BY <1>1, <1>2
<1>4. QED
  BY <1>3 DEF BuildBanks

\* The protection row of an inverter.
RowShown(s, inv) == IF inv.uid \in DOMAIN s.prot THEN s.prot[inv.uid] ELSE NoRows

\* Every other unit reads the bank of its own inverter.
LEMMA UnitBank ==
    ASSUME NEW s, NEW n \in Nat, n <= 254, IsSeq(s.invs, n), NEW pick, NEW outcome,
           NEW banks, banks = BuildBanks(s, pick, outcome), NEW u \in DOMAIN banks, u # 1
    PROVE  /\ u - 1 \in 1 .. n
           /\ \E row : /\ row = RowShown(s, s.invs[u - 1])
                      /\ banks[u] = EncodePerInverter(s.invs[u - 1], u, row, outcome[u])
<1>1. DOMAIN s.invs = 1 .. n
  BY DEF IsSeq
<1>2. \A j \in 1 .. n : Unit(j) = 1 + j
  BY DEF Unit
<1>3. u \in {1} \cup {Unit(j) : j \in DOMAIN s.invs}
  BY DEF BuildBanks
<1>4. PICK i \in 1 .. n : u = 1 + i
  BY <1>1, <1>2, <1>3
<1> DEFINE mine == {j \in DOMAIN s.invs : Unit(j) = u}
<1>5. mine = {i}
  BY <1>1, <1>2, <1>4
<1>6. Max(mine) = u - 1
  BY <1>4, <1>5 DEF Max
<1>7. banks[u] =
          LET inv == s.invs[Max(mine)]
          IN  IF mine = {} THEN Encode(s, pick, outcome[1])
              ELSE EncodePerInverter(inv, u, IF inv.uid \in DOMAIN s.prot THEN s.prot[inv.uid] ELSE NoRows,
                                     outcome[u])
  BY <1>3 DEF BuildBanks
<1> HIDE DEF mine
<1>8. banks[u] = EncodePerInverter(s.invs[u - 1], u, RowShown(s, s.invs[u - 1]), outcome[u])
  BY <1>4, <1>5, <1>6, <1>7 DEF RowShown
<1>9. QED
  BY <1>4, <1>8

----------------------------------------------------------------------------
(* What some of the registers hold.                                        *)

\* Where the droop stands, and the two counters of writes.
LEMMA DroopHolds ==
    ASSUME NEW row, NEW outcome
    PROVE  /\ FreqDroop(row, outcome)[3] = Bool(Val(row, "CV") \in DroopModes)
           /\ FreqDroop(row, outcome)[4] = outcome.req
           /\ FreqDroop(row, outcome)[5] = outcome.rslt
<1> DEFINE a == Bool(Val(row, "CV") \in DroopModes)
           b == Acc32(Max({0, Val(row, "DC") - 5000}))
           c == U16(10 * Val(row, "DD"))
           t == <<711, 22, a, outcome.req, outcome.rslt, 1>> \o Zeros(2) \o NoU32
                \o <<0, Word(-2), Word(-1), 0>> \o b \o NoU32 \o <<c, 65535>> \o Zeros(4)
<1>1. FreqDroop(row, outcome) = t
  BY DEF FreqDroop
<1> HIDE DEF a, b, c
<1>2. t[3] = a /\ t[4] = outcome.req /\ t[5] = outcome.rslt
  BY DEF NoU32, NoU16, Zeros, Repeat
<1>4. QED
  BY <1>1, <1>2 DEF a

\* Where the curve's switch and its number of points stand.
LEMMA CurveHolds ==
    ASSUME NEW row
    PROVE  /\ FreqWattCurve(row)[4] = Bool(CurveEnabled(row))
           /\ FreqWattCurve(row)[13] = (IF HasCurve(row) THEN 4 ELSE 0)
<1> DEFINE a == Bool(CurveEnabled(row))
           n == IF HasCurve(row) THEN 4 ELSE 0
           hz(c) == U16(Val(row, CurveCodes[c]))
           t == <<134, 68, 1, a>> \o Zeros(3)
                \o <<1, 20, Word(-2), 0, 0, n>>
                \o <<hz(1), 0, hz(2), 100, hz(3), 100, hz(4), 0>> \o Zeros(45) \o <<100>> \o Zeros(3)
<1>1. FreqWattCurve(row) = t
  BY DEF FreqWattCurve
<1> HIDE DEF a, n, hz
<1>2. t[4] = a /\ t[13] = n
  BY DEF Zeros, Repeat
<1>4. QED
  BY <1>1, <1>2 DEF a, n

\* Where the connection, the cap and its switch stand.
LEMMA ControlsHold ==
    ASSUME NEW pct, NEW ena, NEW conn
    PROVE  /\ Controls(pct, ena, conn)[5] = conn
           /\ Controls(pct, ena, conn)[6] = pct
           /\ Controls(pct, ena, conn)[10] = ena
BY DEF Controls, NoS16, NoU16, Zeros, Repeat

\* Where the power, the state and the events stand in Models 101 to 103,
LEMMA InverterHolds ==
    ASSUME NEW m
    PROVE  /\ InverterModel(m)[15] = Word(Clamp(m.w, -32760, 32760))
           /\ InverterModel(m)[39] = m.st
           /\ \A k \in 1 .. 12 : InverterModel(m)[40 + k] = EventRegisters(m.events)[k]
<1> DEFINE p == PerPhase(m, [ph \in 1 .. 3 |-> <<m.phA[ph]>>], NoU16(1))
           q == PerPhase(m, Repeat(3, <<m.v>>), NoU16(1))
           e == EventRegisters(m.events)
           w == Word(Clamp(m.w, -32760, 32760))
<1>1. IsSeq(p, 3) /\ IsSeq(q, 3)
  BY PhasesWidth
<1>2. IsSeq(e, 12)
  BY EventRegistersWidth
<1>3. PICK a, b, c : p = <<a, b, c>>
  BY <1>1, ThreeValues
<1>4. PICK d, g, h : q = <<d, g, h>>
  BY <1>1, ThreeValues
<1>5. InverterModel(m) = InverterFront(m, p, q) \o e
  BY DEF InverterModel, InverterFront
<1>6. /\ IsSeq(InverterFront(m, <<a, b, c>>, <<d, g, h>>), 40)
      /\ InverterFront(m, <<a, b, c>>, <<d, g, h>>)[15] = w
      /\ InverterFront(m, <<a, b, c>>, <<d, g, h>>)[39] = m.st
  <2> DEFINE temp == Word(Clamp(m.temp, -100, 200))
             t == <<100 + m.phases, 50, m.a>> \o <<a, b, c>> \o <<Word(-1)>>
                  \o NoU16(3) \o <<d, g, h>> \o <<0>>
                  \o <<w, 0, m.hz, Word(-2)>>
                  \o <<32768, 0, 32768, 0, 32768, 0>> \o Zeros(3)
                  \o <<65535, 0, 65535, 0, 32768, 0>>
                  \o <<temp>> \o NoS16(3) \o <<0, m.st, 0>>
  <2>1. InverterFront(m, <<a, b, c>>, <<d, g, h>>) = t
    BY DEF InverterFront
  <2> HIDE DEF w, temp
  <2>2. IsSeq(t, 40) /\ t[15] = w /\ t[39] = m.st
    BY DEF NoU16, NoS16, Zeros, Repeat, IsSeq
  <2> HIDE DEF t
  <2>3. QED
    BY <2>1, <2>2
<1> DEFINE front == InverterFront(m, p, q)
<1> HIDE DEF p, q, e, w
<1>7. IsSeq(front, 40) /\ front[15] = w /\ front[39] = m.st
  BY <1>3, <1>4, <1>6
<1> HIDE DEF front
<1>8. Concatenated(front \o e, front, 40, e, 12)
  BY <1>2, <1>7, ConcatIs
<1>9. InverterModel(m) = front \o e
  BY <1>5 DEF front
<1> DEFINE all == front \o e
<1>10. /\ \A i \in 1 .. 40 : all[i] = front[i]
       /\ \A k \in 1 .. 12 : all[40 + k] = e[k]
  BY <1>8 DEF Concatenated
<1> HIDE DEF all
<1>11. all[15] = w /\ all[39] = m.st
  BY <1>7, <1>10
<1>12. InverterModel(m) = all
  BY <1>9 DEF all
<1>13. QED
  BY <1>10, <1>11, <1>12 DEF w, e

\* and where the state stands in Models 111 to 113.
LEMMA InverterFloatHolds ==
    ASSUME NEW m, IsSeq(m.hzFloat, 2) PROVE InverterFloat(m)[49] = m.st
<1> DEFINE p == PerPhase(m, [ph \in 1 .. 3 |-> Float(m.phA[ph])], NaN)
           q == PerPhase(m, Repeat(3, Float(m.v)), NaN)
           e == EventRegisters(m.events)
           x == NaNs(3)
           h == m.hzFloat
<1>1. IsSeq(p, 6) /\ IsSeq(q, 6)
  BY FloatPhasesWidth
<1>2. IsSeq(e, 12) /\ IsSeq(x, 6)
  BY EventRegistersWidth, NaNsWidth
<1>3. PICK p1, p2, p3, p4, p5, p6 : p = <<p1, p2, p3, p4, p5, p6>>
  BY <1>1, SixValues
<1>4. PICK q1, q2, q3, q4, q5, q6 : q = <<q1, q2, q3, q4, q5, q6>>
  BY <1>1, SixValues
<1>5. PICK x1, x2, x3, x4, x5, x6 : x = <<x1, x2, x3, x4, x5, x6>>
  BY <1>2, SixValues
<1>6. PICK h1, h2 : h = <<h1, h2>>
  <2>1. h = <<h[1], h[2]>>
    BY DEF IsSeq
  <2>2. QED
    BY <2>1
<1>7. InverterFloat(m) = InverterFloatFront(m, p, q, h, x) \o e
  BY DEF InverterFloat, InverterFloatFront
<1> DEFINE f == InverterFloatFront(m, <<p1, p2, p3, p4, p5, p6>>, <<q1, q2, q3, q4, q5, q6>>,
                                   <<h1, h2>>, <<x1, x2, x3, x4, x5, x6>>)
<1>8. IsSeq(f, 50) /\ f[49] = m.st
  BY DEF InverterFloatFront, Float, Acc32, IsSeq
<1> DEFINE front == InverterFloatFront(m, p, q, h, x)
<1>9. front = f
  <2> HIDE DEF p, q, h, x
  <2>1. QED
    BY <1>3, <1>4, <1>5, <1>6
<1> HIDE DEF p, q, h, x, e, f, front
<1>10. Concatenated(front \o e, front, 50, e, 12)
  BY <1>2, <1>8, <1>9, ConcatIs
<1> DEFINE all == front \o e
<1>11. \A i \in 1 .. 50 : all[i] = front[i]
  BY <1>10 DEF Concatenated
<1> HIDE DEF all
<1>12. all[49] = m.st
  BY <1>8, <1>9, <1>11
<1>13. InverterFloat(m) = all
  BY <1>7 DEF all, front, e
<1>14. QED
  BY <1>12, <1>13

\* The rating in Model 120
LEMMA NameplateHolds ==
    ASSUME NEW w PROVE Nameplate(w)[4] = U16(w)
<1> DEFINE a == U16(w)
           b == Round(10 * w, 230)
           t == <<120, 26, 4, a, 0, a, 0>> \o NoS16(4) \o <<0, b, Word(-1)>>
                \o Repeat(4, 1000) \o <<Word(-3), 65535, 0, 65535, 0, 65535, 0, 65535, 0, 0>>
<1>1. Nameplate(w) = t
  BY DEF Nameplate
<1> HIDE DEF a, b
<1>2. t[4] = a
  BY DEF NoS16, Repeat
<1> HIDE DEF t
<1>3. QED
  BY <1>1, <1>2 DEF a

\* and WMax in Model 121.
LEMMA SettingsHold ==
    ASSUME NEW s, NEW vref
    PROVE  BasicSettings(s, vref)[3] =
               (IF TotalLimitedW(s) > 0 /\ TotalLimitedW(s) <= 65535 THEN TotalLimitedW(s) ELSE 65535)
<1>1. \A a, b : SettingsOf(a, b)[3] = a
  BY DEF SettingsOf, NoS16, NoU16, Zeros, Repeat
<1> DEFINE w == TotalLimitedW(s)
           a == IF w > 0 /\ w <= 65535 THEN w ELSE 65535
           b == IF vref > 0 /\ vref < 65535 THEN vref ELSE 65535
<1>2. BasicSettings(s, vref) = SettingsOf(a, b)
  BY DEF BasicSettings, SettingsOf
<1> HIDE DEF a, b
<1>3. BasicSettings(s, vref)[3] = a
  BY <1>1, <1>2
<1>4. QED
  BY <1>3 DEF a

----------------------------------------------------------------------------
(* Sums.                                                                   *)

\* The recursion equation of Total.
Totals(v, f, n) == f = [k \in 0 .. n |-> IF k = 0 THEN 0 ELSE f[k - 1] + v[k]]

\* The equation has a solution, by induction on n.
LEMMA TotalsExists ==
    ASSUME NEW v, NEW n \in Nat PROVE \E f : Totals(v, f, n)
<1> DEFINE T == {m \in Nat : \E f : Totals(v, f, m)}
<1>1. 0 \in T
  <2>1. Totals(v, [k \in 0 .. 0 |-> 0], 0)
    BY DEF Totals
  <2>2. QED
    BY <2>1
<1>2. ASSUME NEW m \in Nat, m \in T PROVE m + 1 \in T
  <2>1. PICK f : Totals(v, f, m)
    BY <1>2
  <2> DEFINE next == f[m] + v[m + 1]
             g == [k \in 0 .. m + 1 |-> IF k = m + 1 THEN next ELSE f[k]]
  <2>2. ASSUME NEW k \in 0 .. m + 1
        PROVE  g[k] = IF k = 0 THEN 0 ELSE g[k - 1] + v[k]
    <3>1. CASE k = m + 1
      <4>1. k # 0 /\ k - 1 = m /\ k - 1 # m + 1 /\ m \in 0 .. m + 1
        BY <3>1
      <4>2. g[k] = next /\ g[k - 1] = f[m]
        BY <3>1, <4>1
      <4>3. QED
        BY <3>1, <4>1, <4>2
    <3>2. CASE k \in 0 .. m
      <4>1. f[k] = IF k = 0 THEN 0 ELSE f[k - 1] + v[k]
        BY <2>1, <3>2 DEF Totals
      <4>2. g[k] = f[k] /\ (k # 0 => g[k - 1] = f[k - 1])
        BY <3>2
      <4>3. QED
        BY <4>1, <4>2
    <3>3. QED
      BY <3>1, <3>2
  <2>3. Totals(v, g, m + 1)
    BY <2>2 DEF Totals
  <2>4. QED
    BY <2>3
<1>3. QED
  BY <1>1, <1>2, AllNat

\* Total is what a solution holds at the end.
LEMMA TotalIs ==
    ASSUME NEW v, NEW n \in Nat, IsSeq(v, n)
    PROVE  \E f : Totals(v, f, n) /\ Total(v) = f[n]
<1> DEFINE f == CHOOSE f : Totals(v, f, n)
<1>1. Totals(v, f, n)
  BY TotalsExists
<1>2. Len(v) = n
  BY DEF IsSeq
<1>3. Total(v) = f[n]
  BY <1>2 DEF Total, Totals
<1>4. QED
  BY <1>1, <1>3

\* n numbers up to b add up to no more than b * n, and to that only if each is b.
LEMMA TotalBounded ==
    ASSUME NEW v, NEW n \in Nat, IsSeq(v, n), NEW b \in Nat, \A j \in 1 .. n : v[j] \in 0 .. b
    PROVE  /\ Total(v) \in 0 .. b * n
           /\ (Total(v) = b * n) <=> (\A j \in 1 .. n : v[j] = b)
<1>1. PICK f : Totals(v, f, n) /\ Total(v) = f[n]
  BY TotalIs
<1> DEFINE Good(k) == /\ f[k] \in 0 .. b * k
                      /\ (f[k] = b * k) <=> (\A j \in 1 .. k : v[j] = b)
           T == {k \in Nat : k \in 0 .. n => Good(k)}
<1>2. 0 \in T
  <2>1. f[0] = 0
    BY <1>1 DEF Totals
  <2>2. QED
    BY <2>1
<1>3. ASSUME NEW k \in Nat, k \in T, k + 1 \in 0 .. n PROVE Good(k + 1)
  <2>1. Good(k) /\ k + 1 \in 1 .. n
    BY <1>3
  <2>2. f[k + 1] = f[k] + v[k + 1]
    <3>1. f[k + 1] = IF k + 1 = 0 THEN 0 ELSE f[(k + 1) - 1] + v[k + 1]
      BY <1>1, <1>3 DEF Totals
    <3>2. k + 1 # 0 /\ (k + 1) - 1 = k
      OBVIOUS
    <3>3. QED
      BY <3>1, <3>2
  <2> DEFINE c == b * k
             d == b * (k + 1)
             x == f[k]
             y == v[k + 1]
             z == f[k + 1]
  <2>3. c \in Nat /\ d = c + b /\ x \in 0 .. c /\ y \in 0 .. b /\ z = x + y
    BY <2>1, <2>2
  <2>4. (x = c) <=> (\A j \in 1 .. k : v[j] = b)
    BY <2>1
  <2>5. (\A j \in 1 .. k + 1 : v[j] = b) <=> (\A j \in 1 .. k : v[j] = b) /\ y = b
    <3>1. 1 .. k + 1 = (1 .. k) \cup {k + 1}
      OBVIOUS
    <3>2. QED
      BY <3>1
  <2> HIDE DEF c, d, x, y, z
  <2>6. z \in 0 .. d /\ ((z = d) <=> (x = c /\ y = b))
    BY <2>3
  <2>7. z \in 0 .. d /\ ((z = d) <=> (\A j \in 1 .. k + 1 : v[j] = b))
    BY <2>4, <2>5, <2>6
  <2>8. QED
    BY <2>7 DEF z, d
<1>4. Nat \subseteq T
  <2>1. \A k \in Nat : k \in T => k + 1 \in T
    BY <1>3
  <2> HIDE DEF T
  <2>2. QED
    BY <1>2, <2>1, AllNat
<1>5. QED
  BY <1>1, <1>4

\* Induction over two sums at once, for a set of their partial sums.
LEMMA TotalsTogether ==
    ASSUME NEW v, NEW w, NEW n \in Nat, IsSeq(v, n), IsSeq(w, n), NEW S, <<0, 0, 0>> \in S,
           \A k \in 0 .. n - 1 : \A x, y :
               <<k, x, y>> \in S => <<k + 1, x + v[k + 1], y + w[k + 1]>> \in S
    PROVE  <<n, Total(v), Total(w)>> \in S
<1>1. PICK f : Totals(v, f, n) /\ Total(v) = f[n]
  BY TotalIs
<1>2. PICK g : Totals(w, g, n) /\ Total(w) = g[n]
  BY TotalIs
<1> DEFINE T == {k \in Nat : k \in 0 .. n => <<k, f[k], g[k]>> \in S}
<1>3. 0 \in T
  BY <1>1, <1>2 DEF Totals
<1>4. ASSUME NEW k \in Nat, k \in T, k + 1 \in 0 .. n PROVE <<k + 1, f[k + 1], g[k + 1]>> \in S
  <2>1. k \in 0 .. n - 1 /\ <<k, f[k], g[k]>> \in S
    BY <1>4
  <2>2. k + 1 # 0 /\ (k + 1) - 1 = k
    OBVIOUS
  <2>3. f[k + 1] = f[k] + v[k + 1]
    <3>1. f[k + 1] = IF k + 1 = 0 THEN 0 ELSE f[(k + 1) - 1] + v[k + 1]
      BY <1>1, <1>4 DEF Totals
    <3>2. QED
      BY <2>2, <3>1
  <2>4. g[k + 1] = g[k] + w[k + 1]
    <3>1. g[k + 1] = IF k + 1 = 0 THEN 0 ELSE g[(k + 1) - 1] + w[k + 1]
      BY <1>2, <1>4 DEF Totals
    <3>2. QED
      BY <2>2, <3>1
  <2>5. <<k + 1, f[k] + v[k + 1], g[k] + w[k + 1]>> \in S
    BY <2>1
  <2>6. QED
    BY <2>3, <2>4, <2>5
<1>5. Nat \subseteq T
  <2>1. \A k \in Nat : k \in T => k + 1 \in T
    BY <1>4
  <2> HIDE DEF T
  <2>2. QED
    BY <1>3, <2>1, AllNat
<1>6. <<n, f[n], g[n]>> \in S
  BY <1>5
<1>7. QED
  BY <1>1, <1>2, <1>6

\* A sum of numbers is a number, and positive just if one of them is.
LEMMA TotalPositive ==
    ASSUME NEW v, NEW n \in Nat, IsSeq(v, n), \A j \in 1 .. n : v[j] \in Nat
    PROVE  /\ Total(v) \in Nat
           /\ Total(v) > 0 <=> (\E j \in 1 .. n : v[j] > 0)
<1> DEFINE S == {t \in Nat \X Nat \X Nat : t[2] > 0 <=> (\E j \in 1 .. t[1] : v[j] > 0)}
<1>1. <<0, 0, 0>> \in S
  OBVIOUS
<1>2. ASSUME NEW k \in 0 .. n - 1, NEW x, NEW y, <<k, x, y>> \in S
      PROVE  <<k + 1, x + v[k + 1], y + v[k + 1]>> \in S
  <2>1. /\ k \in Nat /\ x \in Nat /\ y \in Nat
        /\ x > 0 <=> (\E j \in 1 .. k : v[j] > 0)
    BY <1>2
  <2>2. v[k + 1] \in Nat
    OBVIOUS
  <2>3. x + v[k + 1] > 0 <=> x > 0 \/ v[k + 1] > 0
    BY <2>1, <2>2
  <2>4. (\E j \in 1 .. k + 1 : v[j] > 0) <=> (\E j \in 1 .. k : v[j] > 0) \/ v[k + 1] > 0
    <3>1. 1 .. k + 1 = (1 .. k) \cup {k + 1}
      OBVIOUS
    <3>2. QED
      BY <3>1
  <2>5. k + 1 \in Nat /\ x + v[k + 1] \in Nat /\ y + v[k + 1] \in Nat
    BY <2>1, <2>2
  <2>6. QED
    BY <2>1, <2>3, <2>4, <2>5
<1> HIDE DEF S
<1>3. <<n, Total(v), Total(v)>> \in S
  BY <1>1, <1>2, TotalsTogether
<1>4. QED
  BY <1>3 DEF S

\* Larger terms, larger sum.
LEMMA TotalOrder ==
    ASSUME NEW v, NEW w, NEW n \in Nat, IsSeq(v, n), IsSeq(w, n),
           \A j \in 1 .. n : v[j] \in Nat /\ w[j] \in Nat /\ v[j] <= w[j]
    PROVE  Total(v) \in Nat /\ Total(w) \in Nat /\ Total(v) <= Total(w)
<1> DEFINE S == {t \in Nat \X Nat \X Nat : t[2] <= t[3]}
<1>1. <<0, 0, 0>> \in S
  OBVIOUS
<1>2. ASSUME NEW k \in 0 .. n - 1, NEW x, NEW y, <<k, x, y>> \in S
      PROVE  <<k + 1, x + v[k + 1], y + w[k + 1]>> \in S
  <2>1. k \in Nat /\ x \in Nat /\ y \in Nat /\ x <= y
    BY <1>2
  <2>2. v[k + 1] \in Nat /\ w[k + 1] \in Nat /\ v[k + 1] <= w[k + 1]
    OBVIOUS
  <2>3. /\ k + 1 \in Nat /\ x + v[k + 1] \in Nat /\ y + w[k + 1] \in Nat
        /\ x + v[k + 1] <= y + w[k + 1]
    BY <2>1, <2>2
  <2>4. QED
    BY <2>3
<1> HIDE DEF S
<1>3. <<n, Total(v), Total(w)>> \in S
  BY <1>1, <1>2, TotalsTogether
<1>4. QED
  BY <1>3 DEF S

\* A common factor.
LEMMA TotalTimes ==
    ASSUME NEW v, NEW w, NEW n \in Nat, IsSeq(v, n), IsSeq(w, n), NEW c \in Nat,
           \A j \in 1 .. n : v[j] \in Nat /\ w[j] = c * v[j]
    PROVE  Total(v) \in Nat /\ Total(w) = c * Total(v)
<1> DEFINE S == {t \in Nat \X Nat \X Nat : t[3] = c * t[2]}
<1>1. <<0, 0, 0>> \in S
  OBVIOUS
<1>2. ASSUME NEW k \in 0 .. n - 1, NEW x, NEW y, <<k, x, y>> \in S
      PROVE  <<k + 1, x + v[k + 1], y + w[k + 1]>> \in S
  <2>1. k \in Nat /\ x \in Nat /\ y \in Nat /\ y = c * x
    BY <1>2
  <2>2. v[k + 1] \in Nat /\ w[k + 1] = c * v[k + 1]
    OBVIOUS
  <2>3. /\ k + 1 \in Nat /\ x + v[k + 1] \in Nat /\ y + w[k + 1] \in Nat
        /\ y + w[k + 1] = c * (x + v[k + 1])
    BY <2>1, <2>2
  <2>4. QED
    BY <2>3
<1> HIDE DEF S
<1>3. <<n, Total(v), Total(w)>> \in S
  BY <1>1, <1>2, TotalsTogether
<1>4. QED
  BY <1>3 DEF S

\* Sequences of several widths, one after the other: the width is the sum, and
\* the values are theirs.
LEMMA FlattenTotal ==
    ASSUME NEW seqs, NEW n \in Nat, IsSeq(seqs, n), NEW l, IsSeq(l, n),
           \A j \in 1 .. n : IsSeq(seqs[j], l[j]),
           NEW S, \A j \in 1 .. n : \A i \in 1 .. l[j] : seqs[j][i] \in S
    PROVE  /\ IsSeq(FlattenSeq(seqs), Total(l))
           /\ \A i \in 1 .. Total(l) : FlattenSeq(seqs)[i] \in S
<1>1. PICK g : Totals(l, g, n) /\ Total(l) = g[n]
  BY TotalIs
<1>2. CASE n = 0
  <2>1. seqs = << >> /\ Total(l) = 0
    BY <1>1, <1>2 DEF IsSeq, Totals
  <2>2. FlattenSeq(seqs) = << >>
    BY <2>1 DEF FlattenSeq
  <2>3. QED
    BY <2>1, <2>2 DEF IsSeq
<1>3. CASE n # 0
  <2>1. PICK f : Flattens(seqs, f, n) /\ FlattenSeq(seqs) = f[n]
    BY <1>3, FlattenSeqIs DEF IsSeq
  <2> DEFINE Good(k) == IsSeq(f[k], g[k]) /\ \A i \in 1 .. g[k] : f[k][i] \in S
             T == {k \in Nat : k + 1 \in 1 .. n => Good(k + 1)}
  <2>2. \A k \in 1 .. n : g[k] = g[k - 1] + l[k]
    BY <1>1 DEF Totals
  <2>3. 0 \in T
    <3>1. f[1] = seqs[1]
      BY <1>3, <2>1 DEF Flattens
    <3>2. g[0] = 0 /\ l[1] \in Nat
      <4>1. g[0] = 0
        BY <1>1 DEF Totals
      <4>2. IsSeq(seqs[1], l[1])
        BY <1>3
      <4>3. l[1] \in Nat
        BY <4>2 DEF IsSeq
      <4>4. QED
        BY <4>1, <4>3
    <3>3. g[1] = l[1]
      <4>1. g[1] = g[1 - 1] + l[1]
        BY <1>3, <2>2
      <4>2. QED
        BY <3>2, <4>1
    <3>4. QED
      BY <1>3, <3>1, <3>3
  <2>4. ASSUME NEW k \in Nat, k \in T, k + 2 \in 1 .. n PROVE Good(k + 2)
    <3>1. f[k + 2] = f[k + 1] \o seqs[k + 2]
      <4>1. k + 2 # 1 /\ (k + 2) - 1 = k + 1
        OBVIOUS
      <4>2. f[k + 2] = f[(k + 2) - 1] \o seqs[k + 2]
        BY <2>1, <2>4, <4>1 DEF Flattens
      <4>3. QED
        BY <4>1, <4>2
    <3>2. Good(k + 1)
      BY <2>4
    <3>3. g[k + 2] = g[k + 1] + l[k + 2]
      <4>1. (k + 2) - 1 = k + 1
        OBVIOUS
      <4>2. QED
        BY <2>2, <2>4, <4>1
    <3> DEFINE a == g[k + 1]
               b == l[k + 2]
               s == f[k + 1]
               t == seqs[k + 2]
               u == f[k + 2]
    <3>4. /\ IsSeq(s, a) /\ IsSeq(t, b) /\ u = s \o t /\ g[k + 2] = a + b
          /\ \A i \in 1 .. a : s[i] \in S
          /\ \A i \in 1 .. b : t[i] \in S
      BY <2>4, <3>1, <3>2, <3>3
    <3> HIDE DEF a, b, s, t, u
    <3>5. a \in Nat /\ b \in Nat
      BY <3>4 DEF IsSeq
    <3>6. Concatenated(u, s, a, t, b)
      BY <3>4, <3>5, ConcatIs
    <3>7. /\ IsSeq(u, a + b)
          /\ \A i \in 1 .. a : u[i] = s[i]
          /\ \A i \in 1 .. b : u[a + i] = t[i]
      BY <3>6 DEF Concatenated
    <3>8. ASSUME NEW i \in 1 .. a + b PROVE u[i] \in S
      <4>1. CASE i \in 1 .. a
        BY <3>4, <3>7, <4>1
      <4>2. CASE i \notin 1 .. a
        <5>1. i - a \in 1 .. b /\ a + (i - a) = i
          BY <3>5, <4>2
        <5>2. u[a + (i - a)] = t[i - a]
          BY <3>7, <5>1
        <5>3. QED
          BY <3>4, <5>1, <5>2
      <4>3. QED
        BY <4>1, <4>2
    <3>9. QED
      BY <3>4, <3>7, <3>8 DEF u
  <2>5. \A k \in Nat : k \in T => k + 1 \in T
    BY <2>4
  <2>6. Nat \subseteq T
    <3> HIDE DEF T
    <3>1. QED
      BY <2>3, <2>5, AllNat
  <2>7. n - 1 \in T /\ (n - 1) + 1 = n
    <3> HIDE DEF T
    <3>1. QED
      BY <1>3, <2>6
  <2>8. Good(n)
    BY <2>7
  <2>9. QED
    BY <1>1, <2>1, <2>8
<1>4. QED
  BY <1>2, <1>3

----------------------------------------------------------------------------
(* Percentages of the rating.                                              *)

\* An inverter's rating and its panels are numbers.
LEMMA Ratings ==
    ASSUME NEW inv PROVE NameplateW(inv) \in Nat /\ PanelCount(inv) \in {0, 2, 4}
<1>1. NameplateW(inv) \in Nat
  <2>1. CASE inv.model \in DOMAIN Nameplates
    BY <2>1, NameplateAssumption DEF NameplateW
  <2>2. CASE inv.model \notin DOMAIN Nameplates
    BY <2>2 DEF NameplateW
  <2>3. QED
    BY <2>1, <2>2
<1>2. PanelCount(inv) \in {0, 2, 4}
  BY DEF PanelCount
<1>3. QED
  BY <1>1, <1>2

\* A cap in force is a number.
LEMMA CapIs ==
    ASSUME NEW inv, inv.limit \in Nat
    PROVE  /\ Cap(inv) \in Nat \ {0}
           /\ inv.limit <= 500 => Cap(inv) <= 500
BY DEF Cap, MaxPanelLimitW

\* A percentage is one.
LEMMA PctIs ==
    ASSUME NEW inv, inv.limit \in Nat PROVE InvCapPct(inv) \in 0 .. 100
<1> DEFINE np == NameplateW(inv)
           pc == PanelCount(inv)
           cap == Cap(inv)
           ceiling == Min({cap * pc, np})
<1>1. np \in Nat /\ pc \in {0, 2, 4} /\ cap \in Nat
  BY Ratings, CapIs
<1>2. InvCapPct(inv) = IF np <= 0 THEN Min({100, (cap * 100) \div 500}) ELSE (ceiling * 100) \div np
  BY DEF InvCapPct, MaxPanelLimitW
<1> HIDE DEF np, pc, cap
<1>3. cap * pc \in Nat
  BY <1>1
<1>4. CASE np <= 0
  <2> DEFINE q == (cap * 100) \div 500
  <2>1. q \in Nat
    BY <1>1
  <2> HIDE DEF q
  <2>2. Min({100, q}) = IF 100 <= q THEN 100 ELSE q
    BY <2>1, MinOfTwo
  <2>3. QED
    BY <1>1, <1>2, <1>4, <2>1, <2>2 DEF q
<1>5. CASE np > 0
  <2>1. ceiling \in Nat /\ ceiling <= np
    BY <1>1, <1>3, MinOfTwo
  <2> HIDE DEF ceiling
  <2> DEFINE a == ceiling * 100
  <2>2. a \in Nat /\ a <= np * 100
    BY <1>1, <2>1
  <2> HIDE DEF a
  <2>3. a \div np \in Nat /\ a \div np <= 100
    BY <1>1, <1>5, <2>2, Divides, NoMore
  <2>4. QED
    BY <1>2, <1>1, <1>5, <2>3 DEF a
<1>6. QED
  BY <1>1, <1>4, <1>5

\* The percentage of a rated inverter, whatever its rating.
LEMMA PctOf ==
    ASSUME NEW inv, inv.limit \in Nat, NameplateW(inv) \in 1 .. 500 * PanelCount(inv),
           NEW q \in 0 .. 100
    PROVE  /\ 5 * q <= Cap(inv) => q <= InvCapPct(inv)
           /\ InvCapPct(inv) = 100 \/ Cap(inv) < 5 * InvCapPct(inv) + 5
<1> DEFINE np == NameplateW(inv)
           pc == PanelCount(inv)
           cap == Cap(inv)
           d == cap * pc
           ceiling == Min({d, np})
           a == ceiling * 100
           pct == a \div np
<1>1. np \in Nat /\ pc \in {2, 4} /\ cap \in Nat /\ np >= 1 /\ np <= 500 * pc /\ d \in Nat
  BY Ratings, CapIs
<1>2. InvCapPct(inv) = pct
  <2>1. InvCapPct(inv) = IF np <= 0 THEN Min({100, (cap * 100) \div MaxPanelLimitW}) ELSE (ceiling * 100) \div np
    BY DEF InvCapPct
  <2> HIDE DEF ceiling, np, cap
  <2>2. QED
    BY <1>1, <2>1
<1> HIDE DEF np, pc, cap, d
<1>3. ceiling = (IF d <= np THEN d ELSE np) /\ ceiling \in Nat
  BY <1>1, MinOfTwo
<1> HIDE DEF ceiling
<1>4. a \in Nat /\ np * q \in Nat
  BY <1>1, <1>3
<1> HIDE DEF a
<1>5. 5 * q <= cap => q <= pct
  <2> SUFFICES ASSUME 5 * q <= cap PROVE q <= pct
    OBVIOUS
  <2>1. np * q <= a
    <3>1. np * q <= 100 * np
      BY <1>1
    <3>2. np * q <= 100 * d
      <4>1. np * q <= 500 * pc * q
        BY <1>1
      <4>2. 500 * pc * q <= 100 * d
        BY <1>1 DEF d
      <4>3. 500 * pc * q \in Nat
        BY <1>1
      <4>4. QED
        BY <1>1, <1>4, <4>1, <4>2, <4>3
    <3>3. QED
      BY <1>1, <1>3, <3>1, <3>2 DEF a
  <2>2. QED
    BY <1>1, <1>4, <2>1, Fitting
<1>6. pct = 100 \/ cap < 5 * pct + 5
  <2>1. CASE d > np
    <3>1. np * 100 <= a /\ a <= np * 100
      BY <1>1, <1>3, <2>1 DEF a
    <3>2. pct >= 100 /\ pct <= 100 /\ pct \in Nat
      BY <1>1, <1>4, <3>1, Fitting, NoMore, Divides
    <3>3. QED
      BY <3>2
  <2>2. CASE d <= np
    <3>1. a = 100 * d
      BY <1>1, <1>3, <2>2 DEF a
    <3>2. pct \in Nat /\ a < np * pct + np
      BY <1>1, <1>4, Divides
    <3> HIDE DEF pct
    <3>3. 100 * cap * pc < 500 * pc * (pct + 1)
      <4>1. np * pct + np = np * (pct + 1)
        BY <1>1, <3>2
      <4>2. np * (pct + 1) <= 500 * pc * (pct + 1)
        BY <1>1, <3>2
      <4>3. 100 * d = 100 * cap * pc
        BY <1>1 DEF d
      <4>4. np * (pct + 1) \in Nat /\ 500 * pc * (pct + 1) \in Nat /\ 100 * cap * pc \in Nat
        BY <1>1, <3>2
      <4>5. QED
        BY <3>1, <3>2, <4>1, <4>2, <4>3, <4>4
    <3>4. QED
      BY <1>1, <3>2, <3>3
  <2>3. QED
    BY <1>1, <2>1, <2>2
<1>7. QED
  BY <1>2, <1>5, <1>6 DEF cap

----------------------------------------------------------------------------
(* Panels.                                                                 *)

\* The panels of a fleet are those of its inverters, with their powers.
LEMMA PanelsAre ==
    ASSUME NEW invs, NEW n \in Nat, IsSeq(invs, n), NEW l, IsSeq(l, n),
           \A j \in 1 .. n : IsSeq(PanelPowers(invs[j]), l[j]),
           NEW T, \A j \in 1 .. n : \A i \in 1 .. l[j] : PanelPowers(invs[j])[i] \in T
    PROVE  /\ IsSeq(Panels(invs), Total(l))
           /\ \A c \in 1 .. Total(l) : Panels(invs)[c].w \in T
<1> DEFINE row(j) == [c \in DOMAIN PanelPowers(invs[j]) |->
                        [uid |-> invs[j].uid, vac |-> invs[j].vac, temp |-> invs[j].temp,
                         w |-> PanelPowers(invs[j])[c]]]
           seqs == [j \in DOMAIN invs |-> row(j)]
           S == UNION {{row(j)[c] : c \in 1 .. l[j]} : j \in 1 .. n}
<1>1. ASSUME NEW j \in 1 .. n
      PROVE  IsSeq(row(j), l[j]) /\ \A c \in 1 .. l[j] : row(j)[c].w \in T
  <2> DEFINE pp == PanelPowers(invs[j])
             w == l[j]
             r(c) == [uid |-> invs[j].uid, vac |-> invs[j].vac, temp |-> invs[j].temp, w |-> pp[c]]
  <2>1. IsSeq(pp, w) /\ \A c \in 1 .. w : pp[c] \in T
    OBVIOUS
  <2>2. row(j) = [c \in DOMAIN pp |-> r(c)]
    OBVIOUS
  <2> HIDE DEF pp, w, row
  <2>3. DOMAIN pp = 1 .. w /\ w \in Nat
    BY <2>1 DEF IsSeq
  <2>4. IsSeq(row(j), w)
    <3> DEFINE q == [c \in 1 .. w |-> r(c)]
    <3> HIDE DEF r
    <3>1. row(j) = q
      BY <2>2, <2>3
    <3>2. q = [c \in 1 .. w |-> q[c]]
      OBVIOUS
    <3> HIDE DEF q
    <3>3. QED
      BY <2>3, <3>1, <3>2, FunctionIsSeq
  <2>5. \A c \in 1 .. w : row(j)[c].w = pp[c]
    BY <2>2, <2>3
  <2>6. QED
    BY <2>1, <2>4, <2>5 DEF w
<1> HIDE DEF row
<1>2. DOMAIN invs = 1 .. n
  BY DEF IsSeq
<1>3. IsSeq(seqs, n) /\ \A j \in 1 .. n : seqs[j] = row(j)
  BY <1>2 DEF IsSeq
<1>4. Panels(invs) = FlattenSeq(seqs)
  BY DEF Panels, row
<1> HIDE DEF seqs
<1>5. \A j \in 1 .. n : IsSeq(seqs[j], l[j])
  BY <1>1, <1>3
<1>6. \A j \in 1 .. n : \A i \in 1 .. l[j] : seqs[j][i] \in S
  BY <1>3
<1>7. \A x \in S : x.w \in T
  BY <1>1
<1> HIDE DEF S
<1>8. /\ IsSeq(FlattenSeq(seqs), Total(l))
      /\ \A i \in 1 .. Total(l) : FlattenSeq(seqs)[i] \in S
  BY <1>3, <1>5, <1>6, FlattenTotal
<1>9. QED
  BY <1>4, <1>7, <1>8

\* The power of one of the first eight panels in Model 114
LEMMA DCDataHolds ==
    ASSUME NEW panels, NEW unknown, IsSeq(unknown, 2), NEW c \in 1 .. 8, c <= Len(panels)
    PROVE  /\ DCData(panels, unknown)[35 + 2 * (c - 1)] = Acc32(panels[c].w)[1]
           /\ DCData(panels, unknown)[36 + 2 * (c - 1)] = Acc32(panels[c].w)[2]
<1> DEFINE volts(p) == IF p.vac > 0 THEN Float(p.vac) ELSE unknown
           amps(p) == IF p.vac > 0 THEN Float(Round(10 * p.w, p.vac)) ELSE unknown
           a == FlattenSeq([k \in 1 .. 8 |-> IF k <= Len(panels) THEN amps(panels[k]) ELSE NaN])
           v == FlattenSeq([k \in 1 .. 8 |-> IF k <= Len(panels) THEN volts(panels[k]) ELSE NaN])
           seqs == [k \in 1 .. 8 |-> IF k <= Len(panels) THEN Float(panels[k].w) ELSE NaN]
           w == FlattenSeq(seqs)
<1>1. DCData(panels, unknown) = <<114, 48>> \o v \o a \o w
  BY DEF DCData
<1>2. IsSeq(v, 16)
  <2> DEFINE value == [k \in 1 .. 8 |-> volts(panels[k])]
  <2>1. \A k \in 1 .. 8 : IsSeq(value[k], 2)
    <3>1. \A p : IsSeq(volts(p), 2)
      BY FloatWidth
    <3> HIDE DEF volts
    <3>2. QED
      BY <3>1
  <2>2. v = Channel(panels, value)
    BY DEF Channel
  <2> HIDE DEF value, v
  <2>3. QED
    BY <2>1, <2>2, ChannelWidth
<1>3. IsSeq(a, 16)
  <2> DEFINE value == [k \in 1 .. 8 |-> amps(panels[k])]
  <2>1. \A k \in 1 .. 8 : IsSeq(value[k], 2)
    <3>1. \A p : IsSeq(amps(p), 2)
      BY FloatWidth
    <3> HIDE DEF amps
    <3>2. QED
      BY <3>1
  <2>2. a = Channel(panels, value)
    BY DEF Channel
  <2> HIDE DEF value, a
  <2>3. QED
    BY <2>1, <2>2, ChannelWidth
<1> HIDE DEF v, a
<1>4. IsSeq(seqs, 8) /\ \A j \in 1 .. 8 : IsSeq(seqs[j], 2)
  <2>1. IsSeq(NaN, 2)
    BY DEF NaN, IsSeq
  <2>2. IsSeq(seqs, 8)
    BY DEF IsSeq
  <2>3. QED
    BY <2>1, <2>2, FloatWidth
<1>5. seqs[c] = Acc32(panels[c].w)
  BY DEF Float
<1> HIDE DEF seqs
<1>6. IsSeq(w, 16) /\ \A j \in 1 .. 8, i \in 1 .. 2 : w[2 * (j - 1) + i] = seqs[j][i]
  <2> DEFINE two == 2
             eight == 8
  <2>1. IsSeq(seqs, eight) /\ \A j \in 1 .. eight : IsSeq(seqs[j], two)
    BY <1>4
  <2>2. eight \in Nat /\ two \in Nat
    OBVIOUS
  <2> HIDE DEF two, eight
  <2>3. /\ IsSeq(w, two * eight)
        /\ \A j \in 1 .. eight, i \in 1 .. two : w[two * (j - 1) + i] = seqs[j][i]
    BY <2>1, <2>2, FlattenUniform
  <2>4. QED
    BY <2>3 DEF two, eight
<1> HIDE DEF w
<1> DEFINE t0 == <<114, 48>>
           t1 == t0 \o v
           t2 == t1 \o a
           t3 == t2 \o w
<1>7. IsSeq(t0, 2)
  BY DEF IsSeq
<1> HIDE DEF t0
<1>8. IsSeq(t1, 18)
  <2>1. Concatenated(t1, t0, 2, v, 16)
    BY <1>2, <1>7, ConcatIs
  <2> HIDE DEF t1
  <2>2. QED
    BY <2>1 DEF Concatenated
<1> HIDE DEF t1
<1>9. IsSeq(t2, 34)
  <2>1. Concatenated(t2, t1, 18, a, 16)
    BY <1>3, <1>8, ConcatIs
  <2> HIDE DEF t2
  <2>2. QED
    BY <2>1 DEF Concatenated
<1> HIDE DEF t2
<1>10. Concatenated(t3, t2, 34, w, 16)
  BY <1>6, <1>9, ConcatIs
<1> HIDE DEF t3
<1>11. \A i \in 1 .. 16 : t3[34 + i] = w[i]
  BY <1>10 DEF Concatenated
<1>12. w[2 * (c - 1) + 1] = seqs[c][1] /\ w[2 * (c - 1) + 2] = seqs[c][2]
  <2> DEFINE o == 2 * (c - 1)
  <2>1. \A i \in 1 .. 2 : w[o + i] = seqs[c][i]
    BY <1>6
  <2> HIDE DEF o
  <2>2. w[o + 1] = seqs[c][1] /\ w[o + 2] = seqs[c][2]
    BY <2>1
  <2>3. QED
    BY <2>2 DEF o
<1>13. t3[35 + 2 * (c - 1)] = seqs[c][1] /\ t3[36 + 2 * (c - 1)] = seqs[c][2]
  <2>1. 2 * (c - 1) + 1 \in 1 .. 16 /\ 2 * (c - 1) + 2 \in 1 .. 16
    OBVIOUS
  <2>2. 34 + (2 * (c - 1) + 1) = 35 + 2 * (c - 1) /\ 34 + (2 * (c - 1) + 2) = 36 + 2 * (c - 1)
    OBVIOUS
  <2>3. t3[34 + (2 * (c - 1) + 1)] = w[2 * (c - 1) + 1] /\ t3[34 + (2 * (c - 1) + 2)] = w[2 * (c - 1) + 2]
    BY <1>11, <2>1
  <2>4. QED
    BY <1>12, <2>2, <2>3
<1>14. DCData(panels, unknown) = t3
  BY <1>1 DEF t0, t1, t2, t3
<1>15. QED
  BY <1>5, <1>13, <1>14

\* and of each panel in Model 160, with the number of its modules.
LEMMA MultiMPPTHolds ==
    ASSUME NEW panels, NEW k \in Nat, IsSeq(panels, k), panels # << >>, ~DisableMPPT
    PROVE  /\ MultiMPPT(panels)[9] = k
           /\ \A c \in 1 .. k : MultiMPPT(panels)[22 + 20 * (c - 1)] = panels[c].w
<1> DEFINE seqs == [c \in DOMAIN panels |-> PanelModule(c, panels[c])]
           front == <<160, 8 + 20 * k, Word(-1), 0, 0, 0>> \o NoU32 \o <<k, 65535>>
           tail == FlattenSeq(seqs)
<1>1. Len(panels) = k /\ DOMAIN panels = 1 .. k
  BY DEF IsSeq
<1>2. MultiMPPT(panels) = front \o tail
  BY <1>1 DEF MultiMPPT
<1>3. IsSeq(seqs, k) /\ \A j \in 1 .. k : IsSeq(seqs[j], 20) /\ seqs[j][12] = panels[j].w
  <2>1. IsSeq(seqs, k)
    BY <1>1 DEF IsSeq
  <2>2. ASSUME NEW c, NEW p PROVE IsSeq(PanelModule(c, p), 20) /\ PanelModule(c, p)[12] = p.w
    <3> DEFINE amps == IF p.vac > 0 THEN Round(10 * p.w, p.vac) ELSE 65535
               volts == IF p.vac > 0 THEN p.vac ELSE 65535
               temp == Word(Clamp(p.temp, -100, 200))
               st == IF p.w > 0 THEN StMPPT ELSE StOff
               t == <<c, p.uid>> \o Zeros(7) \o <<amps, volts, p.w>>
                    \o Acc32(0) \o NoU32 \o <<temp, st>> \o NoU32
    <3>1. PanelModule(c, p) = t
      BY DEF PanelModule
    <3> HIDE DEF amps, volts, temp, st
    <3>2. IsSeq(t, 20) /\ t[12] = p.w
      BY DEF Zeros, Acc32, NoU32, NoU16, Repeat, IsSeq
    <3> HIDE DEF t
    <3>3. QED
      BY <3>1, <3>2
  <2>3. QED
    BY <1>1, <2>1, <2>2
<1> HIDE DEF seqs
<1>4. /\ IsSeq(tail, 20 * k)
      /\ \A j \in 1 .. k, i \in 1 .. 20 : tail[20 * (j - 1) + i] = seqs[j][i]
  <2> DEFINE w == 20
  <2>1. w \in Nat /\ \A j \in 1 .. k : IsSeq(seqs[j], w)
    BY <1>3
  <2> HIDE DEF w
  <2>2. /\ IsSeq(tail, w * k)
        /\ \A j \in 1 .. k, i \in 1 .. w : tail[w * (j - 1) + i] = seqs[j][i]
    BY <1>3, <2>1, FlattenUniform
  <2>3. QED
    BY <2>2 DEF w
<1>5. IsSeq(front, 10) /\ front[9] = k
  <2> DEFINE len == 8 + 20 * k
             t == <<160, len, Word(-1), 0, 0, 0>> \o NoU32 \o <<k, 65535>>
  <2>1. front = t
    OBVIOUS
  <2> HIDE DEF len, front
  <2>2. IsSeq(t, 10) /\ t[9] = k
    BY DEF NoU32, NoU16, Repeat, IsSeq
  <2> HIDE DEF t
  <2>3. QED
    BY <2>1, <2>2
<1> DEFINE m == 20 * k
           all == front \o tail
<1>6. m \in Nat /\ IsSeq(tail, m)
  BY <1>4
<1> HIDE DEF front, tail, m
<1>7. Concatenated(all, front, 10, tail, m)
  BY <1>5, <1>6, ConcatIs
<1> HIDE DEF all
<1>8. /\ \A i \in 1 .. 10 : all[i] = front[i]
      /\ \A i \in 1 .. m : all[10 + i] = tail[i]
  BY <1>7 DEF Concatenated
<1>9. ASSUME NEW c \in 1 .. k PROVE all[22 + 20 * (c - 1)] = panels[c].w
  <2> DEFINE i == 20 * (c - 1) + 12
  <2>1. i \in 1 .. m /\ 10 + i = 22 + 20 * (c - 1)
    BY DEF m
  <2>2. tail[20 * (c - 1) + 12] = seqs[c][12]
    BY <1>4
  <2>3. tail[i] = panels[c].w
    BY <1>3, <2>2
  <2> HIDE DEF i
  <2>4. all[10 + i] = tail[i]
    BY <1>8, <2>1
  <2>5. QED
    BY <2>1, <2>3, <2>4
<1>10. all[9] = k
  BY <1>5, <1>8
<1>11. QED
  BY <1>2, <1>9, <1>10 DEF all

----------------------------------------------------------------------------
(* The bits of a register.                                                 *)

\* Powers of two, up to that of a register's 17th bit.
LEMMA Powers ==
    \A k \in 0 .. 15 : 2 ^ k \in Nat /\ 2 ^ k > 0 /\ 2 ^ (k + 1) = 2 * 2 ^ k
<1> DEFINE p == [k \in 0 .. 16 |-> 2 ^ k]
<1>1. /\ p[0] = 1 /\ p[1] = 2 /\ p[2] = 4 /\ p[3] = 8 /\ p[4] = 16 /\ p[5] = 32
      /\ p[6] = 64 /\ p[7] = 128 /\ p[8] = 256 /\ p[9] = 512 /\ p[10] = 1024
      /\ p[11] = 2048 /\ p[12] = 4096 /\ p[13] = 8192 /\ p[14] = 16384
      /\ p[15] = 32768 /\ p[16] = 65536
  OBVIOUS
<1>2. \A k \in 0 .. 15 : p[k] = 2 ^ k /\ p[k + 1] = 2 ^ (k + 1)
  OBVIOUS
<1> HIDE DEF p
<1>3. \A k \in 0 .. 7 : p[k] \in Nat /\ p[k] > 0 /\ p[k + 1] = 2 * p[k]
  <2> TAKE k \in 0 .. 7
  <2>1. k = 0 \/ k = 1 \/ k = 2 \/ k = 3 \/ k = 4 \/ k = 5 \/ k = 6 \/ k = 7
    OBVIOUS
  <2>2. QED
    BY <1>1, <2>1
<1>4. \A k \in 8 .. 15 : p[k] \in Nat /\ p[k] > 0 /\ p[k + 1] = 2 * p[k]
  <2> TAKE k \in 8 .. 15
  <2>1. k = 8 \/ k = 9 \/ k = 10 \/ k = 11 \/ k = 12 \/ k = 13 \/ k = 14 \/ k = 15
    OBVIOUS
  <2>2. QED
    BY <1>1, <2>1
<1>5. \A k \in 0 .. 15 : p[k] \in Nat /\ p[k] > 0 /\ p[k + 1] = 2 * p[k]
  BY <1>3, <1>4
<1>6. QED
  BY <1>2, <1>5

\* The digit b of a number, in terms of what is below and above it.
LEMMA Digit ==
    ASSUME NEW lo \in Nat, NEW d \in Nat, lo < d, NEW hi \in Nat, NEW b \in {0, 1}
    PROVE  ((lo + d * (b + 2 * hi)) \div d) % 2 = b
OBVIOUS

\* A sum of powers of two, each at most once, is below the next one,
LEMMA BitsBelow ==
    ASSUME NEW v, NEW n \in 0 .. 16, NEW f, Totals(v, f, n),
           \A k \in 1 .. n : v[k] = 0 \/ v[k] = 2 ^ (k - 1)
    PROVE  \A k \in 0 .. n : f[k] \in Nat /\ f[k] < 2 ^ k
<1> DEFINE T == {k \in Nat : k \in 0 .. n => f[k] \in Nat /\ f[k] < 2 ^ k}
<1>1. 0 \in T
  BY DEF Totals
<1>2. ASSUME NEW k \in Nat, k \in T PROVE k + 1 \in T
  <2> SUFFICES ASSUME k + 1 \in 0 .. n PROVE f[k + 1] \in Nat /\ f[k + 1] < 2 ^ (k + 1)
    OBVIOUS
  <2>1. k \in 0 .. 15 /\ k \in 0 .. n /\ k + 1 \in 1 .. n /\ (k + 1) - 1 = k
    OBVIOUS
  <2>2. f[k] \in Nat /\ f[k] < 2 ^ k
    BY <1>2, <2>1
  <2>3. f[k + 1] = f[k] + v[k + 1]
    BY <2>1 DEF Totals
  <2>4. v[k + 1] = 0 \/ v[k + 1] = 2 ^ k
    BY <2>1
  <2>5. 2 ^ k \in Nat /\ 2 ^ k > 0 /\ 2 ^ (k + 1) = 2 * 2 ^ k
    BY <2>1, Powers
  <2> DEFINE p == 2 ^ k
             q == 2 ^ (k + 1)
  <2> HIDE DEF p, q
  <2>6. QED
    BY <2>2, <2>3, <2>4, <2>5 DEF p, q
<1> HIDE DEF T
<1>3. Nat \subseteq T
  BY <1>1, <1>2, AllNat
<1>4. QED
  BY <1>3 DEF T

\* and the rest of the sum is a multiple of it.
Above(x, y, j) == \E h \in Nat : x = y + 2 ^ j * h

LEMMA BitsAbove ==
    ASSUME NEW v, NEW n \in 0 .. 16, NEW f, Totals(v, f, n),
           \A k \in 1 .. n : v[k] = 0 \/ v[k] = 2 ^ (k - 1),
           NEW j \in 0 .. n, \A k \in 0 .. n : f[k] \in Nat
    PROVE  Above(f[n], f[j], j)
<1> DEFINE T == {m \in Nat : j + m \in 0 .. n =>
                     /\ \E h \in Nat : f[j + m] = f[j] + 2 ^ j * h
                     /\ \E q \in Nat : 2 ^ (j + m) = 2 ^ j * q}
<1>1. 0 \in T
  <2>1. 2 ^ j \in Nat
    <3>1. j \in 0 .. 15 \/ j = 16
      OBVIOUS
    <3>2. 2 ^ 16 \in Nat
      OBVIOUS
    <3>3. QED
      BY <3>1, <3>2, Powers
  <2>2. j + 0 = j /\ f[j] \in Nat
    OBVIOUS
  <2> DEFINE p == 2 ^ j
  <2>3. f[j] = f[j] + p * 0 /\ p = p * 1
    <3> HIDE DEF p
    <3>1. p \in Nat
      BY <2>1 DEF p
    <3>2. QED
      BY <2>2, <3>1
  <2>4. QED
    BY <2>2, <2>3
<1>2. ASSUME NEW m \in Nat, m \in T PROVE m + 1 \in T
  <2> SUFFICES ASSUME j + (m + 1) \in 0 .. n
               PROVE  /\ \E h \in Nat : f[j + (m + 1)] = f[j] + 2 ^ j * h
                      /\ \E q \in Nat : 2 ^ (j + (m + 1)) = 2 ^ j * q
    OBVIOUS
  <2> DEFINE k == j + m
  <2>1. k \in 0 .. 15 /\ k \in 0 .. n /\ k + 1 \in 1 .. n /\ (k + 1) - 1 = k /\ j + (m + 1) = k + 1
        /\ j \in 0 .. 15
    OBVIOUS
  <2>2. PICK h \in Nat : f[k] = f[j] + 2 ^ j * h
    BY <1>2, <2>1
  <2>3. PICK q \in Nat : 2 ^ k = 2 ^ j * q
    BY <1>2, <2>1
  <2> HIDE DEF k
  <2>4. f[k + 1] = f[k] + v[k + 1]
    BY <2>1 DEF Totals
  <2>5. v[k + 1] = 0 \/ v[k + 1] = 2 ^ k
    BY <2>1
  <2>6. 2 ^ (k + 1) = 2 * 2 ^ k /\ 2 ^ j \in Nat /\ f[j] \in Nat
    BY <2>1, Powers
  <2> DEFINE p == 2 ^ j
  <2>7. \E i \in Nat : f[k + 1] = f[j] + p * i
    <3>1. CASE v[k + 1] = 0
      <4>1. f[k + 1] = f[j] + p * h
        <5> DEFINE x == p * h
        <5>1. x \in Nat
          BY <2>6
        <5> HIDE DEF p, x
        <5>2. f[k] = f[j] + x
          BY <2>2 DEF p, x
        <5>3. f[k + 1] = f[j] + x
          BY <2>4, <2>6, <3>1, <5>1, <5>2
        <5>4. QED
          BY <5>3 DEF x
      <4>2. QED
        BY <4>1
    <3>2. CASE v[k + 1] = 2 ^ k
      <4>1. f[k + 1] = f[j] + p * (h + q)
        <5>1. f[k + 1] = (f[j] + p * h) + p * q
          BY <2>2, <2>3, <2>4, <3>2
        <5>2. p \in Nat
          BY <2>6
        <5> HIDE DEF p
        <5>3. QED
          BY <2>6, <5>1, <5>2
      <4>2. h + q \in Nat
        OBVIOUS
      <4>3. QED
        BY <4>1, <4>2
    <3>3. QED
      BY <2>5, <3>1, <3>2
  <2>8. 2 ^ (k + 1) = p * (2 * q)
    <3>1. 2 ^ (k + 1) = 2 * (p * q)
      BY <2>3, <2>6
    <3>2. p \in Nat
      BY <2>6
    <3> HIDE DEF p
    <3>3. QED
      BY <3>1, <3>2
  <2>9. 2 * q \in Nat
    OBVIOUS
  <2>10. QED
    BY <2>1, <2>7, <2>8, <2>9
<1> HIDE DEF T
<1>3. Nat \subseteq T
  BY <1>1, <1>2, AllNat
<1>4. n - j \in T /\ j + (n - j) = n
  BY <1>3
<1>5. QED
  BY <1>4 DEF T, Above

\* The bits of a register are the members of the set it was made of.
LEMMA BitWordIs ==
    ASSUME NEW bits, NEW from \in Nat, NEW b \in 0 .. 15
    PROVE  /\ BitWord(bits, from) \in Nat /\ BitWord(bits, from) < 2 ^ 16
           /\ (BitWord(bits, from) \div 2 ^ b) % 2 = 1 <=> from + b \in bits
<1> DEFINE v == [k \in 1 .. 16 |-> IF from + k - 1 \in bits THEN 2 ^ (k - 1) ELSE 0]
           n == 16
<1>1. BitWord(bits, from) = Total(v)
  BY DEF BitWord
<1>2. \A k \in 1 .. n : v[k] = 0 \/ v[k] = 2 ^ (k - 1)
  OBVIOUS
<1>3. /\ from + b \in bits => v[b + 1] = 2 ^ b
      /\ from + b \notin bits => v[b + 1] = 0
  <2>1. b + 1 \in 1 .. 16 /\ (b + 1) - 1 = b /\ from + (b + 1) - 1 = from + b
    OBVIOUS
  <2>2. v[b + 1] = IF from + (b + 1) - 1 \in bits THEN 2 ^ ((b + 1) - 1) ELSE 0
    BY <2>1
  <2> HIDE DEF v
  <2>3. QED
    BY <2>1, <2>2
<1>4. IsSeq(v, n)
  <2>1. v = [k \in 1 .. n |-> v[k]]
    OBVIOUS
  <2>2. n \in Nat
    OBVIOUS
  <2> HIDE DEF v, n
  <2>3. QED
    BY <2>1, <2>2, FunctionIsSeq
<1>5. n \in 0 .. 16 /\ n \in Nat /\ b \in 0 .. n /\ b + 1 \in 0 .. n /\ b + 1 \in 1 .. n
  OBVIOUS
<1> HIDE DEF v, n
<1>6. PICK f : Totals(v, f, n) /\ Total(v) = f[n]
  BY <1>4, <1>5, TotalIs
<1>7. \A k \in 0 .. n : f[k] \in Nat /\ f[k] < 2 ^ k
  BY <1>2, <1>5, <1>6, BitsBelow
<1>8. PICK h \in Nat : f[n] = f[b + 1] + 2 ^ (b + 1) * h
  <2> DEFINE j == b + 1
  <2>1. j \in 0 .. n /\ \A k \in 0 .. n : f[k] \in Nat
    BY <1>5, <1>7
  <2> HIDE DEF j
  <2>2. Above(f[n], f[j], j)
    BY <1>2, <1>5, <1>6, <2>1, BitsAbove
  <2>3. QED
    BY <2>2 DEF j, Above
<1>9. f[b + 1] = f[b] + v[b + 1]
  BY <1>5, <1>6 DEF Totals
<1>10. 2 ^ b \in Nat /\ 2 ^ (b + 1) = 2 * 2 ^ b
  BY Powers
<1>11. f[b] \in Nat /\ f[b] < 2 ^ b
  BY <1>5, <1>7
<1> DEFINE p == 2 ^ b
           lo == f[b]
           digit == IF from + b \in bits THEN 1 ELSE 0
<1>12. f[n] = lo + p * (digit + 2 * h)
  <2>1. v[b + 1] = p * digit
    <3>1. CASE from + b \in bits
      BY <1>3, <1>10, <3>1
    <3>2. CASE from + b \notin bits
      BY <1>3, <1>10, <3>2
    <3>3. QED
      BY <3>1, <3>2
  <2>2. f[n] = (lo + p * digit) + (2 * p) * h
    BY <1>8, <1>9, <1>10, <2>1
  <2>3. p \in Nat /\ lo \in Nat /\ digit \in Nat
    BY <1>10, <1>11
  <2> HIDE DEF p, lo, digit
  <2>4. QED
    BY <2>2, <2>3
<1>13. p \in Nat /\ lo \in Nat /\ lo < p /\ digit \in {0, 1}
  BY <1>10, <1>11
<1> HIDE DEF p, lo, digit
<1>14. (f[n] \div p) % 2 = digit
  BY <1>12, <1>13, Digit
<1>15. f[n] \in Nat /\ f[n] < 2 ^ n
  BY <1>5, <1>7
<1>16. digit = 1 <=> from + b \in bits
  BY DEF digit
<1>17. QED
  BY <1>1, <1>6, <1>14, <1>15, <1>16 DEF p, n
=============================================================================
