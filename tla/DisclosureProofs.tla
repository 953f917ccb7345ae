---------------------------- MODULE DisclosureProofs ----------------------------
(******************************************************************************)
(* What a disclosure proves, for every claim, alteration and choice of what   *)
(* to show, with trees of any number of leaves; and that what is signed has   *)
(* one reading, for messages of any number of fields and any length.          *)
(*                                                                            *)
(* The recursions are over lists of any length: a tree and a path in it split *)
(* in two, a message is written field by field, a text is decoded pair by     *)
(* pair.  What they compute is proved by the least number of leaves, fields   *)
(* or characters for which it would not hold (HasLeast, UpTo).                *)
(*                                                                            *)
(* A walk that ends at the root of a tree began at the leaf of its index,     *)
(* whatever the siblings were (WalkSound), for no two different leaves or     *)
(* nodes have one hash; and a walk along the path that was made for a leaf    *)
(* ends at the root (WalkComplete).  The verifier's table lists the fields of *)
(* a body in the order in which the issuer sorts them (OrderedAsTable), so    *)
(* the index that it looks up is the index of the leaf.                       *)
(*                                                                            *)
(* The invariant DsInv says what the claim in the wallet and the disclosure   *)
(* on its way are, whatever was altered, and that they are what was issued    *)
(* and what was disclosed of it if nothing was.                               *)
(******************************************************************************)
EXTENDS Disclosure, Encoding, FiniteSetTheorems, WellFoundedInduction, TLAPS

-------------------------------------------------------------------------------
(* Induction, by the least number that fails. *)

(* A set of natural numbers has a least one. *)
LEMMA HasLeast ==
  ASSUME NEW S \in SUBSET Nat, S # {}
  PROVE  \E x \in S : \A y \in S : x <= y
  <1> DEFINE Less == {ss \in Nat \X Nat : ss[1] < ss[2]}
  <1>1. Less = OpToRel(<, Nat)
    BY DEF OpToRel
  <1>2. IsWellFoundedOn(Less, Nat)
    BY <1>1, NatLessThanWellFounded
  <1> HIDE DEF Less
  <1>3. PICK x \in S : \A y \in S : ~(<<y, x>> \in Less)
    BY <1>2, WFMin
  <1>4. ASSUME NEW y \in S PROVE x <= y
    <2>1. <<y, x>> \in Nat \X Nat /\ <<y, x>> \notin Less
      BY <1>3
    <2>2. ~(y < x)
      BY <2>1 DEF Less
    <2>3. QED
      BY <2>2
  <1>5. QED
    BY <1>4

(* A set that has 0, and i + 1 with every i below n, has all numbers up to n. *)
LEMMA UpTo ==
  ASSUME NEW n \in Nat, NEW S, 0 \in S, \A i \in 0..n - 1 : i \in S => i + 1 \in S
  PROVE  0..n \subseteq S
  <1> DEFINE Bad == (0..n) \ S
  <1>1. ASSUME Bad # {} PROVE FALSE
    <2>1. PICK x \in Bad : \A y \in Bad : x <= y
      <3>1. Bad \in SUBSET Nat
        OBVIOUS
      <3> HIDE DEF Bad
      <3>2. QED
        BY <1>1, <3>1, HasLeast
    <2>2. x \in 1..n
      BY <2>1
    <2>3. x - 1 \in 0..n - 1 /\ x - 1 \in 0..n /\ ~(x <= x - 1)
      BY <2>2
    <2>4. x - 1 \in S
      BY <2>1, <2>3
    <2>5. (x - 1) + 1 = x
      BY <2>2
    <2>6. QED
      BY <2>1, <2>3, <2>4, <2>5
  <1>2. QED
    BY <1>1

(* A first value and a step make a function on the natural numbers. *)
LEMMA FunctionBySteps ==
  ASSUME NEW T, NEW first \in T, NEW step \in [T -> T]
  PROVE  \E f \in [Nat -> T] : f[0] = first /\ \A n \in Nat : f[n + 1] = step[f[n]]
  <1> DEFINE Begun(n) == {g \in [0..n -> T] :
                             g[0] = first /\ \A i \in 0..n - 1 : g[i + 1] = step[g[i]]}
             Some == {n \in Nat : Begun(n) # {}}
  <1>1. ASSUME NEW n \in Nat PROVE n \in Some
    <2>1. 0 \in Some
      <3>1. [i \in 0..0 |-> first] \in Begun(0)
        OBVIOUS
      <3>2. QED
        BY <3>1
    <2>2. ASSUME NEW m \in Nat, m \in Some PROVE m + 1 \in Some
      <3>1. PICK g : g \in Begun(m)
        BY <2>2
      <3> DEFINE h == [i \in 0..m + 1 |-> IF i = m + 1 THEN step[g[m]] ELSE g[i]]
      <3>2. h \in [0..m + 1 -> T] /\ h[0] = first
        BY <3>1
      <3>3. ASSUME NEW i \in 0..m PROVE h[i + 1] = step[h[i]]
        <4>1. CASE i = m
          BY <4>1
        <4>2. CASE i # m
          <5>1. i \in 0..m - 1 /\ i + 1 \in 0..m + 1 /\ i + 1 # m + 1
            BY <4>2
          <5>2. QED
            BY <3>1, <5>1
        <4>3. QED
          BY <4>1, <4>2
      <3>4. h \in Begun(m + 1)
        BY SMTT(30), <3>2, <3>3
      <3>5. QED
        BY SMTT(30), <3>4
    <2>3. 0..n \subseteq Some
      <3>1. \A i \in 0..n - 1 : i \in Some => i + 1 \in Some
        BY <2>2
      <3> HIDE DEF Some
      <3>2. QED
        BY <2>1, <3>1, UpTo
    <2>4. QED
      BY <2>3
  <1>2. ASSUME NEW n \in Nat, NEW g \in Begun(n), NEW m \in n..n + 1, NEW h \in Begun(m),
               NEW i \in 0..n
        PROVE  g[i] = h[i]
    <2> DEFINE Same == {j \in 0..n : g[j] = h[j]}
    <2>1. 0 \in Same
      OBVIOUS
    <2>2. ASSUME NEW j \in 0..n - 1, j \in Same PROVE j + 1 \in Same
      <3>1. j \in 0..m - 1
        OBVIOUS
      <3>2. g[j + 1] = step[g[j]] /\ h[j + 1] = step[h[j]] /\ j + 1 \in 0..n
        BY <3>1
      <3>3. QED
        BY <2>2, <3>2
    <2> HIDE DEF Same
    <2>3. 0..n \subseteq Same
      BY <2>1, <2>2, UpTo
    <2>4. QED
      BY <2>3 DEF Same
  <1> DEFINE part(n) == CHOOSE g : g \in Begun(n)
             f == [n \in Nat |-> part(n)[n]]
  <1>3. ASSUME NEW n \in Nat PROVE part(n) \in Begun(n)
    BY <1>1
  <1> HIDE DEF part
  <1>4. f \in [Nat -> T] /\ f[0] = first
    <2>1. ASSUME NEW n \in Nat PROVE part(n)[n] \in T
      BY <1>3
    <2>2. part(0)[0] = first
      BY <1>3
    <2>3. QED
      BY <2>1, <2>2
  <1>5. ASSUME NEW n \in Nat PROVE f[n + 1] = step[f[n]]
    <2>1. part(n + 1)[n + 1] = step[part(n + 1)[n]]
      <3>1. part(n + 1) \in Begun(n + 1) /\ n \in 0..(n + 1) - 1
        BY <1>3
      <3>2. QED
        BY <3>1
    <2>2. part(n + 1)[n] = part(n)[n]
      <3>1. part(n) \in Begun(n) /\ part(n + 1) \in Begun(n + 1)
        BY <1>3
      <3>2. n + 1 \in n..n + 1 /\ n \in 0..n
        OBVIOUS
      <3> HIDE DEF Begun
      <3>3. QED
        BY <1>2, <3>1, <3>2
    <2>3. QED
      BY <2>1, <2>2
  <1> HIDE DEF f
  <1>6. QED
    BY <1>4, <1>5

-------------------------------------------------------------------------------
(* Numbers in bytes. *)

LEMMA BaseType == Base \in Nat /\ Base > 1 /\ HexBase \in Nat /\ HexBase > 1
  BY EncodingAssumption DEF Base

(* The weights are the powers of Base. *)
LEMMA WeightIs ==
  /\ Weight[0] = 1
  /\ \A k \in Nat : Weight[k + 1] = Base * Weight[k]
  /\ \A k \in Nat : Weight[k] \in Nat \ {0}
  <1> DEFINE T == Nat \ {0}
             one == 1
             step == [w \in T |-> Base * w]
  <1>1. step \in [T -> T] /\ one \in T
    BY BaseType
  <1>2. PICK f \in [Nat -> T] : f[0] = one /\ \A n \in Nat : f[n + 1] = step[f[n]]
    <2> HIDE DEF step, T, one
    <2>1. QED
      BY <1>1, FunctionBySteps
  <1>3. ASSUME NEW k \in Nat PROVE f[k] = IF k = 0 THEN 1 ELSE Base * f[k - 1]
    <2>1. CASE k = 0
      BY <1>2, <2>1
    <2>2. CASE k # 0
      <3>1. k - 1 \in Nat /\ (k - 1) + 1 = k
        BY <2>2
      <3>2. f[k] = step[f[k - 1]]
        BY <1>2, <3>1
      <3>3. QED
        BY <1>2, <2>2, <3>1, <3>2
    <2>3. QED
      BY <2>1, <2>2
  <1>4. f = [k \in Nat |-> IF k = 0 THEN 1 ELSE Base * f[k - 1]]
    BY <1>3
  <1>5. Weight = [k \in Nat |-> IF k = 0 THEN 1 ELSE Base * Weight[k - 1]]
    BY <1>4 DEF Weight
  <1>6. ASSUME NEW k \in Nat PROVE Weight[k + 1] = Base * Weight[k]
    BY <1>5
  <1>7. ASSUME NEW k \in Nat PROVE Weight[k] \in Nat \ {0}
    <2> DEFINE Good == {i \in Nat : Weight[i] \in Nat \ {0}}
    <2>1. 0 \in Good
      BY <1>5
    <2>2. ASSUME NEW i \in 0..k - 1, i \in Good PROVE i + 1 \in Good
      BY <1>6, <2>2, BaseType
    <2> HIDE DEF Good
    <2>3. 0..k \subseteq Good
      BY <2>1, <2>2, UpTo
    <2>4. QED
      BY <2>3 DEF Good
  <1>8. QED
    BY <1>5, <1>6, <1>7

(* As many bytes as were asked for. *)
LEMMA BigEndianType ==
  ASSUME NEW n \in Int, NEW width \in Nat
  PROVE  /\ BigEndian(n, width) \in Seq(0..Base - 1) /\ Len(BigEndian(n, width)) = width
         /\ DOMAIN BigEndian(n, width) = 1..width
  <1>1. ASSUME NEW i \in 1..width PROVE (n \div Weight[width - i]) % Base \in 0..Base - 1
    <2>1. width - i \in Nat
      OBVIOUS
    <2>2. n \div Weight[width - i] \in Int
      BY <2>1, WeightIs
    <2>3. QED
      BY <2>2, BaseType
  <1>2. QED
    BY <1>1 DEF BigEndian

(* Quotients by b agree, and so do the digits after them. *)
LEMMA NextDigit ==
  ASSUME NEW m \in Nat, NEW n \in Nat, NEW b \in Nat \ {0}, NEW w \in Nat \ {0},
         m \div (b * w) = n \div (b * w), (m \div w) % b = (n \div w) % b
  PROVE  m \div w = n \div w
  <1>1. m \div w \in Nat /\ n \div w \in Nat
    OBVIOUS
  <1>2. (m \div w) \div b = m \div (w * b) /\ (n \div w) \div b = n \div (w * b)
    OBVIOUS
  <1>3. w * b = b * w
    OBVIOUS
  <1>4. (m \div w) \div b = (n \div w) \div b
    BY <1>2, <1>3
  <1>5. \A x \in Nat : x = (b * (x \div b)) + (x % b)
    OBVIOUS
  <1>6. QED
    BY <1>1, <1>4, <1>5

(* The bytes of a length that fits give it back. *)
LEMMA LengthReadBack ==
  ASSUME NEW width \in Nat, NEW m \in 0..Weight[width] - 1, NEW n \in 0..Weight[width] - 1,
         \A i \in 1..width : BigEndian(m, width)[i] = BigEndian(n, width)[i]
  PROVE  m = n
  <1> DEFINE Same == {i \in 0..width : m \div Weight[width - i] = n \div Weight[width - i]}
  <1>0. Weight[width] \in Nat \ {0} /\ m \in Nat /\ n \in Nat
    BY WeightIs
  <1>1. 0 \in Same
    <2>1. m \div Weight[width] = 0 /\ n \div Weight[width] = 0
      BY <1>0
    <2>2. QED
      BY <2>1
  <1>2. ASSUME NEW i \in 0..width - 1, i \in Same PROVE i + 1 \in Same
    <2> DEFINE k == width - (i + 1)
    <2>1. k \in Nat /\ width - i = k + 1 /\ i + 1 \in 1..width
      OBVIOUS
    <2>2. Weight[k] \in Nat \ {0} /\ Weight[k + 1] = Base * Weight[k] /\ Base \in Nat \ {0}
      BY <2>1, WeightIs, BaseType
    <2>3. (m \div Weight[k]) % Base = (n \div Weight[k]) % Base
      BY <2>1 DEF BigEndian
    <2>4. m \div (Base * Weight[k]) = n \div (Base * Weight[k])
      BY <1>2, <2>1, <2>2
    <2> HIDE DEF k
    <2>5. m \div Weight[k] = n \div Weight[k]
      BY SMTT(30), <1>0, <2>2, <2>3, <2>4, NextDigit
    <2>6. QED
      BY <2>1, <2>5 DEF k
  <1> HIDE DEF Same
  <1>3. 0..width \subseteq Same
    BY <1>1, <1>2, UpTo
  <1>4. m \div Weight[0] = n \div Weight[0]
    BY <1>3 DEF Same
  <1>5. QED
    BY <1>0, <1>4, WeightIs

-------------------------------------------------------------------------------
(* Sequences. *)

LEMMA Joined ==
  ASSUME NEW T, NEW s \in Seq(T), NEW t \in Seq(T)
  PROVE  /\ s \o t \in Seq(T) /\ Len(s \o t) = Len(s) + Len(t)
         /\ \A i \in 1..Len(s) : (s \o t)[i] = s[i]
         /\ \A i \in 1..Len(t) : (s \o t)[Len(s) + i] = t[i]
  OBVIOUS

LEMMA Appended ==
  ASSUME NEW T, NEW s \in Seq(T), NEW e \in T
  PROVE  /\ Append(s, e) \in Seq(T) /\ Len(Append(s, e)) = Len(s) + 1
         /\ \A i \in 1..Len(s) : Append(s, e)[i] = s[i]
         /\ Append(s, e)[Len(s) + 1] = e
  OBVIOUS

-------------------------------------------------------------------------------
(* What a writer wrote. *)

Field == {b \in Seq(0..Base - 1) : Len(b) < Weight[LengthWidth]}

(* Field i of a writer's history stands in its buffer, after its length,      *)
(* between cut[i - 1] and cut[i].                                             *)
Stands(w, cut, i) ==
    /\ w.fields[i] \in Field
    /\ cut[i] = cut[i - 1] + LengthWidth + Len(w.fields[i])
    /\ cut[i - 1] \in Nat /\ cut[i] <= Len(w.buf)
    /\ \A j \in 1..LengthWidth :
          w.buf[cut[i - 1] + j] = BigEndian(Len(w.fields[i]), LengthWidth)[j]
    /\ \A j \in 1..Len(w.fields[i]) : w.buf[cut[i - 1] + LengthWidth + j] = w.fields[i][j]

Written(w, cut) ==
    /\ cut[0] = 0 /\ cut[Len(w.fields)] = Len(w.buf)
    /\ \A i \in 1..Len(w.fields) : Stands(w, cut, i)

WriterOK(w) ==
    /\ w = [buf |-> w.buf, fields |-> w.fields]
    /\ w.buf \in Seq(0..Base - 1) /\ w.fields \in Seq(Field)
    /\ \E cut : Written(w, cut)

LEMMA UnusedOK == WriterOK(Unused)
  <1> DEFINE cut == [i \in {0} |-> 0]
  <1>1. /\ Unused.buf = <<>> /\ Unused.fields = <<>>
        /\ Unused = [buf |-> Unused.buf, fields |-> Unused.fields]
    BY DEF Unused
  <1>2. Written(Unused, cut)
    BY <1>1 DEF Written
  <1> HIDE DEF cut
  <1>3. QED
    BY <1>1, <1>2 DEF WriterOK

(* One more field is written behind the others. *)
LEMMA PutOK ==
  ASSUME NEW w, WriterOK(w), NEW b \in Field
  PROVE  WriterOK(Put(w, b))
  <1> DEFINE v == Put(w, b)
             head == BigEndian(Len(b), LengthWidth)
             n == Len(w.fields)
             size == Len(w.buf)
  <1>1. LengthWidth \in Nat /\ b \in Seq(0..Base - 1) /\ Len(b) \in Nat
    BY EncodingAssumption DEF Field
  <1>2. head \in Seq(0..Base - 1) /\ Len(head) = LengthWidth
    BY <1>1, BigEndianType
  <1>3. v.buf = w.buf \o (head \o b) /\ v.fields = Append(w.fields, b)
        /\ v = [buf |-> v.buf, fields |-> v.fields]
    BY DEF Put, Prefixed
  <1>4. w.buf \in Seq(0..Base - 1) /\ w.fields \in Seq(Field) /\ n \in Nat /\ size \in Nat
    BY DEF WriterOK
  <1> DEFINE tail == head \o b
  <1> HIDE DEF v, head
  <1>a. /\ tail \in Seq(0..Base - 1) /\ Len(tail) = LengthWidth + Len(b)
        /\ \A j \in 1..LengthWidth : tail[j] = head[j]
        /\ \A j \in 1..Len(b) : tail[LengthWidth + j] = b[j]
    BY SMTT(30), <1>1, <1>2, Joined
  <1> HIDE DEF tail
  <1>b. /\ v.buf \in Seq(0..Base - 1) /\ Len(v.buf) = size + Len(tail)
        /\ \A j \in 1..size : v.buf[j] = w.buf[j]
        /\ \A j \in 1..Len(tail) : v.buf[size + j] = tail[j]
    <2>1. v.buf = w.buf \o tail
      BY <1>3 DEF tail
    <2> DEFINE u == w.buf
    <2>2. u \in Seq(0..Base - 1) /\ tail \in Seq(0..Base - 1)
      BY <1>4, <1>a
    <2> HIDE DEF u
    <2>3. QED
      BY <2>1, <2>2, Joined DEF u
  <1>5. v.buf \in Seq(0..Base - 1) /\ v.fields \in Seq(Field)
    BY <1>3, <1>4, <1>b, Appended
  <1>6. /\ Len(v.buf) = size + LengthWidth + Len(b) /\ Len(v.fields) = n + 1
        /\ \A i \in 1..n : v.fields[i] = w.fields[i]
        /\ v.fields[n + 1] = b
    <2>1. Len(v.buf) = size + LengthWidth + Len(b)
      <3>1. Len(v.buf) = size + Len(tail) /\ Len(tail) = LengthWidth + Len(b)
        BY <1>a, <1>b
      <3> DEFINE x == Len(b)
      <3>2. x \in Nat /\ LengthWidth \in Nat /\ size \in Nat
        BY <1>1, <1>4
      <3> HIDE DEF size, x
      <3>3. size + (LengthWidth + x) = size + LengthWidth + x
        BY <3>2
      <3>4. QED
        BY <3>1, <3>3 DEF x
    <2>2. QED
      BY <1>3, <1>4, <2>1, Appended
  <1>7. /\ \A j \in 1..size : v.buf[j] = w.buf[j]
        /\ \A j \in 1..LengthWidth : v.buf[size + j] = head[j]
        /\ \A j \in 1..Len(b) : v.buf[size + LengthWidth + j] = b[j]
    <2> HIDE DEF size
    <2>6. \A j \in 1..LengthWidth : v.buf[size + j] = head[j]
      BY <1>1, <1>a, <1>b
    <2>7. ASSUME NEW j \in 1..Len(b) PROVE v.buf[size + LengthWidth + j] = b[j]
      <3>1. LengthWidth + j \in 1..Len(tail)
        BY <1>1, <1>a
      <3>2. size + LengthWidth + j = size + (LengthWidth + j)
        BY <1>1, <1>4
      <3>3. QED
        BY <1>a, <1>b, <3>1, <3>2
    <2>8. QED
      BY <1>b, <2>6, <2>7
  <1>8. PICK cut : Written(w, cut)
    BY DEF WriterOK
  <1> DEFINE more == [i \in 0..n + 1 |-> IF i = n + 1 THEN size + LengthWidth + Len(b) ELSE cut[i]]
  <1>9. /\ more[n + 1] = size + LengthWidth + Len(b)
        /\ \A i \in 0..n : more[i] = cut[i]
    BY <1>4
  <1> HIDE DEF more
  <1>10. Stands(v, more, n + 1)
    <2>1. more[(n + 1) - 1] = size
      BY <1>4, <1>8, <1>9 DEF Written
    <2>2. Len(v.buf) >= more[n + 1] /\ v.fields[n + 1] = b
      BY <1>1, <1>4, <1>6, <1>9
    <2> HIDE DEF n, size
    <2>3. QED
      BY <1>4, <1>7, <1>9, <2>1, <2>2 DEF Stands, head
  <1>11. ASSUME NEW i \in 1..n PROVE Stands(v, more, i)
    <2>1. Stands(w, cut, i)
      BY <1>8 DEF Written
    <2>2. more[i] = cut[i] /\ more[i - 1] = cut[i - 1] /\ v.fields[i] = w.fields[i]
      <3>1. i \in 0..n /\ i - 1 \in 0..n
        BY <1>4
      <3>2. QED
        BY <1>6, <1>9, <3>1
    <2> DEFINE begin == cut[i - 1]
               length == Len(w.fields[i])
    <2>3. /\ begin \in Nat /\ length \in Nat /\ cut[i] <= size
          /\ cut[i] = begin + LengthWidth + length
      BY <2>1 DEF Stands, Field
    <2> HIDE DEF n, size, begin, length
    <2>4. begin + LengthWidth + length <= size /\ size <= Len(v.buf) /\ Len(v.buf) \in Nat
      BY <1>1, <1>4, <1>6, <2>3
    <2>5. \A j \in 1..LengthWidth : v.buf[begin + j] = w.buf[begin + j]
      <3>1. \A j \in 1..LengthWidth : begin + j \in 1..size
        BY <1>1, <1>4, <2>3, <2>4
      <3>2. QED
        BY <1>7, <3>1
    <2>6. \A j \in 1..length : v.buf[begin + LengthWidth + j] = w.buf[begin + LengthWidth + j]
      <3>1. \A j \in 1..length : begin + LengthWidth + j \in 1..size
        BY <1>1, <1>4, <2>3, <2>4
      <3>2. QED
        BY <1>7, <3>1
    <2>8. cut[i] <= Len(v.buf)
      BY <1>1, <1>4, <2>3, <2>4
    <2>9. QED
      BY <2>1, <2>2, <2>5, <2>6, <2>8 DEF Stands, begin, length
  <1>12. Written(v, more)
    <2>1. more[0] = 0 /\ more[Len(v.fields)] = Len(v.buf)
      BY <1>4, <1>6, <1>8, <1>9 DEF Written
    <2>2. QED
      BY <1>4, <1>6, <1>10, <1>11, <2>1 DEF Written
  <1>13. QED
    BY <1>3, <1>5, <1>12 DEF WriterOK, v

(* The fields of two histories that were written to one buffer begin and end  *)
(* at the same places: where two begin together, they have one length.        *)
LEMMA OneCut ==
  ASSUME NEW v, NEW w, NEW c, NEW at, WriterOK(v), WriterOK(w), Written(v, c), Written(w, at),
         v.buf = w.buf, NEW n \in Nat, n <= Len(v.fields), n <= Len(w.fields)
  PROVE  \A i \in 0..n : c[i] = at[i]
  <1> DEFINE Same == {i \in 0..n : c[i] = at[i]}
  <1>1. 0 \in Same
    BY DEF Written
  <1>2. ASSUME NEW i \in 0..n - 1, i \in Same PROVE i + 1 \in Same
    <2> DEFINE x == Len(v.fields[i + 1])
               y == Len(w.fields[i + 1])
    <2>1. Len(v.fields) \in Nat /\ Len(w.fields) \in Nat
      BY DEF WriterOK
    <2>2. i + 1 \in 1..Len(v.fields) /\ i + 1 \in 1..Len(w.fields) /\ (i + 1) - 1 = i
      BY <2>1
    <2>3. Stands(v, c, i + 1) /\ Stands(w, at, i + 1)
      BY <2>2 DEF Written
    <2>4. c[i] = at[i] /\ c[i] \in Nat
      BY <1>2, <2>2, <2>3 DEF Stands
    <2>6. \A j \in 1..LengthWidth : BigEndian(x, LengthWidth)[j] = BigEndian(y, LengthWidth)[j]
      <3>1. \A j \in 1..LengthWidth : v.buf[c[i] + j] = BigEndian(x, LengthWidth)[j]
        BY <2>2, <2>3 DEF Stands
      <3>2. \A j \in 1..LengthWidth : w.buf[at[i] + j] = BigEndian(y, LengthWidth)[j]
        BY <2>2, <2>3 DEF Stands
      <3> HIDE DEF x, y
      <3>3. ASSUME NEW j \in 1..LengthWidth
            PROVE  BigEndian(x, LengthWidth)[j] = BigEndian(y, LengthWidth)[j]
        <4>1. v.buf[c[i] + j] = w.buf[at[i] + j]
          BY <2>4
        <4>2. QED
          BY <3>1, <3>2, <4>1
      <3>4. QED
        BY <3>3
    <2>5. LengthWidth \in Nat /\ x \in 0..Weight[LengthWidth] - 1 /\ y \in 0..Weight[LengthWidth] - 1
      <3>1. x \in Nat /\ x < Weight[LengthWidth] /\ y \in Nat /\ y < Weight[LengthWidth]
        BY SMTT(30), <2>3 DEF Stands, Field
      <3> HIDE DEF x, y
      <3>2. LengthWidth \in Nat /\ Weight[LengthWidth] \in Nat
        BY WeightIs, EncodingAssumption
      <3>3. QED
        BY <3>1, <3>2
    <2> HIDE DEF x, y
    <2>7. x = y
      BY <2>5, <2>6, LengthReadBack
    <2>8. c[i + 1] = c[i] + LengthWidth + x /\ at[i + 1] = at[i] + LengthWidth + y
      BY <2>2, <2>3 DEF Stands, x, y
    <2>9. QED
      BY <2>4, <2>7, <2>8
  <1> HIDE DEF Same
  <1>3. 0..n \subseteq Same
    BY <1>1, <1>2, UpTo
  <1>4. QED
    BY <1>3 DEF Same

(* Neither of them has more fields than the other. *)
LEMMA NoFewer ==
  ASSUME NEW v, NEW w, WriterOK(v), WriterOK(w), v.buf = w.buf
  PROVE  Len(v.fields) >= Len(w.fields)
  <1>1. PICK c, at : Written(v, c) /\ Written(w, at)
    BY DEF WriterOK
  <1> DEFINE n == Len(v.fields)
  <1>2. n \in Nat /\ Len(w.fields) \in Nat
    BY DEF WriterOK
  <1>3. ASSUME n < Len(w.fields) PROVE FALSE
    <2>1. at[n] = c[n]
      BY <1>1, <1>2, <1>3, OneCut
    <2>2. n + 1 \in 1..Len(w.fields) /\ (n + 1) - 1 = n
      BY <1>2, <1>3
    <2>3. Stands(w, at, n + 1)
      BY <1>1, <2>2 DEF Written
    <2>4. at[n] = Len(w.buf)
      BY <1>1, <2>1 DEF Written
    <2> DEFINE length == Len(w.fields[n + 1])
    <2>5. at[n + 1] <= Len(w.buf) /\ at[n + 1] = at[n] + LengthWidth + length
          /\ length \in Nat /\ at[n] \in Nat
      BY <2>2, <2>3 DEF Stands, Field
    <2> HIDE DEF n, length
    <2>6. QED
      BY <2>4, <2>5, EncodingAssumption
  <1>4. QED
    BY <1>2, <1>3

LEMMA OneHistory ==
  ASSUME NEW v, NEW w, WriterOK(v), WriterOK(w), v.buf = w.buf
  PROVE  v.fields = w.fields
  <1>1. PICK c, at : Written(v, c) /\ Written(w, at)
    BY DEF WriterOK
  <1> DEFINE n == Len(v.fields)
  <1>2. n \in Nat /\ n = Len(w.fields) /\ v.fields \in Seq(Field) /\ w.fields \in Seq(Field)
    <2>1. v.fields \in Seq(Field) /\ w.fields \in Seq(Field)
      BY DEF WriterOK
    <2>2. Len(v.fields) >= Len(w.fields) /\ Len(w.fields) >= Len(v.fields)
      BY NoFewer
    <2>3. QED
      BY <2>1, <2>2
  <1>3. \A i \in 0..n : c[i] = at[i]
    BY <1>1, <1>2, OneCut
  <1>4. ASSUME NEW i \in 1..n PROVE v.fields[i] = w.fields[i]
    <2>1. Stands(v, c, i) /\ Stands(w, at, i)
      BY <1>1, <1>2 DEF Written
    <2>2. c[i] = at[i] /\ c[i - 1] = at[i - 1]
      BY <1>2, <1>3
    <2> DEFINE a == v.fields[i]
               b == w.fields[i]
    <2>3. a \in Seq(0..Base - 1) /\ b \in Seq(0..Base - 1)
      BY <2>1 DEF Stands, Field
    <2>4. Len(a) = Len(b)
      <3> DEFINE x == Len(a)
                 y == Len(b)
      <3>1. c[i] = c[i - 1] + LengthWidth + x /\ at[i] = at[i - 1] + LengthWidth + y
            /\ c[i - 1] \in Nat /\ x \in Nat /\ y \in Nat
        BY <2>1, <2>3 DEF Stands
      <3> HIDE DEF a, b, n, x, y
      <3>2. x = y
        <4>1. c[i - 1] + LengthWidth + x = c[i - 1] + LengthWidth + y
          BY <2>2, <3>1
        <4>2. LengthWidth \in Nat
          BY EncodingAssumption
        <4> DEFINE z == c[i - 1]
        <4>3. z \in Nat
          BY <3>1
        <4> HIDE DEF z
        <4>4. QED
          BY <3>1, <4>1, <4>2, <4>3 DEF z
      <3>3. QED
        BY <3>2 DEF x, y
    <2>5. \A j \in 1..Len(a) : a[j] = b[j]
      BY <2>1, <2>2, <2>4 DEF Stands
    <2> HIDE DEF a, b
    <2>6. a = b
      BY <2>3, <2>4, <2>5
    <2>7. QED
      BY <2>6 DEF a, b
  <1>5. QED
    BY <1>2, <1>4

LEMMA CallsOK ==
  ASSUME NEW w, WriterOK(w), NEW v \in Calls(w)
  PROVE  WriterOK(v)
  <1>1. ASSUME NEW b \in Bytes \cup Domain PROVE b \in Field
    BY EncodingAssumption DEF Field
  <1>2. ASSUME NEW n \in Ints \cup U32s, NEW width \in {IntWidth, U32Width}
        PROVE  BigEndian(n, width) \in Field
    <2>1. n \in Int /\ width \in Nat /\ width < Weight[LengthWidth]
      BY EncodingAssumption
    <2>2. QED
      BY <2>1, BigEndianType DEF Field
  <1>3. CASE w = Unused
    <2>1. PICK tag \in Domain : v = New(tag)
      BY <1>3 DEF Calls
    <2>2. QED
      BY <1>1, <2>1, UnusedOK, PutOK DEF New
  <1>4. CASE w # Unused
    <2>1. PICK b \in Field : v = Put(w, b)
      BY <1>1, <1>2, <1>4 DEF Calls, Int64, U32
    <2>2. QED
      BY <2>1, PutOK
  <1>5. QED
    BY <1>3, <1>4

-------------------------------------------------------------------------------
(* Hex texts. *)

Digit == 0..HexBase - 1

(* Two digits of a byte are told apart again. *)
LEMMA DigitsOfByte ==
  ASSUME NEW high \in Digit, NEW low \in Digit
  PROVE  /\ (high * HexBase + low) \div HexBase = high
         /\ (high * HexBase + low) % HexBase = low
  <1>1. HexBase \in Nat \ {0} /\ high \in Nat /\ low \in 0..HexBase - 1
    BY EncodingAssumption DEF Digit
  <1>2. \A h, l \in Nat, b \in Nat \ {0} : l < b => (h * b + l) \div b = h
    OBVIOUS
  <1>3. \A h, l \in Nat, b \in Nat \ {0} : l < b => (h * b + l) % b = l
    OBVIOUS
  <1>4. QED
    BY <1>1, <1>2, <1>3

(* What a text of digits decodes to is written as that text, in lower case,  *)
(* and decodes to the same bytes again.                                      *)
LEMMA WrittenAsRead ==
  ASSUME NEW t \in Seq(Character), FromHex(t) # Undecodable
  PROVE  /\ ToHex(FromHex(t)) = [i \in DOMAIN t |-> LowerCase(t[i].digit)]
         /\ FromHex(ToHex(FromHex(t))) = FromHex(t)
         /\ Len(t) = 2 * Len(FromHex(t))
  <1> DEFINE n == Len(t) \div 2
             byte(i) == t[2 * i - 1].digit * HexBase + t[2 * i].digit
             bytes == FromHex(t)
             lower == [i \in DOMAIN t |-> LowerCase(t[i].digit)]
  <1>1. Len(t) \in Nat /\ Len(t) % 2 = 0 /\ DOMAIN t = 1..Len(t)
        /\ bytes = [i \in 1..n |-> byte(i)]
        /\ \A i \in DOMAIN t : t[i].digit # HexBase
    BY DEF FromHex
  <1>2. n \in Nat /\ Len(t) = 2 * n
    <2>1. \A l \in Nat : l % 2 = 0 => l \div 2 \in Nat /\ l = 2 * (l \div 2)
      OBVIOUS
    <2>2. QED
      BY <1>1, <2>1
  <1>3. ASSUME NEW i \in 1..2 * n PROVE t[i].digit \in Digit
    <2>1. i \in DOMAIN t /\ t[i] \in Character
      BY <1>1, <1>2
    <2>2. t[i].digit \in 0..HexBase /\ t[i].digit # HexBase
      BY <1>1, <2>1, EncodingAssumption
    <2>3. QED
      BY <2>2, EncodingAssumption DEF Digit
  <1> HIDE DEF n
  <1>4. ASSUME NEW j \in 1..2 * n
        PROVE  (IF j % 2 = 1 THEN byte((j + 1) \div 2) \div HexBase
                ELSE byte((j + 1) \div 2) % HexBase) = t[j].digit
    <2> DEFINE i == (j + 1) \div 2
    <2>1. i \in 1..n /\ 2 * i - 1 \in 1..2 * n /\ 2 * i \in 1..2 * n
      BY <1>2
    <2>2. t[2 * i - 1].digit \in Digit /\ t[2 * i].digit \in Digit
      BY <1>3, <2>1
    <2>3. byte(i) \div HexBase = t[2 * i - 1].digit /\ byte(i) % HexBase = t[2 * i].digit
      BY <2>2, DigitsOfByte
    <2>4. IF j % 2 = 1 THEN j = 2 * i - 1 ELSE j = 2 * i
      BY <1>2
    <2> HIDE DEF i, byte
    <2>5. QED
      BY <2>3, <2>4 DEF i
  <1> HIDE DEF bytes
  <1>5. DOMAIN bytes = 1..n /\ Len(bytes) = n /\ \A i \in 1..n : bytes[i] = byte(i)
    BY <1>1, <1>2
  <1>6. ToHex(bytes) = lower
    <2>1. ASSUME NEW j \in 1..2 * n
          PROVE  bytes[(j + 1) \div 2] = byte((j + 1) \div 2)
      <3>1. (j + 1) \div 2 \in 1..n
        BY <1>2
      <3>2. QED
        BY <1>5, <3>1
    <2>2. DOMAIN t = 1..2 * n
      BY <1>1, <1>2
    <2> HIDE DEF byte
    <2>3. QED
      BY <1>4, <1>5, <2>1, <2>2 DEF ToHex
  <1>7. FromHex(lower) = bytes
    <2>1. DOMAIN lower = 1..2 * n /\ Len(lower) = 2 * n /\ DOMAIN t = 1..2 * n
      BY <1>1, <1>2
    <2>2. \A i \in 1..2 * n : lower[i].digit = t[i].digit
      BY <2>1 DEF LowerCase
    <2> HIDE DEF lower
    <2>3. (2 * n) % 2 = 0 /\ (2 * n) \div 2 = n
      BY <1>2
    <2>4. FromHex(lower) = [i \in 1..n |-> lower[2 * i - 1].digit * HexBase + lower[2 * i].digit]
      BY <1>1, <2>1, <2>2, <2>3 DEF FromHex
    <2>5. ASSUME NEW i \in 1..n
          PROVE  lower[2 * i - 1].digit = t[2 * i - 1].digit /\ lower[2 * i].digit = t[2 * i].digit
      <3>1. 2 * i - 1 \in 1..2 * n /\ 2 * i \in 1..2 * n
        BY <1>2
      <3>2. QED
        BY <2>2, <3>1
    <2>6. QED
      BY <1>1, <2>4, <2>5 DEF bytes
  <1>8. QED
    BY <1>2, <1>5, <1>6, <1>7 DEF bytes

-------------------------------------------------------------------------------
(* The theorems. *)

EncInv == WriterOK(left) /\ WriterOK(right) /\ text \in Seq(Character)

LEMMA EncInvInit == EncInit => EncInv
  BY UnusedOK DEF EncInit, EncInv

LEMMA EncInvStep == EncInv /\ [EncNext]_encVars => EncInv'
  <1> SUFFICES ASSUME EncInv, [EncNext]_encVars PROVE EncInv'
    OBVIOUS
  <1>1. CASE WriteLeft
    BY <1>1, CallsOK DEF WriteLeft, EncInv
  <1>2. CASE WriteRight
    BY <1>2, CallsOK DEF WriteRight, EncInv
  <1>3. CASE Type
    BY <1>3 DEF Type, EncInv, writers
  <1>4. CASE UNCHANGED encVars
    BY <1>4 DEF encVars, EncInv
  <1>5. QED
    BY <1>1, <1>2, <1>3, <1>4 DEF EncNext

LEMMA EncInvHolds == EncSpec => []EncInv
  <1>1. QED
    BY EncInvInit, EncInvStep, PTL DEF EncSpec

(* Two messages of any domains and any fields, whatever the base, the widths *)
(* of lengths and integers and the number of calls, that come to one byte    *)
(* string are one message.                                                   *)
THEOREM UnambiguousHolds == EncSpec => []Unambiguous
  <1>1. EncInv => Unambiguous
    BY OneHistory DEF EncInv, Unambiguous
  <1>2. QED
    BY <1>1, EncInvHolds, PTL

(* A hex text of any length decodes to bytes that are written as it, but for *)
(* the case of its letters; and to an array of one size only.                *)
THEOREM OneTextHolds == EncSpec => []OneTextPerCase
  <1>1. EncInv => OneTextPerCase
    <2> SUFFICES ASSUME EncInv PROVE OneTextPerCase
      OBVIOUS
    <2> DEFINE bytes == FromHex(text)
    <2>1. text \in Seq(Character)
      BY DEF EncInv
    <2>2. bytes # Undecodable =>
             /\ ToHex(bytes) = [i \in DOMAIN text |-> LowerCase(text[i].digit)]
             /\ FromHex(ToHex(bytes)) = bytes /\ Len(text) = 2 * Len(bytes)
      BY <2>1, WrittenAsRead
    <2>3. ASSUME NEW n \in 0..MaxText, DecodeArray(text, n) # Undecodable
          PROVE  Len(text) = 2 * n
      <3>1. bytes # Undecodable /\ Len(bytes) = n
        BY <2>3 DEF DecodeArray
      <3>2. QED
        BY <2>2, <3>1
    <2> HIDE DEF bytes
    <2>4. QED
      BY <2>2, <2>3 DEF OneTextPerCase, bytes
  <1>2. QED
    BY <1>1, EncInvHolds, PTL

-------------------------------------------------------------------------------
(* Trees: their splits, hashes, paths and walks. *)

(* The powers of two. *)
LEMMA PowerIs ==
  /\ Power[0] = 1
  /\ \A k \in Nat : Power[k + 1] = 2 * Power[k]
  /\ \A k \in Nat : Power[k] \in Nat \ {0} /\ k < Power[k]
  <1> DEFINE T == Nat \ {0}
             one == 1
             step == [w \in T |-> 2 * w]
  <1>1. step \in [T -> T] /\ one \in T
    OBVIOUS
  <1>2. PICK f \in [Nat -> T] : f[0] = one /\ \A n \in Nat : f[n + 1] = step[f[n]]
    <2> HIDE DEF step, T, one
    <2>1. QED
      BY <1>1, FunctionBySteps
  <1>3. ASSUME NEW k \in Nat PROVE f[k] = IF k = 0 THEN 1 ELSE 2 * f[k - 1]
    <2>1. CASE k = 0
      BY <1>2, <2>1
    <2>2. CASE k # 0
      <3>1. k - 1 \in Nat /\ (k - 1) + 1 = k
        BY <2>2
      <3>2. f[k] = step[f[k - 1]]
        BY <1>2, <3>1
      <3>3. QED
        BY <1>2, <2>2, <3>1, <3>2
    <2>3. QED
      BY <2>1, <2>2
  <1>4. f = [k \in Nat |-> IF k = 0 THEN 1 ELSE 2 * f[k - 1]]
    BY <1>3
  <1>5. Power = [k \in Nat |-> IF k = 0 THEN 1 ELSE 2 * Power[k - 1]]
    BY <1>4 DEF Power
  <1>6. ASSUME NEW k \in Nat PROVE Power[k + 1] = 2 * Power[k]
    BY <1>5
  <1>7. ASSUME NEW k \in Nat PROVE Power[k] \in Nat \ {0} /\ k < Power[k]
    <2> DEFINE Good == {i \in Nat : Power[i] \in Nat \ {0} /\ i < Power[i]}
    <2>1. 0 \in Good
      BY <1>5
    <2>2. ASSUME NEW i \in 0..k - 1, i \in Good PROVE i + 1 \in Good
      BY <1>6, <2>2
    <2> HIDE DEF Good
    <2>3. 0..k \subseteq Good
      BY <2>1, <2>2, UpTo
    <2>4. QED
      BY <2>3 DEF Good
  <1>8. QED
    BY <1>5, <1>6, <1>7

LEMMA PowerGrows ==
  ASSUME NEW j \in Nat, NEW k \in Nat, j <= k
  PROVE  Power[j] <= Power[k]
  <1> DEFINE Good == {i \in Nat : Power[j] <= Power[j + i]}
  <1>1. 0 \in Good
    BY PowerIs
  <1>2. ASSUME NEW i \in 0..(k - j) - 1, i \in Good PROVE i + 1 \in Good
    <2>1. j + i \in Nat /\ j + (i + 1) = (j + i) + 1
      OBVIOUS
    <2>2. Power[j + (i + 1)] = 2 * Power[j + i] /\ Power[j + i] \in Nat /\ Power[j] \in Nat
      BY <2>1, PowerIs
    <2>3. QED
      BY <1>2, <2>2
  <1> HIDE DEF Good
  <1>3. 0..k - j \subseteq Good
    BY <1>1, <1>2, UpTo
  <1>4. k - j \in Good /\ j + (k - j) = k
    BY <1>3
  <1>5. QED
    BY <1>4 DEF Good

(* Both parts of a split have leaves. *)
LEMMA SplitIs ==
  ASSUME NEW n \in Nat, n >= 2
  PROVE  SplitPoint(n) \in Nat /\ SplitPoint(n) \in 1..n - 1 /\ n - SplitPoint(n) \in 1..n - 1
  <1> DEFINE S == {Power[j] : j \in 0..n} \cap 1..n - 1
             T == {n - x : x \in S}
  <1>1. 1 \in S
    <2>1. Power[0] = 1
      BY PowerIs
    <2>2. 0 \in 0..n /\ 1 \in 1..n - 1
      OBVIOUS
    <2>3. QED
      BY <2>1, <2>2
  <1>2. S \subseteq 1..n - 1
    OBVIOUS
  <1> HIDE DEF S
  <1>3. PICK y \in T : \A z \in T : y <= z
    <2>1. T \in SUBSET Nat /\ T # {}
      BY <1>1, <1>2
    <2> HIDE DEF T
    <2>2. QED
      BY <2>1, HasLeast
  <1>4. PICK x \in S : y = n - x
    BY <1>3
  <1>5. \A z \in S : x >= z
    BY <1>2, <1>3, <1>4
  <1>6. Max(S) \in S
    BY <1>4, <1>5 DEF Max
  <1>7. SplitPoint(n) \in 1..n - 1
    BY <1>2, <1>6 DEF SplitPoint, S
  <1>8. QED
    BY <1>7

(* The largest power of two below 2^k + r is 2^k, for r up to 2^k. *)
LEMMA SplitOf ==
  ASSUME NEW k \in Nat, NEW r \in 1..Power[k]
  PROVE  SplitPoint(Power[k] + r) = Power[k]
  <1> DEFINE n == Power[k] + r
             S == {Power[j] : j \in 0..n} \cap 1..n - 1
  <1>1. Power[k] \in Nat \ {0} /\ k < Power[k] /\ Power[k + 1] = 2 * Power[k]
    BY PowerIs
  <1>2. n \in Nat /\ Power[k] \in 1..n - 1 /\ k \in 0..n /\ n <= Power[k + 1]
    BY <1>1
  <1> HIDE DEF n
  <1>3. Power[k] \in S
    BY <1>2
  <1>4. ASSUME NEW x \in S PROVE x <= Power[k]
    <2>1. PICK j \in 0..n : x = Power[j]
      BY <1>4
    <2>2. x \in 1..n - 1
      BY <1>4
    <2>3. j \in Nat /\ k + 1 \in Nat
      BY <1>2
    <2>4. CASE j <= k
      <3>1. Power[j] <= Power[k]
        BY <2>3, <2>4, PowerGrows
      <3>2. QED
        BY <2>1, <3>1
    <2>5. CASE ~(j <= k)
      <3>1. k + 1 <= j
        BY <2>3, <2>5
      <3>2. Power[k + 1] <= Power[j] /\ Power[k + 1] \in Nat
        BY <2>3, <3>1, PowerGrows, PowerIs
      <3>3. QED
        BY <1>2, <2>1, <2>2, <3>2
    <2>6. QED
      BY <2>4, <2>5
  <1>5. S \subseteq Nat
    BY <1>2
  <1> HIDE DEF S
  <1>6. Max(S) = Power[k]
    <2>1. \A y \in S : Power[k] >= y
      BY <1>1, <1>4, <1>5
    <2>2. Max(S) \in S /\ \A y \in S : Max(S) >= y
      BY <1>3, <2>1 DEF Max
    <2>3. Max(S) \in Nat /\ Max(S) >= Power[k] /\ Power[k] >= Max(S)
      BY <1>3, <1>5, <2>1, <2>2
    <2> HIDE DEF Max
    <2>4. QED
      BY <1>1, <2>3
  <1>7. QED
    BY <1>6 DEF SplitPoint, S, n

(* What the recursions of hash, path and walk make of n leaves, given what    *)
(* they made of fewer, and that of rows of the row before: `a` says which of  *)
(* them, and of what.                                                         *)
MthAt(leaves, f, n) ==
    LET k == SplitPoint(n)
    IN  [lo \in Nat |-> IF n = 1 THEN leaves[lo + 1] ELSE NodeHash(f[k][lo], f[n - k][lo + k])]

PathAt(leaves, index, f, n) ==
    LET k == SplitPoint(n)
        mth == Mth(leaves)
    IN  [lo \in Nat |->
            IF n = 1 THEN <<>>
            ELSE IF index - lo < k THEN Append(f[k][lo], mth[n - k][lo + k])
            ELSE Append(f[n - k][lo + k], mth[k][lo])]

WalkAt(leaf, index, path, f, n) ==
    LET k == SplitPoint(n)
    IN  [lo \in Nat |-> [depth \in Nat |->
            IF n = 1 THEN (IF depth = 0 THEN leaf ELSE Malformed)
            ELSE IF depth = 0 THEN Malformed
            ELSE IF index - lo < k
            THEN LET near == f[k][lo][depth - 1]
                 IN  IF near = Malformed THEN Malformed ELSE NodeHash(near, path[depth])
            ELSE LET far == f[n - k][lo + k][depth - 1]
                 IN  IF far = Malformed THEN Malformed ELSE NodeHash(path[depth], far)]]

RowAt(leaves, f, n) == IF n = 1 THEN leaves ELSE PairUp(f[n - 1])

RecursionAt(a, f, n) ==
    IF a.of = "mth" THEN MthAt(a.leaves, f, n)
    ELSE IF a.of = "path" THEN PathAt(a.leaves, a.index, f, n)
    ELSE IF a.of = "rows" THEN RowAt(a.leaves, f, n)
    ELSE WalkAt(a.leaf, a.index, a.path, f, n)

(* There are functions that satisfy them, as each split leaves less on either *)
(* side.                                                                      *)
LEMMA RecursionExists ==
  ASSUME NEW a
  PROVE  \E f : f = [n \in Nat \ {0} |-> RecursionAt(a, f, n)]
  <1> DEFINE At(f, n) == RecursionAt(a, f, n)
             Good(f, n) == \A s \in 1..n : f[s] = At(f, s)
  <1>1. ASSUME NEW f, NEW g, NEW n \in Nat \ {0}, \A s \in 1..n - 1 : f[s] = g[s]
        PROVE  At(f, n) = At(g, n)
    <2>1. CASE n = 1
      <3>1. MthAt(a.leaves, f, n) = MthAt(a.leaves, g, n)
        BY <2>1 DEF MthAt
      <3>2. PathAt(a.leaves, a.index, f, n) = PathAt(a.leaves, a.index, g, n)
        BY <2>1 DEF PathAt
      <3>3. WalkAt(a.leaf, a.index, a.path, f, n) = WalkAt(a.leaf, a.index, a.path, g, n)
        BY <2>1 DEF WalkAt
      <3>4. RowAt(a.leaves, f, n) = RowAt(a.leaves, g, n)
        BY <2>1 DEF RowAt
      <3>5. QED
        BY <3>1, <3>2, <3>3, <3>4 DEF RecursionAt
    <2>2. CASE n # 1
      <3>1. SplitPoint(n) \in 1..n - 1 /\ n - SplitPoint(n) \in 1..n - 1
        BY <2>2, SplitIs
      <3>2. f[SplitPoint(n)] = g[SplitPoint(n)] /\ f[n - SplitPoint(n)] = g[n - SplitPoint(n)]
        BY <1>1, <3>1
      <3>3. MthAt(a.leaves, f, n) = MthAt(a.leaves, g, n)
        BY <3>2 DEF MthAt
      <3>4. PathAt(a.leaves, a.index, f, n) = PathAt(a.leaves, a.index, g, n)
        BY <3>2 DEF PathAt
      <3>5. WalkAt(a.leaf, a.index, a.path, f, n) = WalkAt(a.leaf, a.index, a.path, g, n)
        BY <3>2 DEF WalkAt
      <3>6. RowAt(a.leaves, f, n) = RowAt(a.leaves, g, n)
        <4>1. f[n - 1] = g[n - 1]
          BY <1>1, <2>2
        <4>2. QED
          BY <4>1 DEF RowAt
      <3>7. QED
        BY <3>3, <3>4, <3>5, <3>6 DEF RecursionAt
    <2>3. QED
      BY <2>1, <2>2
  <1> HIDE DEF At
  <1>2. ASSUME NEW n \in Nat PROVE \E f : Good(f, n)
    <2> DEFINE Some == {i \in Nat : \E f : Good(f, i)}
    <2>1. 0 \in Some
      OBVIOUS
    <2>2. ASSUME NEW i \in 0..n - 1, i \in Some PROVE i + 1 \in Some
      <3>1. PICK f : Good(f, i)
        BY <2>2
      <3> DEFINE g == [s \in Nat |-> IF s <= i THEN f[s] ELSE At(f, s)]
      <3>2. ASSUME NEW s \in 1..i + 1 PROVE g[s] = At(g, s)
        <4>1. \A r \in 1..s - 1 : g[r] = f[r]
          OBVIOUS
        <4>2. s \in Nat \ {0} /\ g[s] = IF s <= i THEN f[s] ELSE At(f, s)
          OBVIOUS
        <4> HIDE DEF g
        <4>3. At(g, s) = At(f, s)
          BY <1>1, <4>1, <4>2
        <4>4. g[s] = At(f, s)
          BY <3>1, <4>2
        <4>5. QED
          BY <4>3, <4>4
      <3> HIDE DEF g
      <3>3. Good(g, i + 1)
        BY <3>2
      <3>4. QED
        BY <3>3
    <2> HIDE DEF Some
    <2>3. 0..n \subseteq Some
      BY <2>1, <2>2, UpTo
    <2>4. QED
      BY <2>3 DEF Some
  <1>3. ASSUME NEW f, NEW g, NEW m \in Nat, NEW n \in Nat, Good(f, m), Good(g, n),
               NEW s \in 1..m, s <= n
        PROVE  f[s] = g[s]
    <2> DEFINE Bad == {r \in 1..s : f[r] # g[r]}
    <2>1. ASSUME Bad # {} PROVE FALSE
      <3>1. PICK r \in Bad : \A q \in Bad : r <= q
        <4>1. Bad \in SUBSET Nat
          OBVIOUS
        <4> HIDE DEF Bad
        <4>2. QED
          BY <2>1, <4>1, HasLeast
      <3>2. \A q \in 1..r - 1 : f[q] = g[q]
        BY <3>1
      <3>3. At(f, r) = At(g, r)
        BY <1>1, <3>1, <3>2
      <3>4. f[r] = At(f, r) /\ g[r] = At(g, r)
        BY <1>3, <3>1
      <3>5. QED
        BY <3>1, <3>3, <3>4
    <2>2. QED
      BY <2>1
  <1> DEFINE Best(n) == CHOOSE f : Good(f, n)
             F == [n \in Nat \ {0} |-> Best(n)[n]]
  <1>4. ASSUME NEW n \in Nat PROVE Good(Best(n), n)
    BY <1>2
  <1> HIDE DEF Good, Best
  <1>5. ASSUME NEW n \in Nat \ {0} PROVE F[n] = At(F, n)
    <2>1. \A s \in 1..n - 1 : F[s] = Best(n)[s]
      <3> SUFFICES ASSUME NEW s \in 1..n - 1 PROVE F[s] = Best(n)[s]
        OBVIOUS
      <3>1. s \in Nat \ {0} /\ s \in 1..s /\ s <= n /\ F[s] = Best(s)[s]
        OBVIOUS
      <3>2. QED
        BY <1>3, <1>4, <3>1
    <2>2. F[n] = Best(n)[n]
      OBVIOUS
    <2> HIDE DEF F
    <2>3. At(F, n) = At(Best(n), n)
      BY <1>1, <2>1
    <2>4. Best(n)[n] = At(Best(n), n)
      BY <1>4 DEF Good
    <2>5. QED
      BY <2>2, <2>3, <2>4
  <1>6. F = [n \in Nat \ {0} |-> At(F, n)]
    <2>1. F = [n \in Nat \ {0} |-> F[n]]
      OBVIOUS
    <2> HIDE DEF F
    <2>2. QED
      BY <1>5, <2>1
  <1> HIDE DEF F
  <1>7. QED
    BY <1>6 DEF At

(* Hash, path and walk, level by level. *)
LEMMA MthIs ==
  ASSUME NEW leaves, NEW n \in Nat \ {0}, NEW lo \in Nat
  PROVE  LET mth == Mth(leaves)
             k == SplitPoint(n)
         IN  mth[n][lo] = IF n = 1 THEN leaves[lo + 1]
                          ELSE NodeHash(mth[k][lo], mth[n - k][lo + k])
  <1> DEFINE mth == Mth(leaves)
             a == [of |-> "mth", leaves |-> leaves]
  <1>1. mth = CHOOSE f : f = [i \in Nat \ {0} |-> MthAt(leaves, f, i)]
    BY DEF Mth, MthAt
  <1>2. \A f, i : RecursionAt(a, f, i) = MthAt(leaves, f, i)
    BY DEF RecursionAt
  <1> HIDE DEF mth, a
  <1>3. \E f : f = [i \in Nat \ {0} |-> MthAt(leaves, f, i)]
    BY <1>2, RecursionExists
  <1>4. mth = [i \in Nat \ {0} |-> MthAt(leaves, mth, i)]
    BY <1>1, <1>3
  <1>5. mth[n] = MthAt(leaves, mth, n)
    BY <1>4
  <1>6. QED
    BY <1>5 DEF MthAt, mth

LEMMA PathIs ==
  ASSUME NEW leaves, NEW index, NEW n \in Nat \ {0}, NEW lo \in Nat
  PROVE  LET mth == Mth(leaves)
             path == Path(leaves, index)
             k == SplitPoint(n)
         IN  path[n][lo] = IF n = 1 THEN <<>>
                           ELSE IF index - lo < k THEN Append(path[k][lo], mth[n - k][lo + k])
                           ELSE Append(path[n - k][lo + k], mth[k][lo])
  <1> DEFINE path == Path(leaves, index)
             a == [of |-> "path", leaves |-> leaves, index |-> index]
  <1>1. path = CHOOSE f : f = [i \in Nat \ {0} |-> PathAt(leaves, index, f, i)]
    BY DEF Path, PathAt
  <1>2. \A f, i : RecursionAt(a, f, i) = PathAt(leaves, index, f, i)
    BY DEF RecursionAt
  <1> HIDE DEF path, a
  <1>3. \E f : f = [i \in Nat \ {0} |-> PathAt(leaves, index, f, i)]
    BY <1>2, RecursionExists
  <1>4. path = [i \in Nat \ {0} |-> PathAt(leaves, index, path, i)]
    BY <1>1, <1>3
  <1>5. path[n] = PathAt(leaves, index, path, n)
    BY <1>4
  <1>6. QED
    BY <1>5 DEF PathAt, path

WalksAs(walk, leaf, index, path, n, lo, depth) ==
    LET k == SplitPoint(n)
        near == walk[k][lo][depth - 1]
        far == walk[n - k][lo + k][depth - 1]
    IN  walk[n][lo][depth] =
           IF n = 1 THEN (IF depth = 0 THEN leaf ELSE Malformed)
           ELSE IF depth = 0 THEN Malformed
           ELSE IF index - lo < k
           THEN (IF near = Malformed THEN Malformed ELSE NodeHash(near, path[depth]))
           ELSE (IF far = Malformed THEN Malformed ELSE NodeHash(path[depth], far))

LEMMA WalkIs ==
  ASSUME NEW leaf, NEW index, NEW path, NEW n \in Nat \ {0}, NEW lo \in Nat, NEW depth \in Nat
  PROVE  WalksAs(Walk(leaf, index, path), leaf, index, path, n, lo, depth)
  <1> DEFINE walk == Walk(leaf, index, path)
             a == [of |-> "walk", leaf |-> leaf, index |-> index, path |-> path]
  <1>1. walk = CHOOSE f : f = [i \in Nat \ {0} |-> WalkAt(leaf, index, path, f, i)]
    BY DEF Walk, WalkAt
  <1>2. \A f, i : RecursionAt(a, f, i) = WalkAt(leaf, index, path, f, i)
    BY DEF RecursionAt
  <1> HIDE DEF walk, a
  <1>3. \E f : f = [i \in Nat \ {0} |-> WalkAt(leaf, index, path, f, i)]
    BY <1>2, RecursionExists
  <1>4. walk = [i \in Nat \ {0} |-> WalkAt(leaf, index, path, walk, i)]
    BY <1>1, <1>3
  <1>5. walk[n] = WalkAt(leaf, index, path, walk, n)
    BY <1>4
  <1>6. walk[n][lo][depth] = WalkAt(leaf, index, path, walk, n)[lo][depth]
    BY <1>5
  <1>7. QED
    BY <1>6 DEF WalkAt, WalksAs, walk

(* The hashes of the subtrees. *)
Hashes(leaves) == {Mth(leaves)[n][lo] : n \in Nat \ {0}, lo \in Nat}

(* The siblings are hashes of subtrees. *)
LEMMA PathType ==
  ASSUME NEW leaves, NEW index, NEW n \in Nat \ {0}, NEW lo \in Nat
  PROVE  Path(leaves, index)[n][lo] \in Seq(Hashes(leaves))
  <1> DEFINE mth == Mth(leaves)
             path == Path(leaves, index)
             H == Hashes(leaves)
             Bad == {m \in Nat \ {0} : \E l \in Nat : path[m][l] \notin Seq(H)}
  <1>1. ASSUME NEW m \in Nat \ {0}, NEW l \in Nat PROVE mth[m][l] \in H
    BY DEF Hashes
  <1> HIDE DEF mth, path, H
  <1>2. ASSUME Bad # {} PROVE FALSE
    <2>1. PICK m \in Bad : \A q \in Bad : m <= q
      <3>1. Bad \in SUBSET Nat
        OBVIOUS
      <3> HIDE DEF Bad
      <3>2. QED
        BY <1>2, <3>1, HasLeast
    <2>2. PICK l \in Nat : path[m][l] \notin Seq(H)
      BY <2>1
    <2> DEFINE k == SplitPoint(m)
    <2>3. path[m][l] = IF m = 1 THEN <<>>
                       ELSE IF index - l < k THEN Append(path[k][l], mth[m - k][l + k])
                       ELSE Append(path[m - k][l + k], mth[k][l])
      BY <2>1, PathIs DEF path, mth
    <2>4. m # 1
      BY <2>2, <2>3
    <2>5. k \in 1..m - 1 /\ m - k \in 1..m - 1
      BY <2>1, <2>4, SplitIs
    <2> HIDE DEF k
    <2>6. k \in Nat \ {0} /\ m - k \in Nat \ {0} /\ l + k \in Nat /\ ~(m <= k) /\ ~(m <= m - k)
      BY <2>1, <2>5
    <2>7. path[k][l] \in Seq(H) /\ path[m - k][l + k] \in Seq(H)
      BY <2>1, <2>6
    <2>8. mth[m - k][l + k] \in H /\ mth[k][l] \in H
      BY <1>1, <2>6
    <2>9. QED
      BY <2>2, <2>3, <2>4, <2>7, <2>8
  <1>3. QED
    BY <1>2 DEF path, H

(* Nothing hashes to what a failed walk returns. *)
LEMMA NodesAre ==
  ASSUME NEW l, NEW r
  PROVE  /\ NodeHash(l, r) # Malformed
         /\ \A l2, r2 : NodeHash(l, r) = NodeHash(l2, r2) => l = l2 /\ r = r2
  BY DEF NodeHash, Malformed

(* None of n leaves is what a failed walk returns. *)
Proper(leaves, n) == \A i \in 1..n : leaves[i] # Malformed

(* A walk that ends at the hash of a subtree began at its leaf of that index, *)
(* whatever the siblings were.                                                *)
LEMMA WalkSound ==
  ASSUME NEW leaves, NEW N \in Nat, Proper(leaves, N),
         NEW leaf, NEW index \in Nat, NEW path, NEW n \in Nat \ {0}, NEW lo \in Nat,
         NEW depth \in Nat, lo <= index, index < lo + n, lo + n <= N,
         Walk(leaf, index, path)[n][lo][depth] = Mth(leaves)[n][lo]
  PROVE  leaf = leaves[index + 1]
  <1> DEFINE mth == Mth(leaves)
             walk == Walk(leaf, index, path)
             Arrives(m, l, e) == l <= index /\ index < l + m /\ l + m <= N
                                    /\ walk[m][l][e] = mth[m][l]
             Bad == {m \in Nat \ {0} : \E l, e \in Nat : Arrives(m, l, e)}
  <1> SUFFICES ASSUME leaf # leaves[index + 1] PROVE FALSE
    OBVIOUS
  <1>1. n \in Bad
    OBVIOUS
  <1> HIDE DEF mth, walk
  <1>2. PICK m \in Bad : \A q \in Bad : m <= q
    <2>1. Bad \in SUBSET Nat /\ Bad # {}
      BY <1>1
    <2> HIDE DEF Bad
    <2>2. QED
      BY <2>1, HasLeast
  <1>3. PICK l \in Nat, e \in Nat : Arrives(m, l, e)
    BY <1>2
  <1> DEFINE k == SplitPoint(m)
             near == walk[k][l][e - 1]
             far == walk[m - k][l + k][e - 1]
  <1>4. /\ walk[m][l][e] =
               IF m = 1 THEN (IF e = 0 THEN leaf ELSE Malformed)
               ELSE IF e = 0 THEN Malformed
               ELSE IF index - l < k
               THEN (IF near = Malformed THEN Malformed ELSE NodeHash(near, path[e]))
               ELSE (IF far = Malformed THEN Malformed ELSE NodeHash(path[e], far))
        /\ mth[m][l] = IF m = 1 THEN leaves[l + 1]
                       ELSE NodeHash(mth[k][l], mth[m - k][l + k])
    <2>1. m \in Nat \ {0}
      BY <1>2
    <2> HIDE DEF Bad
    <2>2. mth[m][l] = IF m = 1 THEN leaves[l + 1] ELSE NodeHash(mth[k][l], mth[m - k][l + k])
      BY <2>1, MthIs DEF mth
    <2>3. walk[m][l][e] =
               IF m = 1 THEN (IF e = 0 THEN leaf ELSE Malformed)
               ELSE IF e = 0 THEN Malformed
               ELSE IF index - l < k
               THEN (IF near = Malformed THEN Malformed ELSE NodeHash(near, path[e]))
               ELSE (IF far = Malformed THEN Malformed ELSE NodeHash(path[e], far))
      <3>1. WalksAs(walk, leaf, index, path, m, l, e)
        BY <2>1, WalkIs DEF walk
      <3>2. QED
        BY <3>1 DEF WalksAs
    <2>4. QED
      BY <2>2, <2>3
  <1> HIDE DEF near, far
  <1>5. CASE m = 1
    <2>1. l = index /\ leaves[index + 1] # Malformed
      BY <1>3, <1>5 DEF Proper
    <2>2. QED
      BY <1>3, <1>4, <1>5, <2>1
  <1>6. CASE m # 1
    <2>1. k \in 1..m - 1 /\ m - k \in 1..m - 1
      BY <1>2, <1>6, SplitIs
    <2> HIDE DEF k
    <2>2. k \in Nat \ {0} /\ m - k \in Nat \ {0} /\ l + k \in Nat /\ ~(m <= k) /\ ~(m <= m - k)
      BY <1>2, <2>1
    <2>3. mth[m][l] = NodeHash(mth[k][l], mth[m - k][l + k]) /\ mth[m][l] # Malformed
      BY <1>4, <1>6, NodesAre
    <2>4. walk[m][l][e] = mth[m][l]
      BY <1>3
    <2>5. e # 0 /\ e - 1 \in Nat
      BY <1>4, <1>6, <2>3, <2>4
    <2>6. CASE index - l < k
      <3>1. near # Malformed /\ NodeHash(near, path[e]) = mth[m][l]
        BY <1>4, <1>6, <2>3, <2>4, <2>5, <2>6
      <3>2. walk[k][l][e - 1] = mth[k][l]
        BY <2>3, <3>1, NodesAre DEF near
      <3>3. l <= index /\ index < l + k /\ l + k <= N
        BY <1>2, <1>3, <2>1, <2>6
      <3>4. k \in Bad
        BY <2>2, <2>5, <3>2, <3>3
      <3>5. QED
        BY <1>2, <2>2, <3>4
    <2>7. CASE ~(index - l < k)
      <3>1. far # Malformed /\ NodeHash(path[e], far) = mth[m][l]
        BY <1>4, <1>6, <2>3, <2>4, <2>5, <2>7
      <3>2. walk[m - k][l + k][e - 1] = mth[m - k][l + k]
        BY <2>3, <3>1, NodesAre DEF far
      <3>3. l + k <= index /\ index < (l + k) + (m - k) /\ (l + k) + (m - k) <= N
        BY <1>2, <1>3, <2>1, <2>7
      <3>4. m - k \in Bad
        BY <2>2, <2>5, <3>2, <3>3
      <3>5. QED
        BY <1>2, <2>2, <3>4
    <2>8. QED
      BY <2>6, <2>7
  <1>7. QED
    BY <1>5, <1>6

(* One path begins with another. *)
Along(p, q) == \A j \in 1..Len(q) : p[j] = q[j]

Reaches(leaves, index, p, n, lo) ==
    Walk(leaves[index + 1], index, p)[n][lo][Len(Path(leaves, index)[n][lo])]
       = Mth(leaves)[n][lo]

(* The leaf of this index is one of those n of N. *)
Covers(index, n, lo, N) == lo <= index /\ index < lo + n /\ lo + n <= N

(* A walk from a leaf along the siblings that were collected for it arrives. *)
LEMMA WalkComplete ==
  ASSUME NEW leaves, NEW N \in Nat, Proper(leaves, N),
         NEW index \in Nat, NEW p, NEW n \in Nat \ {0}, NEW lo \in Nat,
         Covers(index, n, lo, N), Along(p, Path(leaves, index)[n][lo])
  PROVE  Reaches(leaves, index, p, n, lo)
  <1> DEFINE mth == Mth(leaves)
             path == Path(leaves, index)
             leaf == leaves[index + 1]
             walk == Walk(leaf, index, p)
             H == Hashes(leaves)
             Misses(m, l) == /\ l <= index /\ index < l + m /\ l + m <= N
                             /\ \A j \in 1..Len(path[m][l]) : p[j] = path[m][l][j]
                             /\ walk[m][l][Len(path[m][l])] # mth[m][l]
             Bad == {m \in Nat \ {0} : \E l \in Nat : Misses(m, l)}
  <1> SUFFICES ASSUME walk[n][lo][Len(path[n][lo])] # mth[n][lo] PROVE FALSE
    BY DEF Reaches
  <1>1. n \in Bad
    BY DEF Along, Covers
  <1>2. ASSUME NEW m \in Nat \ {0}, NEW l \in Nat
        PROVE  path[m][l] \in Seq(H) /\ Len(path[m][l]) \in Nat /\ mth[m][l] \in H
    <2>1. path[m][l] \in Seq(H)
      BY PathType
    <2>2. mth[m][l] \in H
      BY DEF Hashes
    <2> HIDE DEF H, path, mth
    <2>3. QED
      BY <2>1, <2>2
  <1> HIDE DEF mth, path, walk, leaf, H
  <1>3. PICK m \in Bad : \A q \in Bad : m <= q
    <2>1. Bad \in SUBSET Nat /\ Bad # {}
      BY <1>1
    <2> HIDE DEF Bad
    <2>2. QED
      BY <2>1, HasLeast
  <1>4. PICK l \in Nat : Misses(m, l)
    BY <1>3
  <1>5. m \in Nat \ {0}
    BY <1>3
  <1> DEFINE k == SplitPoint(m)
             q == path[m][l]
             e == Len(q)
             near == walk[k][l][e - 1]
             far == walk[m - k][l + k][e - 1]
  <1>6. q \in Seq(H) /\ e \in Nat
    BY <1>2, <1>5
  <1>7. mth[m][l] = IF m = 1 THEN leaves[l + 1] ELSE NodeHash(mth[k][l], mth[m - k][l + k])
    <2> HIDE DEF Bad, k
    <2>1. QED
      BY <1>5, MthIs DEF mth, k
  <1>8. q = IF m = 1 THEN <<>>
            ELSE IF index - l < k THEN Append(path[k][l], mth[m - k][l + k])
            ELSE Append(path[m - k][l + k], mth[k][l])
    BY <1>5, PathIs DEF path, mth
  <1>9. walk[m][l][e] =
               IF m = 1 THEN (IF e = 0 THEN leaf ELSE Malformed)
               ELSE IF e = 0 THEN Malformed
               ELSE IF index - l < k
               THEN (IF near = Malformed THEN Malformed ELSE NodeHash(near, p[e]))
               ELSE (IF far = Malformed THEN Malformed ELSE NodeHash(p[e], far))
    <2> HIDE DEF Bad, e
    <2>1. WalksAs(walk, leaf, index, p, m, l, e)
      BY <1>5, <1>6, WalkIs DEF walk
    <2>2. QED
      BY <2>1 DEF WalksAs
  <1>10. /\ l <= index /\ index < l + m /\ l + m <= N /\ walk[m][l][e] # mth[m][l]
         /\ \A j \in 1..e : p[j] = q[j]
    BY <1>4
  <1>11. ASSUME NEW i \in Nat \ {0}, NEW f \in Nat, i < m, f <= index, index < f + i, f + i <= N,
                \A j \in 1..Len(path[i][f]) : p[j] = path[i][f][j]
         PROVE  walk[i][f][Len(path[i][f])] = mth[i][f]
    <2>1. i \notin Bad
      <3> HIDE DEF Bad
      <3>1. QED
        BY <1>3, <1>5, <1>11
    <2>2. QED
      BY <1>11, <2>1
  <1> HIDE DEF q, e, near, far, Bad
  <1>12. CASE m = 1
    <2>1. l = index /\ e = 0
      BY <1>8, <1>10, <1>12 DEF e
    <2>2. QED
      BY <1>7, <1>9, <1>10, <1>12, <2>1 DEF leaf
  <1>13. ASSUME NEW i \in Nat \ {0}, NEW f \in Nat
         PROVE  mth[i][f] # Malformed \/ ~(i = 1 /\ f + 1 \in 1..N)
    <2>1. 1 \in Nat \ {0}
      OBVIOUS
    <2>2. mth[1][f] = leaves[f + 1]
      BY <2>1, MthIs DEF mth
    <2>3. QED
      BY <2>2 DEF Proper
  <1>14. ASSUME NEW i \in Nat \ {0}, NEW f \in Nat, f + i <= N
         PROVE  mth[i][f] # Malformed
    <2>1. CASE i = 1
      <3>1. f + 1 \in 1..N
        BY <1>14, <2>1
      <3>2. QED
        BY <1>13, <2>1, <3>1
    <2>2. CASE i # 1
      <3>1. mth[i][f] = IF i = 1 THEN leaves[f + 1]
                        ELSE NodeHash(mth[SplitPoint(i)][f], mth[i - SplitPoint(i)][f + SplitPoint(i)])
        BY MthIs DEF mth
      <3>2. QED
        BY <2>2, <3>1, NodesAre
    <2>3. QED
      BY <2>1, <2>2
  <1>15. CASE m # 1
    <2>1. k \in 1..m - 1 /\ m - k \in 1..m - 1
      BY <1>5, <1>15, SplitIs
    <2> HIDE DEF k
    <2>2. k \in Nat \ {0} /\ m - k \in Nat \ {0} /\ l + k \in Nat /\ k < m /\ m - k < m
      BY <1>5, <2>1
    <2>3. CASE index - l < k
      <3> DEFINE r == path[k][l]
      <3>1. r \in Seq(H) /\ mth[m - k][l + k] \in H
        BY <1>2, <2>2
      <3>2. q = Append(r, mth[m - k][l + k])
        BY <1>8, <1>15, <2>3
      <3> HIDE DEF r
      <3>3. /\ e = Len(r) + 1 /\ Len(r) \in Nat /\ q[e] = mth[m - k][l + k]
            /\ \A j \in 1..Len(r) : q[j] = r[j]
        BY <3>1, <3>2 DEF e
      <3>4. p[e] = mth[m - k][l + k] /\ \A j \in 1..Len(r) : p[j] = r[j]
        BY <1>10, <3>3
      <3>5. l <= index /\ index < l + k /\ l + k <= N
        BY <1>5, <1>10, <2>1, <2>3
      <3>6. walk[k][l][Len(r)] = mth[k][l]
        BY <1>11, <2>2, <3>4, <3>5 DEF r
      <3>7. near = mth[k][l] /\ near # Malformed /\ e # 0
        <4>1. e - 1 = Len(r)
          BY <3>3
        <4>2. QED
          BY <1>14, <2>2, <3>3, <3>5, <3>6, <4>1 DEF near
      <3>8. walk[m][l][e] = NodeHash(near, p[e])
        BY <1>9, <1>15, <2>3, <3>7
      <3>9. QED
        BY <1>7, <1>10, <1>15, <3>4, <3>7, <3>8
    <2>4. CASE ~(index - l < k)
      <3> DEFINE r == path[m - k][l + k]
      <3>1. r \in Seq(H) /\ mth[k][l] \in H
        BY <1>2, <2>2
      <3>2. q = Append(r, mth[k][l])
        BY <1>8, <1>15, <2>4
      <3> HIDE DEF r
      <3>3. /\ e = Len(r) + 1 /\ Len(r) \in Nat /\ q[e] = mth[k][l]
            /\ \A j \in 1..Len(r) : q[j] = r[j]
        BY <3>1, <3>2 DEF e
      <3>4. p[e] = mth[k][l] /\ \A j \in 1..Len(r) : p[j] = r[j]
        BY <1>10, <3>3
      <3>5. l + k <= index /\ index < (l + k) + (m - k) /\ (l + k) + (m - k) <= N
        BY <1>5, <1>10, <2>1, <2>4
      <3>6. walk[m - k][l + k][Len(r)] = mth[m - k][l + k]
        BY <1>11, <2>2, <3>4, <3>5 DEF r
      <3>7. far = mth[m - k][l + k] /\ far # Malformed /\ e # 0
        <4>1. e - 1 = Len(r)
          BY <3>3
        <4>2. QED
          BY <1>14, <2>2, <3>3, <3>5, <3>6, <4>1 DEF far
      <3>8. walk[m][l][e] = NodeHash(p[e], far)
        BY <1>9, <1>15, <2>4, <3>7
      <3>9. QED
        BY <1>7, <1>10, <1>15, <3>4, <3>7, <3>8
    <2>5. QED
      BY <2>3, <2>4
  <1>16. QED
    BY <1>12, <1>15

-------------------------------------------------------------------------------
(* The tree that pairs neighbours. *)

LEMMA RowsAre ==
  ASSUME NEW leaves
  PROVE  /\ Rows(leaves)[1] = leaves
         /\ \A n \in Nat \ {0} : Rows(leaves)[n + 1] = PairUp(Rows(leaves)[n])
  <1> DEFINE rows == Rows(leaves)
             a == [of |-> "rows", leaves |-> leaves]
  <1>1. rows = CHOOSE f : f = [i \in Nat \ {0} |-> RowAt(leaves, f, i)]
    BY DEF Rows, RowAt
  <1>2. \A f, i : RecursionAt(a, f, i) = RowAt(leaves, f, i)
    BY DEF RecursionAt
  <1> HIDE DEF rows, a
  <1>3. \E f : f = [i \in Nat \ {0} |-> RowAt(leaves, f, i)]
    BY <1>2, RecursionExists
  <1>4. rows = [i \in Nat \ {0} |-> RowAt(leaves, rows, i)]
    BY <1>1, <1>3
  <1>5. \A n \in Nat \ {0} : rows[n] = RowAt(leaves, rows, n)
    BY <1>4
  <1>6. rows[1] = leaves
    BY <1>5 DEF RowAt
  <1>7. ASSUME NEW n \in Nat \ {0} PROVE rows[n + 1] = PairUp(rows[n])
    <2>1. n + 1 \in Nat \ {0} /\ n + 1 # 1 /\ (n + 1) - 1 = n
      OBVIOUS
    <2>2. rows[n + 1] = RowAt(leaves, rows, n + 1)
      BY <1>5, <2>1
    <2>3. QED
      BY <2>1, <2>2 DEF RowAt
  <1>8. QED
    BY <1>6, <1>7 DEF rows

(* A row over n leaves, each entry the hash of `width` of them, the last of   *)
(* as many as are left.                                                       *)
Widths(n, width, j) == IF n - (j - 1) * width < width THEN n - (j - 1) * width ELSE width

Paired(row, leaves, n, width) ==
    /\ Len(row) \in Nat \ {0}
    /\ (Len(row) - 1) * width < n /\ n <= Len(row) * width
    /\ \A j \in 1..Len(row) : row[j] = Mth(leaves)[Widths(n, width, j)][(j - 1) * width]

(* Pairing up twice the width. *)
LEMMA PairedUp ==
  ASSUME NEW leaves, NEW n \in Nat \ {0}, NEW k \in Nat, NEW row,
         Paired(row, leaves, n, Power[k])
  PROVE  Paired(PairUp(row), leaves, n, Power[k + 1])
  <1> DEFINE w == Power[k]
             len == Len(row)
             half == (len + 1) \div 2
             mth == Mth(leaves)
             next == PairUp(row)
  <1>1. w \in Nat \ {0} /\ Power[k + 1] = 2 * w
    BY PowerIs
  <1>2. /\ len \in Nat \ {0} /\ (len - 1) * w < n /\ n <= len * w
        /\ \A j \in 1..len : row[j] = mth[Widths(n, w, j)][(j - 1) * w]
    BY DEF Paired
  <1>3. /\ next = [i \in 1..half |->
                     IF 2 * i <= len THEN NodeHash(row[2 * i - 1], row[2 * i]) ELSE row[2 * i - 1]]
    BY DEF PairUp
  <1> HIDE DEF w, mth, next, len
  <1>4. half \in Nat \ {0} /\ len <= 2 * half /\ 2 * half <= len + 1
    BY <1>2
  <1> HIDE DEF half
  <1>5. /\ Len(next) = half
        /\ \A i \in 1..half : next[i] =
              IF 2 * i <= len THEN NodeHash(row[2 * i - 1], row[2 * i]) ELSE row[2 * i - 1]
    <2>1. DOMAIN next = 1..half /\ half \in Nat
      BY <1>3, <1>4
    <2>2. \A i \in 1..half : next[i] \in Range(next)
      BY <2>1 DEF Range
    <2>3. next = [i \in 1..half |-> next[i]]
      BY <1>3
    <2> DEFINE R == Range(next)
    <2> HIDE DEF R
    <2>4. next \in Seq(R) /\ Len(next) = half
      BY <2>1, <2>2, <2>3 DEF R
    <2>5. QED
      BY <1>3, <2>4
  <1>6. (half - 1) * (2 * w) < n /\ n <= half * (2 * w)
    <2>1. (half - 1) * (2 * w) = (2 * half - 2) * w /\ half * (2 * w) = (2 * half) * w
      BY <1>1, <1>4
    <2>2. (2 * half - 2) * w <= (len - 1) * w
      BY <1>1, <1>2, <1>4
    <2>3. len * w <= (2 * half) * w
      BY <1>1, <1>2, <1>4
    <2>4. /\ (2 * half - 2) * w \in Int /\ (len - 1) * w \in Int /\ len * w \in Int
          /\ (2 * half) * w \in Int
      BY <1>1, <1>2, <1>4
    <2>5. QED
      BY <1>2, <2>1, <2>2, <2>3, <2>4
  <1>7. ASSUME NEW i \in 1..half
        PROVE  next[i] = mth[Widths(n, 2 * w, i)][(i - 1) * (2 * w)]
    <2> DEFINE lo == (i - 1) * (2 * w)
               one == 2 * i - 1
    <2>1. one \in 1..len /\ (one - 1) * w = lo /\ lo \in Nat /\ i \in Nat
      <3>1. one \in 1..len
        BY <1>2, <1>4
      <3>2. (one - 1) * w = lo
        BY <1>1
      <3>3. lo \in Nat
        BY <1>1
      <3>4. QED
        BY <3>1, <3>2, <3>3
    <2>2. lo < n
      <3>1. (one - 1) * w <= (len - 1) * w
        BY <1>1, <1>2, <2>1
      <3>2. (len - 1) * w \in Int
        BY <1>1, <1>2
      <3> HIDE DEF lo, one
      <3>3. QED
        BY <1>2, <2>1, <3>1, <3>2
    <2>3. CASE 2 * i <= len
      <3> DEFINE r == Widths(n, w, 2 * i)
      <3>1. 2 * i \in 1..len /\ (2 * i - 1) * w = lo + w
        BY <1>1, <2>1, <2>3
      <3>2. lo + w < n
        <4>1. (2 * i - 1) * w <= (len - 1) * w
          BY <1>1, <1>2, <3>1
        <4>2. (len - 1) * w \in Int
          BY <1>1, <1>2
        <4> HIDE DEF lo
        <4>3. lo + w <= (len - 1) * w
          BY <3>1, <4>1
        <4>4. QED
          BY <1>1, <1>2, <2>1, <4>2, <4>3
      <3>3. next[i] = NodeHash(row[one], row[2 * i])
        BY <1>5, <2>3
      <3> HIDE DEF lo
      <3>4. r \in 1..w /\ Widths(n, w, one) = w /\ Widths(n, 2 * w, i) = w + r
        <4>1. r = IF n - (lo + w) < w THEN n - (lo + w) ELSE w
          BY <3>1 DEF Widths
        <4>2. Widths(n, w, one) = IF n - lo < w THEN n - lo ELSE w
          BY <2>1 DEF Widths
        <4>3. Widths(n, 2 * w, i) = IF n - lo < 2 * w THEN n - lo ELSE 2 * w
          BY DEF Widths, lo
        <4> HIDE DEF r, one
        <4>4. QED
          BY <1>1, <2>1, <2>2, <3>2, <4>1, <4>2, <4>3
      <3>5. row[one] = mth[w][lo] /\ row[2 * i] = mth[r][lo + w]
        <4>1. row[one] = mth[Widths(n, w, one)][(one - 1) * w]
          BY <1>2, <2>1
        <4>2. row[2 * i] = mth[Widths(n, w, 2 * i)][(2 * i - 1) * w]
          BY <1>2, <3>1
        <4> HIDE DEF one
        <4>3. QED
          BY <2>1, <3>1, <3>4, <4>1, <4>2
      <3> HIDE DEF r, one
      <3>6. SplitPoint(w + r) = w
        BY <3>4, SplitOf DEF w
      <3>7. w + r \in Nat \ {0} /\ w + r # 1 /\ (w + r) - w = r
        BY <1>1, <3>4
      <3>8. mth[w + r][lo] = NodeHash(mth[w][lo], mth[r][lo + w])
        BY <2>1, <3>6, <3>7, MthIs DEF mth
      <3>9. QED
        BY <3>3, <3>4, <3>5, <3>8 DEF lo
    <2>4. CASE ~(2 * i <= len)
      <3>1. next[i] = row[one]
        BY <1>5, <2>4
      <3>2. one = len
        BY <1>2, <2>1, <2>4
      <3>3. n - lo <= w
        <4>1. len * w = lo + w
          BY <1>1, <2>1, <3>2
        <4> HIDE DEF lo
        <4>2. QED
          BY <1>1, <1>2, <2>1, <4>1
      <3>4. row[one] = mth[Widths(n, w, one)][lo]
        BY <1>2, <2>1
      <3> HIDE DEF lo
      <3>5. Widths(n, w, one) = n - lo
        <4>1. Widths(n, w, one) = IF n - lo < w THEN n - lo ELSE w
          BY <2>1 DEF Widths
        <4>2. QED
          BY <1>1, <2>1, <3>3, <4>1
      <3>6. Widths(n, 2 * w, i) = n - lo
        <4>1. Widths(n, 2 * w, i) = IF n - lo < 2 * w THEN n - lo ELSE 2 * w
          BY DEF Widths, lo
        <4>2. QED
          BY <1>1, <2>1, <3>3, <4>1
      <3>7. QED
        BY <3>1, <3>4, <3>5, <3>6 DEF lo
    <2>5. QED
      BY <2>3, <2>4
  <1>8. QED
    BY <1>1, <1>4, <1>5, <1>6, <1>7 DEF Paired, w, mth, next

(* The two trees have one root. *)
LEMMA PairedIs ==
  ASSUME NEW leaves, Len(leaves) \in Nat \ {0}
  PROVE  PairedRoot(leaves) = MerkleRoot(leaves)
  <1> DEFINE n == Len(leaves)
             rows == Rows(leaves)
             Good == {i \in Nat : Paired(rows[i + 1], leaves, n, Power[i])}
  <1>1. n \in Nat \ {0}
    OBVIOUS
  <1>2. rows[1] = leaves /\ \A i \in Nat \ {0} : rows[i + 1] = PairUp(rows[i])
    BY RowsAre
  <1>3. 0 \in Good
    <2>2. ASSUME NEW j \in 1..n
          PROVE  leaves[j] = Mth(leaves)[Widths(n, 1, j)][(j - 1) * 1]
      <3>1. Widths(n, 1, j) = 1 /\ (j - 1) * 1 = j - 1 /\ j - 1 \in Nat /\ (j - 1) + 1 = j
        BY DEF Widths
      <3> DEFINE lo == j - 1
      <3> HIDE DEF n, lo
      <3>2. 1 \in Nat \ {0} /\ lo \in Nat
        BY <3>1 DEF lo
      <3>3. Mth(leaves)[1][lo] = leaves[lo + 1]
        BY <3>2, MthIs
      <3>4. QED
        BY <3>1, <3>3 DEF lo
    <2>3. (n - 1) * 1 < n /\ n <= n * 1
      BY <1>1
    <2>4. Paired(leaves, leaves, n, 1)
      BY <1>1, <2>2, <2>3 DEF Paired
    <2> HIDE DEF n, rows
    <2>5. QED
      BY SMTT(30), <1>2, <2>4, PowerIs
  <1> HIDE DEF n, rows
  <1>4. ASSUME NEW i \in 0..(n - 1) - 1, i \in Good PROVE i + 1 \in Good
    <2>1. i \in Nat /\ i + 1 \in Nat \ {0}
      OBVIOUS
    <2>2. Paired(PairUp(rows[i + 1]), leaves, n, Power[i + 1])
      BY <1>1, <1>4, <2>1, PairedUp
    <2>3. QED
      BY <1>2, <2>1, <2>2
  <1> HIDE DEF Good
  <1>5. n - 1 \in Nat /\ n - 1 \in 0..n - 1 /\ (n - 1) + 1 = n
    BY <1>1
  <1>6. n - 1 \in Good
    <2>1. 0..n - 1 \subseteq Good
      BY <1>3, <1>4, <1>5, UpTo
    <2>2. QED
      BY <1>5, <2>1
  <1> DEFINE w == Power[n - 1]
             row == rows[n]
  <1>7. Paired(row, leaves, n, w)
    BY <1>5, <1>6 DEF Good
  <1>8. w \in Nat /\ n <= w
    <2> DEFINE k == n - 1
    <2>1. k \in Nat
      BY <1>5
    <2> HIDE DEF k
    <2>2. Power[k] \in Nat /\ k < Power[k]
      BY <2>1, PowerIs
    <2>3. QED
      BY <1>1, <2>1, <2>2 DEF k
  <1> HIDE DEF w, row
  <1>9. 1 \in 1..Len(row)
    BY <1>7 DEF Paired
  <1>10. row[1] = Mth(leaves)[Widths(n, w, 1)][(1 - 1) * w]
    BY <1>7, <1>9 DEF Paired
  <1>11. (1 - 1) * w = 0 /\ Widths(n, w, 1) = n
    BY <1>1, <1>8 DEF Widths
  <1>12. QED
    BY <1>10, <1>11 DEF PairedRoot, MerkleRoot, row, rows, n

-------------------------------------------------------------------------------
(* The order of fields. *)

(* Where each key comes in canonical order. *)
Places ==
    [aion_edu_ref |-> 1, assurance |-> 2, authority |-> 3, conferred |-> 4, credential |-> 5,
     credential_no |-> 6, degree_rank |-> 7, employer |-> 8, employment_type |-> 9, end |-> 10,
     expires |-> 11, fcra_compliant |-> 12, given |-> 13, institution |-> 14, issued |-> 15,
     jurisdiction |-> 16, level |-> 17, method |-> 18, name |-> 19, performed |-> 20,
     provider |-> 21, rehire_eligible |-> 22, relationship |-> 23, result |-> 24,
     scope |-> 25, skill |-> 26, start |-> 27, statement_hash |-> 28, title |-> 29,
     valid_until |-> 30, verified |-> 31]

LEMMA OrderPlaces ==
  /\ Len(JcsOrder) = 31
  /\ \A n \in 1..31 : Places[JcsOrder[n]] = n
  <1>1. Len(JcsOrder) = 31
    BY DEF JcsOrder
  <1>2. \A n \in 1..31 : Places[JcsOrder[n]] = n
    BY DEF JcsOrder, Places
  <1>3. QED
    BY <1>1, <1>2

Keys == {JcsOrder[n] : n \in 1..31}

LEMMA PlaceIs ==
  ASSUME NEW key \in Keys
  PROVE  /\ Places[key] \in 1..31 /\ Places[key] \in Int
         /\ JcsOrder[Places[key]] = key
  BY OrderPlaces DEF Keys

(* A list of keys without repetition, in canonical order. *)
Increasing(keys) ==
    \A i, j \in DOMAIN keys : i < j => Places[keys[i]] < Places[keys[j]]

(* It is the list of a set of keys. *)
ListOf(list, keys) ==
    /\ list \in Seq(keys) /\ Increasing(list)
    /\ \A key \in keys : \E i \in 1..Len(list) : list[i] = key

(* The verifier's table lists the fields of each body type, in that order. *)
LEMMA TableIs ==
  ASSUME NEW category \in DOMAIN FieldKeys
  PROVE  LET table == FieldKeys[category]
         IN  /\ ListOf(table, BodyFields[category]) /\ Len(table) \in 1..7
             /\ BodyFields[category] \subseteq Keys
  <1>1. CASE category = "employment"
    BY <1>1 DEF FieldKeys, BodyFields, ListOf, Increasing, Places, JcsOrder, Keys
  <1>2. CASE category = "education"
    BY <1>2 DEF FieldKeys, BodyFields, ListOf, Increasing, Places, JcsOrder, Keys
  <1>3. CASE category = "certification"
    BY <1>3 DEF FieldKeys, BodyFields, ListOf, Increasing, Places, JcsOrder, Keys
  <1>4. CASE category = "background_check"
    BY <1>4 DEF FieldKeys, BodyFields, ListOf, Increasing, Places, JcsOrder, Keys
  <1>5. CASE category = "identity"
    BY <1>5 DEF FieldKeys, BodyFields, ListOf, Increasing, Places, JcsOrder, Keys
  <1>6. CASE category = "reference"
    BY <1>6 DEF FieldKeys, BodyFields, ListOf, Increasing, Places, JcsOrder, Keys
  <1>7. CASE category = "skill"
    BY <1>7 DEF FieldKeys, BodyFields, ListOf, Increasing, Places, JcsOrder, Keys
  <1>8. category \in {"employment", "education", "certification", "background_check",
                      "identity", "reference", "skill"}
    BY DEF FieldKeys
  <1>9. QED
    BY <1>1, <1>2, <1>3, <1>4, <1>5, <1>6, <1>7, <1>8

-------------------------------------------------------------------------------
(* Putting keys in order. *)

LEMMA EmptyIs == ASSUME NEW S PROVE <<>> \in Seq(S)
  OBVIOUS

LEMMA AmongIs ==
  ASSUME NEW keys, NEW n \in 0..31
  PROVE  /\ Among(keys)[n] \in Seq(keys)
         /\ Among(keys)[n] = IF n = 0 THEN <<>>
                             ELSE IF JcsOrder[n] \in keys
                             THEN Append(Among(keys)[n - 1], JcsOrder[n])
                             ELSE Among(keys)[n - 1]
  <1> DEFINE T == Nat \X Seq(keys)
             first == <<0, <<>>>>
             next(t) == <<t[1] + 1, IF JcsOrder[t[1] + 1] \in keys
                                    THEN Append(t[2], JcsOrder[t[1] + 1]) ELSE t[2]>>
             step == [t \in T |-> next(t)]
             R(f) == [i \in 0..31 |-> IF i = 0 THEN <<>>
                                      ELSE IF JcsOrder[i] \in keys
                                      THEN Append(f[i - 1], JcsOrder[i]) ELSE f[i - 1]]
  <1>1. first \in T
    <2>1. PICK empty \in Seq(keys) : empty = <<>>
      BY EmptyIs
    <2>2. <<0, empty>> \in T
      OBVIOUS
    <2>3. QED
      BY <2>1, <2>2
  <1>2. step \in [T -> T]
    <2>1. ASSUME NEW t \in T PROVE next(t) \in T
      <3>1. t[1] \in Nat /\ t[2] \in Seq(keys)
        OBVIOUS
      <3>2. CASE JcsOrder[t[1] + 1] \in keys
        BY SMTT(30), <3>1, <3>2
      <3>3. CASE JcsOrder[t[1] + 1] \notin keys
        BY <3>1, <3>3
      <3>4. QED
        BY <3>2, <3>3
    <2> HIDE DEF T, next
    <2>2. QED
      BY <2>1
  <1> HIDE DEF T, first, step
  <1>3. PICK f \in [Nat -> T] : f[0] = first /\ \A i \in Nat : f[i + 1] = step[f[i]]
    BY <1>1, <1>2, FunctionBySteps
  <1>4. ASSUME NEW i \in Nat PROVE f[i][1] \in Nat /\ f[i][2] \in Seq(keys)
    BY <1>3 DEF T
  <1>5. ASSUME NEW i \in Nat PROVE f[i + 1] = next(f[i])
    BY <1>3 DEF step
  <1>6. ASSUME NEW i \in Nat PROVE f[i][1] = i
    <2> DEFINE Good == {j \in Nat : f[j][1] = j}
    <2>1. 0 \in Good
      BY <1>3 DEF first
    <2>2. \A j \in 0..i - 1 : j \in Good => j + 1 \in Good
      BY <1>5
    <2> HIDE DEF Good
    <2>3. 0..i \subseteq Good
      BY <2>1, <2>2, UpTo
    <2>4. QED
      BY <2>3 DEF Good
  <1> DEFINE g == [i \in 0..31 |-> f[i][2]]
  <1>7. g = R(g)
    <2>1. ASSUME NEW i \in 0..31 PROVE g[i] = R(g)[i]
      <3>1. CASE i = 0
        BY <1>3, <3>1 DEF first
      <3>2. CASE i # 0
        <4>1. i - 1 \in Nat /\ i - 1 \in 0..31 /\ (i - 1) + 1 = i
          BY <3>2
        <4>2. f[i] = next(f[i - 1]) /\ f[i - 1][1] = i - 1
          BY <1>5, <1>6, <4>1
        <4>3. QED
          BY <3>2, <4>1, <4>2
      <3>3. QED
        BY <3>1, <3>2
    <2>2. QED
      BY <2>1
  <1>8. Among(keys) = CHOOSE h : h = R(h)
    BY OrderPlaces DEF Among
  <1> HIDE DEF g
  <1>9. Among(keys) = R(Among(keys))
    BY <1>7, <1>8
  <1> DEFINE h == Among(keys)
  <1> HIDE DEF h
  <1>10. \A i \in 0..31 : h[i] = IF i = 0 THEN <<>>
                                 ELSE IF JcsOrder[i] \in keys
                                 THEN Append(h[i - 1], JcsOrder[i]) ELSE h[i - 1]
    BY <1>9 DEF h
  <1>11. h[n] \in Seq(keys)
    <2> DEFINE Good == {i \in 0..31 : h[i] \in Seq(keys)}
    <2>1. 0 \in Good
      <3>1. h[0] = <<>>
        BY <1>10
      <3>2. h[0] \in Seq(keys)
        BY <3>1, EmptyIs
      <3>3. QED
        BY <3>2
    <2>2. ASSUME NEW i \in 0..n - 1, i \in Good PROVE i + 1 \in Good
      <3>1. i + 1 \in 0..31 /\ i + 1 # 0 /\ (i + 1) - 1 = i
        OBVIOUS
      <3>2. h[i + 1] = IF JcsOrder[i + 1] \in keys THEN Append(h[i], JcsOrder[i + 1]) ELSE h[i]
        BY <1>10, <3>1
      <3>3. h[i] \in Seq(keys)
        BY <2>2
      <3>4. h[i + 1] \in Seq(keys)
        <4>1. CASE JcsOrder[i + 1] \in keys
          BY <3>2, <3>3, <4>1
        <4>2. CASE JcsOrder[i + 1] \notin keys
          BY <3>2, <3>3, <4>2
        <4>3. QED
          BY <4>1, <4>2
      <3>5. QED
        BY <3>1, <3>4
    <2> HIDE DEF Good
    <2>3. 0..n \subseteq Good
      BY <2>1, <2>2, UpTo
    <2>4. QED
      BY <2>3 DEF Good
  <1>12. QED
    BY <1>10, <1>11 DEF h

(* All of the keys, in canonical order. *)
LEMMA InOrderIs ==
  ASSUME NEW keys, keys \subseteq Keys
  PROVE  ListOf(InOrder(keys), keys)
  <1> DEFINE h == Among(keys)
             Before(n) == \A i \in 1..Len(h[n]) : Places[h[n][i]] \in 1..n
             Rising(n) == \A i, j \in 1..Len(h[n]) : i < j => Places[h[n][i]] < Places[h[n][j]]
             All(n) == \A m \in 1..n : JcsOrder[m] \in keys =>
                                          \E i \in 1..Len(h[n]) : h[n][i] = JcsOrder[m]
             Good == {n \in 0..31 : Before(n) /\ Rising(n) /\ All(n)}
  <1>1. \A n \in 0..31 : h[n] \in Seq(keys)
    BY AmongIs
  <1>2. 0 \in Good
    <2>1. h[0] = <<>>
      BY AmongIs
    <2> HIDE DEF h
    <2>2. Len(h[0]) = 0
      BY <2>1
    <2>3. QED
      BY <2>2
  <1>3. ASSUME NEW n \in 0..30, n \in Good PROVE n + 1 \in Good
    <2>1. n + 1 \in 0..31 /\ n + 1 # 0 /\ (n + 1) - 1 = n /\ n \in 0..31
      OBVIOUS
    <2> DEFINE p == h[n]
               q == h[n + 1]
               new == JcsOrder[n + 1]
    <2> HIDE DEF Good
    <2>2. q = IF new \in keys THEN Append(p, new) ELSE p
      <3> DEFINE m == n + 1
      <3>1. m \in 0..31 /\ m # 0 /\ m - 1 = n
        BY <2>1
      <3> HIDE DEF m
      <3>2. h[m] = IF m = 0 THEN <<>>
                   ELSE IF JcsOrder[m] \in keys THEN Append(h[m - 1], JcsOrder[m])
                   ELSE h[m - 1]
        BY <3>1, AmongIs
      <3> HIDE DEF h
      <3>3. h[m] = IF JcsOrder[m] \in keys THEN Append(h[n], JcsOrder[m]) ELSE h[n]
        BY <3>1, <3>2
      <3>4. QED
        BY <3>3 DEF m
    <2>3. p \in Seq(keys)
      BY <1>1, <2>1
    <2>4. Places[new] = n + 1
      BY <2>1, OrderPlaces
    <2>5. Before(n) /\ Rising(n) /\ All(n)
      BY <1>3 DEF Good
    <2>6. CASE new \notin keys
      <3>1. q = p
        BY <2>2, <2>6
      <3>2. Before(n + 1) /\ Rising(n + 1)
        <4>1. /\ \A i \in 1..Len(p) : Places[p[i]] \in 1..n
              /\ \A i, j \in 1..Len(p) : i < j => Places[p[i]] < Places[p[j]]
          BY <2>5 DEF p
        <4> HIDE DEF p, q
        <4>2. \A i \in 1..Len(q) : Places[q[i]] \in 1..n + 1
          BY <2>1, <3>1, <4>1
        <4>3. \A i, j \in 1..Len(q) : i < j => Places[q[i]] < Places[q[j]]
          BY <3>1, <4>1
        <4>4. QED
          BY <4>2, <4>3 DEF q
      <3>3. All(n + 1)
        <4> SUFFICES ASSUME NEW m \in 1..n + 1, JcsOrder[m] \in keys
                     PROVE  \E i \in 1..Len(h[n + 1]) : h[n + 1][i] = JcsOrder[m]
          OBVIOUS
        <4>1. m # n + 1
          BY <2>6
        <4>2. m \in 1..n
          BY <4>1
        <4>3. QED
          BY <2>5, <3>1, <4>2
      <3>4. QED
        BY <2>1, <3>2, <3>3 DEF Good
    <2>7. CASE new \in keys
      <3>1. q = Append(p, new)
        BY <2>2, <2>7
      <3> HIDE DEF q, p, new, h
      <3>2. /\ Len(q) = Len(p) + 1 /\ Len(p) \in Nat /\ q[Len(p) + 1] = new
            /\ \A i \in 1..Len(p) : q[i] = p[i]
        BY <2>3, <2>7, <3>1
      <3> HIDE DEF Good
      <3>3. /\ \A i \in 1..Len(p) : Places[p[i]] \in 1..n
            /\ \A i, j \in 1..Len(p) : i < j => Places[p[i]] < Places[p[j]]
            /\ \A m \in 1..n : JcsOrder[m] \in keys => \E i \in 1..Len(p) : p[i] = JcsOrder[m]
        BY <2>5 DEF p
      <3>4. ASSUME NEW i \in 1..Len(q) PROVE Places[q[i]] \in 1..n + 1
        <4>1. CASE i = Len(p) + 1
          BY <2>1, <2>4, <3>2, <4>1
        <4>2. CASE i # Len(p) + 1
          <5>1. i \in 1..Len(p)
            BY <3>2, <4>2
          <5>2. q[i] = p[i] /\ Places[p[i]] \in 1..n
            BY <3>2, <3>3, <5>1
          <5> DEFINE place == Places[q[i]]
          <5>3. place \in 1..n /\ n \in 0..30
            BY <5>2
          <5> HIDE DEF place
          <5>4. place \in 1..n + 1
            BY <5>3
          <5>5. QED
            BY <5>4 DEF place
        <4>3. QED
          BY <4>1, <4>2
      <3>5. ASSUME NEW i \in 1..Len(q), NEW j \in 1..Len(q), i < j
            PROVE  Places[q[i]] < Places[q[j]]
        <4>1. i \in 1..Len(p) /\ q[i] = p[i] /\ Places[p[i]] \in 1..n
          <5>1. i \in 1..Len(p)
            BY <3>2, <3>5
          <5>2. QED
            BY <3>2, <3>3, <5>1
        <4>2. CASE j = Len(p) + 1
          <5>1. Places[q[j]] = n + 1
            BY <2>4, <3>2, <4>2
          <5>2. Places[q[i]] = Places[p[i]]
            BY <4>1
          <5> DEFINE place == Places[p[i]]
          <5>3. place \in 1..n /\ n \in 0..30
            BY <2>1, <4>1
          <5> HIDE DEF place
          <5>4. place < n + 1
            BY <5>3
          <5>5. QED
            BY <5>1, <5>2, <5>4 DEF place
        <4>3. CASE j # Len(p) + 1
          <5>1. j \in 1..Len(p)
            BY <3>2, <4>3
          <5>2. QED
            BY <3>2, <3>3, <3>5, <4>1, <5>1
        <4>4. QED
          BY <4>2, <4>3
      <3>6. ASSUME NEW m \in 1..n + 1, JcsOrder[m] \in keys
            PROVE  \E i \in 1..Len(q) : q[i] = JcsOrder[m]
        <4>1. CASE m = n + 1
          <5>1. Len(p) + 1 \in 1..Len(q) /\ q[Len(p) + 1] = JcsOrder[m]
            BY <3>2, <4>1 DEF new
          <5>2. QED
            BY <5>1
        <4>2. CASE m # n + 1
          <5>1. m \in 1..n
            BY <4>2
          <5>2. PICK i \in 1..Len(p) : p[i] = JcsOrder[m]
            BY <3>3, <3>6, <5>1
          <5>3. i \in 1..Len(q) /\ q[i] = p[i]
            BY <3>2
          <5>4. QED
            BY <5>2, <5>3
        <4>3. QED
          BY <4>1, <4>2
      <3>7. Before(n + 1) /\ Rising(n + 1) /\ All(n + 1)
        BY <3>4, <3>5, <3>6 DEF q
      <3>8. QED
        BY <2>1, <3>7 DEF Good
    <2>8. QED
      BY <2>6, <2>7
  <1>4. 31 \in Good
    <2> HIDE DEF Good
    <2>1. 0..31 \subseteq Good
      BY <1>2, <1>3, UpTo
    <2>2. QED
      BY <2>1
  <1>5. InOrder(keys) = h[31]
    BY OrderPlaces DEF InOrder
  <1> HIDE DEF h
  <1>6. h[31] \in Seq(keys) /\ DOMAIN h[31] = 1..Len(h[31])
    BY <1>1
  <1>7. Increasing(h[31])
    BY <1>4, <1>6 DEF Increasing
  <1>8. ASSUME NEW key \in keys PROVE \E i \in 1..Len(h[31]) : h[31][i] = key
    <2>1. PICK m \in 1..31 : key = JcsOrder[m]
      BY DEF Keys
    <2>2. All(31)
      BY <1>4
    <2>3. QED
      BY <2>1, <2>2
  <1>9. QED
    BY <1>5, <1>6, <1>7, <1>8 DEF ListOf

(* Two lists begin alike. *)
Alike(a, b, i) == \A j \in 1..i - 1 : j <= Len(b) /\ a[j] = b[j]

(* A list whose beginning another one shares is not ahead of it next. *)
LEMMA NotAhead ==
  ASSUME NEW keys, keys \subseteq Keys,
         NEW a, ListOf(a, keys), NEW b, ListOf(b, keys), NEW i \in 1..Len(a), Alike(a, b, i)
  PROVE  /\ i <= Len(b) /\ Places[b[i]] <= Places[a[i]]
         /\ Places[a[i]] \in Int /\ Places[b[i]] \in Int
  <1>0. \A key \in keys : Places[key] \in Int
    BY PlaceIs
  <1>1. a \in Seq(keys) /\ b \in Seq(keys)
    BY DEF ListOf
  <1>2. \A m, n \in 1..Len(a) : m < n => Places[a[m]] < Places[a[n]]
    <2>1. DOMAIN a = 1..Len(a)
      BY <1>1
    <2>2. Increasing(a)
      BY DEF ListOf
    <2>3. QED
      BY <2>1, <2>2 DEF Increasing
  <1>3. \A m, n \in 1..Len(b) : m < n => Places[b[m]] < Places[b[n]]
    <2>1. DOMAIN b = 1..Len(b)
      BY <1>1
    <2>2. Increasing(b)
      BY DEF ListOf
    <2>3. QED
      BY <2>1, <2>2 DEF Increasing
  <1>4. a[i] \in keys /\ i \in Nat
    BY <1>1
  <1>5. PICK j \in 1..Len(b) : b[j] = a[i]
    BY <1>4 DEF ListOf
  <1>6. ~(j < i)
    <2>1. ASSUME j < i PROVE FALSE
      <3>1. j \in 1..i - 1 /\ j \in 1..Len(a)
        BY <1>1, <2>1
      <3>2. a[j] = a[i]
        BY <1>5, <3>1 DEF Alike
      <3>3. Places[a[j]] < Places[a[i]] /\ Places[a[i]] \in Int
        BY <1>0, <1>2, <1>4, <2>1, <3>1
      <3>4. Places[a[j]] = Places[a[i]]
        BY <3>2
      <3> DEFINE x == Places[a[j]]
                 y == Places[a[i]]
      <3>5. x < y /\ y \in Int /\ x = y
        BY <3>3, <3>4
      <3> HIDE DEF x, y
      <3>6. QED
        BY <3>5
    <2>2. QED
      BY <2>1
  <1>7. i \in 1..Len(b)
    BY <1>1, <1>6
  <1>8. b[i] \in keys
    BY <1>1, <1>7
  <1>9. Places[a[i]] \in Int /\ Places[b[i]] \in Int
    BY <1>0, <1>4, <1>8
  <1>10. Places[b[i]] <= Places[a[i]]
    <2>1. CASE i = j
      BY <1>5, <1>9, <2>1
    <2>2. CASE i # j
      <3>1. i < j
        BY <1>6, <1>7, <2>2
      <3>2. Places[b[i]] < Places[b[j]]
        BY <1>3, <1>7, <3>1
      <3>3. Places[b[j]] = Places[a[i]]
        BY <1>5
      <3>4. QED
        BY <1>9, <3>2, <3>3
    <2>3. QED
      BY <2>1, <2>2
  <1>11. QED
    BY <1>7, <1>9, <1>10

(* A set of keys has one list. *)
LEMMA OneOrder ==
  ASSUME NEW keys, keys \subseteq Keys,
         NEW s, ListOf(s, keys), NEW t, ListOf(t, keys)
  PROVE  s = t
  <1> DEFINE Bad == {i \in Nat \ {0} : i <= Len(s) /\ (i > Len(t) \/ s[i] # t[i])}
  <1>1. s \in Seq(keys) /\ t \in Seq(keys) /\ Len(s) \in Nat /\ Len(t) \in Nat
    BY DEF ListOf
  <1>2. ASSUME NEW i \in 1..Len(s), Alike(s, t, i)
        PROVE  i <= Len(t) /\ s[i] = t[i]
    <2>1. i <= Len(t) /\ Places[t[i]] <= Places[s[i]]
      BY <1>2, NotAhead
    <2>2. i \in 1..Len(t)
      BY <2>1
    <2>3. Alike(t, s, i)
      BY <1>1, <1>2 DEF Alike
    <2>4. /\ Places[s[i]] <= Places[t[i]]
          /\ Places[s[i]] \in Int /\ Places[t[i]] \in Int
      BY <2>2, <2>3, NotAhead
    <2>5. Places[s[i]] = Places[t[i]]
      BY <2>1, <2>4
    <2>6. s[i] \in keys /\ t[i] \in keys
      BY <1>1, <2>2
    <2>7. s[i] = JcsOrder[Places[s[i]]] /\ t[i] = JcsOrder[Places[t[i]]]
      BY <2>6, PlaceIs
    <2>8. s[i] = t[i]
      BY <2>5, <2>7
    <2>9. QED
      BY <2>1, <2>8
  <1>3. Bad = {}
    <2>1. ASSUME Bad # {} PROVE FALSE
      <3>1. PICK i \in Bad : \A j \in Bad : i <= j
        <4>1. Bad \in SUBSET Nat
          OBVIOUS
        <4> HIDE DEF Bad
        <4>2. QED
          BY <2>1, <4>1, HasLeast
      <3>2. i \in 1..Len(s)
        BY <1>1, <3>1
      <3>3. ASSUME NEW j \in 1..i - 1 PROVE j <= Len(t) /\ s[j] = t[j]
        <4>1. j \notin Bad
          <5>1. ~(i <= j)
            BY <3>2
          <5> HIDE DEF Bad
          <5>2. QED
            BY <3>1, <5>1
        <4>2. j \in Nat \ {0} /\ j <= Len(s)
          BY <1>1, <3>2
        <4>3. QED
          BY <1>1, <4>1, <4>2
      <3> HIDE DEF Bad
      <3>4. i <= Len(t) /\ s[i] = t[i]
        BY <1>2, <3>2, <3>3 DEF Alike
      <3>5. QED
        BY <1>1, <3>1, <3>4 DEF Bad
    <2>2. QED
      BY <2>1
  <1>4. \A i \in 1..Len(s) : i <= Len(t) /\ s[i] = t[i]
    BY <1>1, <1>3
  <1>5. Len(s) <= Len(t)
    <2>1. Len(s) = 0 \/ Len(s) \in 1..Len(s)
      BY <1>1
    <2>2. QED
      BY <1>1, <1>4, <2>1
  <1>6. Len(s) = Len(t)
    <2>1. ASSUME Len(s) < Len(t) PROVE FALSE
      <3> DEFINE i == Len(s) + 1
      <3>1. i \in 1..Len(t) /\ Alike(t, s, i)
        BY <1>1, <1>4, <2>1 DEF Alike
      <3> HIDE DEF i
      <3>2. i <= Len(s)
        BY <3>1, NotAhead
      <3>3. QED
        BY <1>1, <3>2 DEF i
    <2>2. QED
      BY <1>1, <1>5, <2>1
  <1>7. QED
    BY <1>1, <1>4, <1>6

(* The leaves of a complete body are those of the verifier's table. *)
LEMMA OrderedAsTable ==
  ASSUME NEW category \in DOMAIN FieldKeys,
         NEW body, DOMAIN body = BodyFields[category]
  PROVE  OrderedFields(body) = FieldKeys[category]
  BY TableIs, InOrderIs, OneOrder DEF OrderedFields

-------------------------------------------------------------------------------
(* The leaves of a claim, and walks in its trees. *)

IsTree(leaves, n) == n \in Nat \ {0} /\ Len(leaves) = n /\ Proper(leaves, n)

LEMMA BodyLeavesAre ==
  ASSUME NEW category \in DOMAIN FieldKeys, NEW master,
         NEW body, DOMAIN body = BodyFields[category]
  PROVE  LET leaves == BodyLeaves(master, body)
             table == FieldKeys[category]
         IN  /\ IsTree(leaves, Len(table))
             /\ \A i \in 1..Len(table) :
                   /\ leaves[i] = FieldLeafHash(i - 1, table[i],
                                                FieldSalt(master, i - 1, table[i]),
                                                body[table[i]])
                   /\ table[i] \in BodyFields[category]
  <1> DEFINE leaves == BodyLeaves(master, body)
             table == FieldKeys[category]
  <1>1. table \in Seq(BodyFields[category]) /\ Len(table) \in 1..7
    BY TableIs DEF ListOf
  <1>2. leaves = [i \in DOMAIN table |->
                    FieldLeafHash(i - 1, table[i], FieldSalt(master, i - 1, table[i]),
                                  body[table[i]])]
    BY OrderedAsTable DEF BodyLeaves
  <1> HIDE DEF leaves, table
  <1>3. DOMAIN table = 1..Len(table) /\ Len(table) \in Nat \ {0}
    BY <1>1
  <1>4. \A i \in 1..Len(table) :
          leaves[i] = FieldLeafHash(i - 1, table[i], FieldSalt(master, i - 1, table[i]),
                                    body[table[i]])
    BY <1>2, <1>3
  <1>5. Len(leaves) = Len(table)
    BY <1>2, <1>3
  <1>6. \A i \in 1..Len(table) : leaves[i] # Malformed
    <2>1. \A x, k, salt, v : FieldLeafHash(x, k, salt, v) # Malformed
      BY DEF FieldLeafHash, Malformed
    <2>2. QED
      BY <1>4, <2>1
  <1>7. \A i \in 1..Len(table) : table[i] \in BodyFields[category]
    BY <1>1
  <1>8. QED
    BY <1>3, <1>4, <1>5, <1>6, <1>7 DEF leaves, table, IsTree, Proper

LEMMA RelianceLeavesAre ==
  ASSUME NEW T, NEW relies_on \in Seq(T), NEW master
  PROVE  LET leaves == RelianceLeaves(master, relies_on)
         IN  /\ Len(leaves) = Len(relies_on)
             /\ IF relies_on = <<>> THEN leaves = <<>> /\ Len(relies_on) = 0
                ELSE leaves # <<>> /\ IsTree(leaves, Len(relies_on))
             /\ \A i \in 1..Len(relies_on) :
                   leaves[i] = RelianceLeafHash(i - 1, RelianceSalt(master, i - 1),
                                                relies_on[i].from_claim_id,
                                                KindCommit(master, i - 1, relies_on[i].kind))
  <1> DEFINE leaves == RelianceLeaves(master, relies_on)
             leaf(i) == RelianceLeafHash(i - 1, RelianceSalt(master, i - 1),
                                         relies_on[i].from_claim_id,
                                         KindCommit(master, i - 1, relies_on[i].kind))
  <1>1. leaves = [i \in 1..Len(relies_on) |-> leaf(i)] /\ Len(relies_on) \in Nat
    BY DEF RelianceLeaves
  <1>2. ASSUME NEW i \in Nat PROVE leaf(i) # Malformed
    BY DEF RelianceLeafHash, Malformed
  <1> HIDE DEF leaves, leaf
  <1>3. Len(leaves) = Len(relies_on)
    BY <1>1
  <1>4. \A i \in 1..Len(relies_on) : leaves[i] = leaf(i) /\ leaves[i] # Malformed
    BY <1>1, <1>2
  <1>5. CASE relies_on = <<>>
    <2>1. Len(relies_on) = 0
      BY <1>5
    <2>2. leaves = <<>>
      BY <1>1, <2>1
    <2>3. QED
      BY <1>3, <1>5, <2>1, <2>2 DEF leaves
  <1>6. CASE relies_on # <<>>
    <2>1. Len(relies_on) # 0
      BY <1>6
    <2>2. leaves # <<>>
      BY <1>1, <1>3, <2>1
    <2>3. IsTree(leaves, Len(relies_on))
      BY <1>1, <1>3, <1>4, <2>1 DEF IsTree, Proper
    <2>4. QED
      BY <1>3, <1>4, <1>6, <2>2, <2>3 DEF leaves, leaf
  <1>7. QED
    BY <1>4, <1>5, <1>6 DEF leaves, leaf

(* No tree has the hash that a failed walk returns. *)
LEMMA RootIsHash ==
  ASSUME NEW leaves, NEW n, IsTree(leaves, n)
  PROVE  MerkleRoot(leaves) # Malformed
  <1>1. n \in Nat \ {0} /\ 0 \in Nat /\ MerkleRoot(leaves) = Mth(leaves)[n][0]
    BY DEF IsTree, MerkleRoot
  <1>2. CASE n = 1
    <2>1. Mth(leaves)[n][0] = leaves[0 + 1]
      BY <1>1, <1>2, MthIs
    <2>2. QED
      BY <1>1, <1>2, <2>1 DEF IsTree, Proper
  <1>3. CASE n # 1
    <2>1. \E l, r : Mth(leaves)[n][0] = NodeHash(l, r)
      BY <1>1, <1>3, MthIs
    <2>2. QED
      BY <1>1, <2>1, NodesAre
  <1>4. QED
    BY <1>2, <1>3

(* What walks up to the root of a tree is the leaf of that index. *)
LEMMA ProvenLeaf ==
  ASSUME NEW leaves, NEW n, IsTree(leaves, n),
         NEW leaf, NEW index \in Nat, NEW path, Len(path) \in Nat,
         RootFromPath(leaf, index, n, path) = MerkleRoot(leaves)
  PROVE  index \in 0..n - 1 /\ leaf = leaves[index + 1]
  <1>1. n \in Nat \ {0} /\ n \in Nat /\ 0 \in Nat /\ Proper(leaves, n)
    BY DEF IsTree
  <1>2. RootFromPath(leaf, index, n, path) # Malformed
    BY RootIsHash
  <1>3. ~(index >= n) /\ Walk(leaf, index, path)[n][0][Len(path)] = Mth(leaves)[n][0]
    BY <1>2 DEF RootFromPath, MerkleRoot, IsTree
  <1>4. index \in 0..n - 1 /\ 0 <= index /\ index < 0 + n /\ 0 + n <= n
    BY <1>1, <1>3
  <1>5. leaf = leaves[index + 1]
    BY <1>1, <1>3, <1>4, WalkSound
  <1>6. QED
    BY <1>4, <1>5

(* Each leaf of a tree walks up to the root along its own path. *)
LEMMA LeafIsProven ==
  ASSUME NEW leaves, NEW n, IsTree(leaves, n), NEW index \in Nat, index < n
  PROVE  /\ RootFromPath(leaves[index + 1], index, n, AuditPath(leaves, index))
               = MerkleRoot(leaves)
         /\ AuditPath(leaves, index) \in Seq(Hashes(leaves))
  <1> DEFINE p == AuditPath(leaves, index)
  <1>1. n \in Nat \ {0} /\ n \in Nat /\ 0 \in Nat /\ Proper(leaves, n)
    BY DEF IsTree
  <1>2. index \in Nat /\ 0 <= index /\ index < 0 + n /\ 0 + n <= n /\ ~(index >= n)
    BY <1>1
  <1>3. p = Path(leaves, index)[n][0] /\ MerkleRoot(leaves) = Mth(leaves)[n][0]
    BY DEF AuditPath, MerkleRoot, IsTree
  <1> HIDE DEF p
  <1>4. p \in Seq(Hashes(leaves))
    BY <1>1, <1>3, PathType
  <1>5. Covers(index, n, 0, n) /\ Along(p, Path(leaves, index)[n][0])
    BY <1>1, <1>2, <1>3 DEF Along, Covers
  <1>6. Reaches(leaves, index, p, n, 0)
    BY <1>1, <1>2, <1>5, WalkComplete
  <1>7. QED
    BY <1>2, <1>3, <1>4, <1>6 DEF RootFromPath, Reaches, p

-------------------------------------------------------------------------------
(* The invariant: the issued claim verifies; what is in the wallet and on its *)
(* way still has the shape of a claim and of a disclosure and carries the     *)
(* issued claim's signature; and with nothing altered it is the issued claim  *)
(* and a disclosure of it.                                                    *)

IsList(s) == s \in Seq(Range(s))

IsCommit(c) ==
    /\ c = [category |-> c.category, body_root |-> c.body_root, field_count |-> c.field_count,
            reliance_root |-> c.reliance_root, reliance_count |-> c.reliance_count]
    /\ c.category \in Category /\ c.field_count \in Nat /\ c.reliance_count \in Nat

IsClaim(c) ==
    /\ c = [body |-> c.body, relies_on |-> c.relies_on, master_salt |-> c.master_salt,
            commit |-> c.commit, issuer_signature |-> c.issuer_signature]
    /\ IsCommit(c.commit)
    /\ DOMAIN c.body = BodyFields[c.commit.category]
    /\ c.relies_on \in Reliance

IsField(f) ==
    /\ f = [key |-> f.key, index |-> f.index, salt |-> f.salt, value |-> f.value,
            audit_path |-> f.audit_path]
    /\ f.index \in Nat /\ IsList(f.audit_path)

IsEntry(r) ==
    /\ r = [index |-> r.index, from_claim_id |-> r.from_claim_id, salt |-> r.salt,
            kind_commit |-> r.kind_commit, audit_path |-> r.audit_path]
    /\ r.index \in Nat /\ IsList(r.audit_path)

AllFields(fields) == IsList(fields) /\ \A f \in Range(fields) : IsField(f)

AllEntries(reliance) == IsList(reliance) /\ \A r \in Range(reliance) : IsEntry(r)

IsDisclosure(x) ==
    /\ x = [commit |-> x.commit, issuer_signature |-> x.issuer_signature,
            fields |-> x.fields, reliance |-> x.reliance]
    /\ IsCommit(x.commit) /\ AllFields(x.fields) /\ AllEntries(x.reliance)

DisclosedFrom(c, x) ==
    \E keys \in (SUBSET DOMAIN c.body) \ {{}} : x = BuildDisclosed(c, InOrder(keys))

DsInv ==
    /\ IsClaim(issued) /\ VerifyClaim(issued)
    /\ IsClaim(claim) /\ claim.issuer_signature = issued.commit
    /\ d # NotDisclosed => IsDisclosure(d) /\ d.issuer_signature = issued.commit
    /\ alterations \in Nat
    /\ alterations = 0 => claim = issued /\ (d # NotDisclosed => DisclosedFrom(issued, d))

-------------------------------------------------------------------------------
(* Lists. *)

LEMMA ListIs ==
  ASSUME NEW T, NEW s \in Seq(T)
  PROVE  /\ IsList(s) /\ Range(s) \subseteq T
         /\ Len(s) \in Nat /\ DOMAIN s = 1..Len(s)
  <1>1. DOMAIN s = 1..Len(s) /\ Len(s) \in Nat
    OBVIOUS
  <1>2. Range(s) \subseteq T
    BY <1>1 DEF Range
  <1>3. \A i \in 1..Len(s) : s[i] \in Range(s)
    BY <1>1 DEF Range
  <1>4. s \in Seq(Range(s))
    BY <1>1, <1>3
  <1>5. QED
    BY <1>1, <1>2, <1>4 DEF IsList

LEMMA ListHas ==
  ASSUME NEW s, IsList(s)
  PROVE  /\ Len(s) \in Nat /\ DOMAIN s = 1..Len(s)
         /\ \A i \in 1..Len(s) : s[i] \in Range(s)
         /\ \A e \in Range(s) : \E i \in 1..Len(s) : s[i] = e
  <1>1. s \in Seq(Range(s))
    BY DEF IsList
  <1>2. Len(s) \in Nat /\ DOMAIN s = 1..Len(s)
    BY <1>1, ListIs
  <1>3. QED
    BY <1>2 DEF Range

(* What an alteration makes of a list. *)
LEMMA SplicedIs ==
  ASSUME NEW T, NEW s \in Seq(T), NEW e \in T
  PROVE  /\ \A i \in DOMAIN s : RemoveAt(s, i) \in Seq(T) /\ ReplaceAt(s, i, e) \in Seq(T)
         /\ Append(s, e) \in Seq(T) /\ Reverse(s) \in Seq(T)
         /\ s # <<>> => Front(s) \in Seq(T) /\ Tail(s) \in Seq(T)
  <1>1. Len(s) \in Nat /\ DOMAIN s = 1..Len(s) /\ \A i \in 1..Len(s) : s[i] \in T
    OBVIOUS
  <1>2. ASSUME NEW i \in DOMAIN s PROVE RemoveAt(s, i) \in Seq(T)
    <2>1. i \in 1..Len(s)
      BY <1>1
    <2>2. SubSeq(s, 1, i - 1) \in Seq(T)
      BY <1>1, <2>1
    <2>3. SubSeq(s, i + 1, Len(s)) \in Seq(T)
      BY <1>1, <2>1
    <2>4. QED
      BY <2>2, <2>3 DEF RemoveAt
  <1>3. ASSUME NEW i \in DOMAIN s PROVE ReplaceAt(s, i, e) \in Seq(T)
    BY <1>1 DEF ReplaceAt
  <1>4. Append(s, e) \in Seq(T)
    OBVIOUS
  <1>5. Reverse(s) \in Seq(T)
    <2>1. \A i \in 1..Len(s) : s[(Len(s) - i) + 1] \in T
      <3>1. \A i \in 1..Len(s) : (Len(s) - i) + 1 \in 1..Len(s)
        BY <1>1
      <3>2. QED
        BY <1>1, <3>1
    <2>2. QED
      BY <1>1, <2>1 DEF Reverse
  <1>6. ASSUME s # <<>> PROVE Front(s) \in Seq(T) /\ Tail(s) \in Seq(T)
    <2>1. Len(s) \in Nat \ {0}
      BY <1>1, <1>6
    <2>2. SubSeq(s, 1, Len(s) - 1) \in Seq(T)
      BY <1>1, <2>1
    <2>3. Tail(s) \in Seq(T)
      BY <1>6
    <2>4. QED
      BY <2>2, <2>3 DEF Front
  <1>7. QED
    BY <1>2, <1>3, <1>4, <1>5, <1>6

-------------------------------------------------------------------------------
(* What a claim commits to. *)

LEMMA RelianceIs ==
  ASSUME NEW relies_on \in Reliance
  PROVE  /\ relies_on \in Seq(Range(relies_on)) /\ Len(relies_on) \in Nat
         /\ DOMAIN relies_on = 1..Len(relies_on)
  <1>1. relies_on \in Seq(Range(relies_on))
    BY DisclosureAssumption
  <1>2. QED
    BY <1>1, ListIs

CommitsTo(commit, category, master, body, relies_on) ==
    /\ commit.category = category
    /\ commit.body_root = MerkleRoot(BodyLeaves(master, body))
    /\ commit.field_count = Len(FieldKeys[category])
    /\ commit.reliance_count = Len(relies_on)
    /\ commit.reliance_root = IF relies_on = <<>> THEN EmptyRelianceRoot
                              ELSE MerkleRoot(RelianceLeaves(master, relies_on))

LEMMA CommitIs ==
  ASSUME NEW category \in Category, NEW master, NEW relies_on \in Reliance,
         NEW body, DOMAIN body = BodyFields[category]
  PROVE  /\ IsCommit(Commit(category, master, body, relies_on))
         /\ CommitsTo(Commit(category, master, body, relies_on), category, master, body,
                      relies_on)
  <1> DEFINE commit == Commit(category, master, body, relies_on)
             leaves == BodyLeaves(master, body)
             relied == RelianceLeaves(master, relies_on)
  <1>1. category \in DOMAIN FieldKeys
    BY DisclosureAssumption
  <1>2. Len(leaves) = Len(FieldKeys[category]) /\ Len(leaves) \in Nat
    BY <1>1, BodyLeavesAre DEF IsTree
  <1>3. Len(relied) = Len(relies_on) /\ (relies_on = <<>> <=> relied = <<>>)
        /\ Len(relies_on) \in Nat
    BY RelianceIs, RelianceLeavesAre
  <1>4. commit = [category |-> category, body_root |-> MerkleRoot(leaves),
                  field_count |-> Len(leaves), reliance_root |-> RelianceRoot(relied),
                  reliance_count |-> Len(relied)]
    BY DEF Commit
  <1> HIDE DEF commit, leaves, relied
  <1>5. /\ commit.category = category /\ commit.body_root = MerkleRoot(leaves)
        /\ commit.field_count = Len(leaves) /\ commit.reliance_root = RelianceRoot(relied)
        /\ commit.reliance_count = Len(relied)
    BY <1>4
  <1>6. commit = [category |-> commit.category, body_root |-> commit.body_root,
                  field_count |-> commit.field_count, reliance_root |-> commit.reliance_root,
                  reliance_count |-> commit.reliance_count]
    BY <1>4, <1>5
  <1>7. IsCommit(commit)
    BY <1>2, <1>3, <1>5, <1>6 DEF IsCommit
  <1>8. commit.reliance_root = IF relies_on = <<>> THEN EmptyRelianceRoot
                               ELSE MerkleRoot(relied)
    BY <1>3, <1>5 DEF RelianceRoot
  <1>9. QED
    BY <1>2, <1>3, <1>5, <1>7, <1>8 DEF commit, leaves, relied, CommitsTo

(* A claim that is issued. *)
LEMMA IssuedIs ==
  ASSUME NEW category \in Category, NEW relies_on \in Reliance, NEW c,
         c = IssueWithReliance(category, Drawn, [k \in BodyFields[category] |-> Genuine],
                               relies_on)
  PROVE  IsClaim(c) /\ VerifyClaim(c) /\ c.issuer_signature = c.commit
  <1> DEFINE body == [k \in BodyFields[category] |-> Genuine]
             commit == Commit(category, Drawn, body, relies_on)
  <1>1. DOMAIN body = BodyFields[category]
    OBVIOUS
  <1>2. c = [body |-> body, relies_on |-> relies_on, master_salt |-> Drawn,
             commit |-> commit, issuer_signature |-> commit]
    BY DEF IssueWithReliance
  <1> HIDE DEF body
  <1>3. IsCommit(commit) /\ commit.category = category
    <2>1. IsCommit(commit) /\ CommitsTo(commit, category, Drawn, body, relies_on)
      BY <1>1, CommitIs
    <2> HIDE DEF commit
    <2>2. QED
      BY <2>1 DEF CommitsTo
  <1>4. Commit(commit.category, Drawn, body, relies_on) = commit
    BY <1>3
  <1> HIDE DEF commit
  <1>5. /\ c.body = body /\ c.relies_on = relies_on /\ c.master_salt = Drawn
        /\ c.commit = commit /\ c.issuer_signature = commit
    BY <1>2
  <1>6. c = [body |-> c.body, relies_on |-> c.relies_on, master_salt |-> c.master_salt,
             commit |-> c.commit, issuer_signature |-> c.issuer_signature]
    BY <1>2, <1>5
  <1>7. IsClaim(c)
    BY <1>1, <1>3, <1>5, <1>6 DEF IsClaim
  <1>8. VerifyClaim(c)
    BY <1>4, <1>5 DEF VerifyClaim
  <1>9. QED
    BY <1>5, <1>7, <1>8

(* What a claim that verifies has committed to. *)
LEMMA VerifiedIs ==
  ASSUME NEW c, IsClaim(c), VerifyClaim(c)
  PROVE  /\ c.issuer_signature = c.commit
         /\ CommitsTo(c.commit, c.commit.category, c.master_salt, c.body, c.relies_on)
  <1>1. /\ c.commit.category \in Category /\ c.relies_on \in Reliance
        /\ DOMAIN c.body = BodyFields[c.commit.category]
    BY DEF IsClaim, IsCommit
  <1>2. /\ Commit(c.commit.category, c.master_salt, c.body, c.relies_on) = c.commit
        /\ c.issuer_signature = c.commit
    BY DEF VerifyClaim
  <1>3. QED
    BY <1>1, <1>2, CommitIs

-------------------------------------------------------------------------------
(* What a disclosure of a claim shows. *)

FieldAt(f, c, pos) ==
    LET keys == FieldKeys[c.commit.category]
    IN  f = [key |-> keys[pos], index |-> pos - 1,
             salt |-> FieldSalt(c.master_salt, pos - 1, keys[pos]),
             value |-> c.body[keys[pos]],
             audit_path |-> AuditPath(BodyLeaves(c.master_salt, c.body), pos - 1)]

FieldsOf(fields, c, n) ==
    /\ n \in Nat \ {0} /\ fields = [j \in 1..n |-> fields[j]]
    /\ \A j \in 1..n : \E pos \in 1..Len(FieldKeys[c.commit.category]) :
                         FieldAt(fields[j], c, pos)

Shows(x, c) ==
    /\ x = [commit |-> x.commit, issuer_signature |-> x.issuer_signature,
            fields |-> x.fields, reliance |-> x.reliance]
    /\ x.commit = c.commit /\ x.issuer_signature = c.issuer_signature
    /\ x.reliance = DisclosedReliance(c)
    /\ \E n : FieldsOf(x.fields, c, n)

LEMMA DisclosedShows ==
  ASSUME NEW c, IsClaim(c), NEW x, DisclosedFrom(c, x)
  PROVE  Shows(x, c)
  <1> DEFINE category == c.commit.category
             table == FieldKeys[category]
  <1>1. category \in DOMAIN FieldKeys /\ DOMAIN c.body = BodyFields[category]
    BY DisclosureAssumption DEF IsClaim, IsCommit
  <1> HIDE DEF category
  <1>2. PICK keys \in (SUBSET DOMAIN c.body) \ {{}} : x = BuildDisclosed(c, InOrder(keys))
    BY DEF DisclosedFrom
  <1> DEFINE selection == InOrder(keys)
             n == Len(selection)
  <1>3. ListOf(table, BodyFields[category]) /\ BodyFields[category] \subseteq Keys
    BY <1>1, TableIs
  <1>4. OrderedFields(c.body) = table
    BY <1>1, OrderedAsTable
  <1> HIDE DEF table
  <1>5. keys \subseteq Keys /\ keys \subseteq BodyFields[category] /\ keys # {}
    BY <1>1, <1>2, <1>3
  <1>6. ListOf(selection, keys)
    BY <1>5, InOrderIs
  <1> HIDE DEF selection
  <1>7. selection \in Seq(keys) /\ n \in Nat /\ DOMAIN selection = 1..n
    BY <1>6 DEF ListOf
  <1>8. n # 0
    <2>1. PICK key \in keys : TRUE
      BY <1>5
    <2>2. \E i \in 1..Len(selection) : selection[i] = key
      BY <1>6, <2>1 DEF ListOf
    <2>3. QED
      BY <1>7, <2>2
  <1> DEFINE indices == SelectedIndices(table, selection)
             leaves == BodyLeaves(c.master_salt, c.body)
             field(pos) == [key |-> table[pos], index |-> pos - 1,
                            salt |-> FieldSalt(c.master_salt, pos - 1, table[pos]),
                            value |-> c.body[table[pos]],
                            audit_path |-> AuditPath(leaves, pos - 1)]
             fields == [j \in DOMAIN indices |-> field(indices[j])]
  <1>9. x = [commit |-> c.commit, issuer_signature |-> c.issuer_signature,
             fields |-> fields, reliance |-> DisclosedReliance(c)]
    BY <1>2, <1>4 DEF BuildDisclosed, selection
  <1>10. DOMAIN table = 1..Len(table)
    BY <1>3 DEF ListOf
  <1>11. indices = [j \in 1..n |-> CHOOSE pos \in 1..Len(table) : table[pos] = selection[j]]
    BY <1>7, <1>10 DEF SelectedIndices
  <1>12. ASSUME NEW j \in 1..n PROVE indices[j] \in 1..Len(table)
    <2>1. selection[j] \in BodyFields[category]
      BY <1>5, <1>7
    <2>2. \E pos \in 1..Len(table) : table[pos] = selection[j]
      BY <1>3, <2>1 DEF ListOf
    <2>3. indices[j] = CHOOSE pos \in 1..Len(table) : table[pos] = selection[j]
      BY <1>11
    <2>4. QED
      BY <2>2, <2>3
  <1>13. \A pos : FieldAt(field(pos), c, pos)
    BY DEF FieldAt, table, category
  <1>14. DOMAIN indices = 1..n
    BY <1>11
  <1> HIDE DEF indices, field, n
  <1>15. fields = [j \in 1..n |-> field(indices[j])]
    BY <1>14
  <1> HIDE DEF fields
  <1>16. FieldsOf(fields, c, n)
    <2>1. fields = [j \in 1..n |-> fields[j]]
      BY <1>15
    <2>2. ASSUME NEW j \in 1..n
          PROVE  \E pos \in 1..Len(FieldKeys[c.commit.category]) : FieldAt(fields[j], c, pos)
      <3>1. FieldAt(fields[j], c, indices[j])
        BY <1>13, <1>15
      <3>2. indices[j] \in 1..Len(FieldKeys[c.commit.category])
        BY <1>12 DEF table, category
      <3>3. QED
        BY <3>1, <3>2
    <2>3. QED
      BY <1>7, <1>8, <2>1, <2>2 DEF FieldsOf
  <1>17. /\ x.commit = c.commit /\ x.issuer_signature = c.issuer_signature
         /\ x.fields = fields /\ x.reliance = DisclosedReliance(c)
    BY <1>9
  <1>18. x = [commit |-> x.commit, issuer_signature |-> x.issuer_signature,
              fields |-> x.fields, reliance |-> x.reliance]
    BY <1>9, <1>17
  <1>19. QED
    BY <1>16, <1>17, <1>18 DEF Shows

(* Every relied-on claim is disclosed, in its place. *)
EntryAt(r, c, i) ==
    r = [index |-> i - 1, from_claim_id |-> c.relies_on[i].from_claim_id,
         salt |-> RelianceSalt(c.master_salt, i - 1),
         kind_commit |-> KindCommit(c.master_salt, i - 1, c.relies_on[i].kind),
         audit_path |-> AuditPath(RelianceLeaves(c.master_salt, c.relies_on), i - 1)]

LEMMA DisclosedRelianceIs ==
  ASSUME NEW c, IsClaim(c)
  PROVE  LET reliance == DisclosedReliance(c)
             n == Len(c.relies_on)
         IN  /\ n \in Nat /\ DOMAIN reliance = 1..n /\ Len(reliance) = n
             /\ reliance = [i \in 1..n |-> reliance[i]]
             /\ \A i \in 1..n : EntryAt(reliance[i], c, i)
  <1> DEFINE reliance == DisclosedReliance(c)
             n == Len(c.relies_on)
             entry(i) == [index |-> i - 1, from_claim_id |-> c.relies_on[i].from_claim_id,
                          salt |-> RelianceSalt(c.master_salt, i - 1),
                          kind_commit |-> KindCommit(c.master_salt, i - 1, c.relies_on[i].kind),
                          audit_path |-> AuditPath(RelianceLeaves(c.master_salt, c.relies_on),
                                                   i - 1)]
  <1>1. n \in Nat /\ DOMAIN c.relies_on = 1..n
    BY RelianceIs DEF IsClaim
  <1>2. reliance = [i \in 1..n |-> entry(i)]
    BY <1>1 DEF DisclosedReliance
  <1>3. \A i : EntryAt(entry(i), c, i)
    BY DEF EntryAt
  <1> HIDE DEF reliance, entry, n
  <1>4. DOMAIN reliance = 1..n /\ Len(reliance) = n /\ reliance = [i \in 1..n |-> reliance[i]]
    BY <1>1, <1>2
  <1>5. \A i \in 1..n : EntryAt(reliance[i], c, i)
    BY <1>2, <1>3
  <1>6. QED
    BY <1>1, <1>4, <1>5 DEF reliance, n

(* A disclosed field is proven just when its claim's root is the signed one. *)
LEMMA FieldShown ==
  ASSUME NEW c, IsClaim(c), NEW pos \in 1..Len(FieldKeys[c.commit.category]),
         NEW f, FieldAt(f, c, pos)
  PROVE  /\ IsField(f)
         /\ c.commit.field_count = Len(FieldKeys[c.commit.category]) =>
               (ProveField(f, c.commit)
                  <=> c.commit.body_root = MerkleRoot(BodyLeaves(c.master_salt, c.body)))
  <1> DEFINE category == c.commit.category
             table == FieldKeys[category]
             n == Len(table)
             leaves == BodyLeaves(c.master_salt, c.body)
             path == AuditPath(leaves, pos - 1)
             salt == FieldSalt(c.master_salt, pos - 1, table[pos])
             value == c.body[table[pos]]
  <1>1. category \in DOMAIN FieldKeys /\ DOMAIN c.body = BodyFields[category]
    BY DisclosureAssumption DEF IsClaim, IsCommit
  <1>2. f = [key |-> table[pos], index |-> pos - 1, salt |-> salt, value |-> value,
             audit_path |-> path]
    BY DEF FieldAt
  <1>3. /\ IsTree(leaves, n)
        /\ leaves[pos] = FieldLeafHash(pos - 1, table[pos], salt, value)
    BY <1>1, BodyLeavesAre
  <1>4. pos \in 1..n
    OBVIOUS
  <1>5. n = Len(FieldKeys[c.commit.category])
    OBVIOUS
  <1>6. leaves = BodyLeaves(c.master_salt, c.body)
    OBVIOUS
  <1>7. table = FieldKeys[c.commit.category]
    OBVIOUS
  <1> HIDE DEF leaves, n, path, salt, value, table
  <1>8. n \in Nat /\ pos - 1 \in Nat /\ pos - 1 < n /\ (pos - 1) + 1 = pos
    BY <1>3, <1>4 DEF IsTree
  <1>9. /\ f.key = table[pos] /\ f.index = pos - 1 /\ f.salt = salt /\ f.value = value
        /\ f.audit_path = path
    BY <1>2
  <1>10. /\ RootFromPath(leaves[(pos - 1) + 1], pos - 1, n, path) = MerkleRoot(leaves)
         /\ path \in Seq(Hashes(leaves))
    BY <1>3, <1>8, LeafIsProven DEF path
  <1>11. RootFromPath(FieldLeafHash(f.index, f.key, f.salt, f.value), f.index, n, f.audit_path)
           = MerkleRoot(leaves)
    BY <1>3, <1>8, <1>9, <1>10
  <1>12. IsField(f)
    <2>1. f = [key |-> f.key, index |-> f.index, salt |-> f.salt, value |-> f.value,
               audit_path |-> f.audit_path]
      BY <1>2, <1>9
    <2>2. IsList(f.audit_path)
      BY <1>9, <1>10, ListIs
    <2>3. QED
      BY <1>8, <1>9, <2>1, <2>2 DEF IsField
  <1>13. ASSUME c.commit.field_count = n
         PROVE  ProveField(f, c.commit) <=> c.commit.body_root = MerkleRoot(leaves)
    <2>1. f.index < Len(table) /\ table[f.index + 1] = f.key
      BY <1>8, <1>9 DEF n
    <2>2. QED
      BY <1>7, <1>11, <1>13, <2>1 DEF ProveField
  <1>14. QED
    BY <1>5, <1>6, <1>12, <1>13

(* So is a disclosed reliance. *)
LEMMA EntryShown ==
  ASSUME NEW c, IsClaim(c), NEW i \in 1..Len(c.relies_on), NEW r, EntryAt(r, c, i)
  PROVE  /\ IsEntry(r) /\ r.index = i - 1
         /\ c.commit.reliance_count = Len(c.relies_on) =>
               (ProveReliance(r, c.commit)
                  <=> c.commit.reliance_root
                        = MerkleRoot(RelianceLeaves(c.master_salt, c.relies_on)))
  <1> DEFINE n == Len(c.relies_on)
             relies_on == c.relies_on
             leaves == RelianceLeaves(c.master_salt, relies_on)
             path == AuditPath(leaves, i - 1)
             salt == RelianceSalt(c.master_salt, i - 1)
             id == relies_on[i].from_claim_id
             kind == KindCommit(c.master_salt, i - 1, relies_on[i].kind)
  <1>1. relies_on \in Seq(Range(relies_on)) /\ n \in Nat
    BY RelianceIs DEF IsClaim
  <1>2. r = [index |-> i - 1, from_claim_id |-> id, salt |-> salt, kind_commit |-> kind,
             audit_path |-> path]
    BY DEF EntryAt
  <1>3. relies_on # <<>>
    BY <1>1
  <1>4. /\ IsTree(leaves, n) /\ leaves[i] = RelianceLeafHash(i - 1, salt, id, kind)
    BY <1>1, <1>3, RelianceLeavesAre
  <1>5. i \in 1..n /\ n = Len(c.relies_on)
    OBVIOUS
  <1>6. leaves = RelianceLeaves(c.master_salt, c.relies_on)
    OBVIOUS
  <1> HIDE DEF leaves, n, path, salt, id, kind, relies_on
  <1>7. i - 1 \in Nat /\ i - 1 < n /\ (i - 1) + 1 = i
    BY <1>1, <1>5
  <1>8. /\ r.index = i - 1 /\ r.from_claim_id = id /\ r.salt = salt /\ r.kind_commit = kind
        /\ r.audit_path = path
    BY <1>2
  <1>9. /\ RootFromPath(leaves[(i - 1) + 1], i - 1, n, path) = MerkleRoot(leaves)
        /\ path \in Seq(Hashes(leaves))
    BY <1>4, <1>7, LeafIsProven DEF path
  <1>10. RootFromPath(RelianceLeafHash(r.index, r.salt, r.from_claim_id, r.kind_commit),
                      r.index, n, r.audit_path)
           = MerkleRoot(leaves)
    BY <1>4, <1>7, <1>8, <1>9
  <1>11. IsEntry(r)
    <2>1. r = [index |-> r.index, from_claim_id |-> r.from_claim_id, salt |-> r.salt,
               kind_commit |-> r.kind_commit, audit_path |-> r.audit_path]
      BY <1>2, <1>8
    <2>2. IsList(r.audit_path)
      BY <1>8, <1>9, ListIs
    <2>3. QED
      BY <1>7, <1>8, <2>1, <2>2 DEF IsEntry
  <1>12. ASSUME c.commit.reliance_count = n
         PROVE  ProveReliance(r, c.commit) <=> c.commit.reliance_root = MerkleRoot(leaves)
    BY <1>10, <1>12 DEF ProveReliance
  <1>13. QED
    BY <1>5, <1>6, <1>8, <1>11, <1>12

(* A disclosure has the shape of one. *)
LEMMA ShownIsDisclosure ==
  ASSUME NEW c, IsClaim(c), NEW x, Shows(x, c)
  PROVE  IsDisclosure(x)
  <1>1. PICK n : FieldsOf(x.fields, c, n)
    BY DEF Shows
  <1>2. ASSUME NEW j \in 1..n PROVE IsField(x.fields[j])
    BY <1>1, FieldShown DEF FieldsOf
  <1>3. AllFields(x.fields)
    <2> DEFINE fields == x.fields
    <2>1. n \in Nat /\ fields = [j \in 1..n |-> fields[j]]
      BY <1>1 DEF FieldsOf
    <2>2. \A j \in 1..n : IsField(fields[j])
      BY <1>2
    <2> HIDE DEF fields
    <2>3. DOMAIN fields = 1..n
      BY <2>1
    <2>4. \A j \in 1..n : fields[j] \in Range(fields)
      BY <2>3 DEF Range
    <2>5. fields \in Seq(Range(fields))
      BY <2>1, <2>4
    <2>6. \A f \in Range(fields) : IsField(f)
      BY <2>2, <2>3 DEF Range
    <2>7. QED
      BY <2>5, <2>6 DEF AllFields, IsList, fields
  <1>4. AllEntries(x.reliance)
    <2> DEFINE reliance == x.reliance
               m == Len(c.relies_on)
    <2>1. /\ m \in Nat /\ DOMAIN reliance = 1..m
          /\ reliance = [i \in 1..m |-> reliance[i]]
          /\ \A i \in 1..m : EntryAt(reliance[i], c, i)
      BY DisclosedRelianceIs DEF Shows
    <2> HIDE DEF reliance
    <2>2. \A i \in 1..m : IsEntry(reliance[i])
      BY <2>1, EntryShown
    <2> HIDE DEF m
    <2>3. \A i \in 1..m : reliance[i] \in Range(reliance)
      BY <2>1 DEF Range
    <2>4. reliance \in Seq(Range(reliance))
      BY <2>1, <2>3
    <2>5. \A r \in Range(reliance) : IsEntry(r)
      BY <2>1, <2>2 DEF Range
    <2>6. QED
      BY <2>4, <2>5 DEF AllEntries, IsList, reliance
  <1>5. IsCommit(x.commit)
    BY DEF Shows, IsClaim
  <1>6. x = [commit |-> x.commit, issuer_signature |-> x.issuer_signature,
             fields |-> x.fields, reliance |-> x.reliance]
    BY DEF Shows
  <1>7. QED
    BY <1>3, <1>4, <1>5, <1>6 DEF IsDisclosure

-------------------------------------------------------------------------------
(* Alterations keep the shape. *)

LEMMA FieldsIn ==
  ASSUME NEW T, \A e \in T : IsField(e), NEW s \in Seq(T)
  PROVE  AllFields(s)
  BY ListIs DEF AllFields

LEMMA EntriesIn ==
  ASSUME NEW T, \A e \in T : IsEntry(e), NEW s \in Seq(T)
  PROVE  AllEntries(s)
  BY ListIs DEF AllEntries

LEMMA SplicedPath ==
  ASSUME NEW p, IsList(p)
  PROVE  IsList(Reverse(p)) /\ (p # <<>> => IsList(Front(p)) /\ IsList(Tail(p)))
  <1>1. p \in Seq(Range(p))
    BY DEF IsList
  <1>2. CASE p = <<>>
    <2>1. Len(p) = 0
      BY <1>2
    <2>2. Reverse(p) = [i \in 1..0 |-> p[(0 - i) + 1]]
      BY <2>1 DEF Reverse
    <2>3. Reverse(p) \in Seq(Range(p))
      BY <2>2
    <2>4. QED
      BY <1>2, <2>3, ListIs
  <1>3. CASE p # <<>>
    <2>1. PICK e \in Range(p) : TRUE
      <3>1. Len(p) \in Nat \ {0} /\ DOMAIN p = 1..Len(p)
        BY <1>1, <1>3
      <3>2. p[1] \in Range(p)
        BY <3>1 DEF Range
      <3>3. QED
        BY <3>2
    <2>2. Reverse(p) \in Seq(Range(p)) /\ Front(p) \in Seq(Range(p)) /\ Tail(p) \in Seq(Range(p))
      BY <1>1, <1>3, <2>1, SplicedIs
    <2>3. QED
      BY <2>2, ListIs
  <1>4. QED
    BY <1>2, <1>3

LEMMA AlteredFieldIs ==
  ASSUME AllFields(d.fields), IsCommit(d.commit), NEW f, IsField(f), NEW e \in AlteredFields(f)
  PROVE  IsField(e)
  <1>0. /\ f = [key |-> f.key, index |-> f.index, salt |-> f.salt, value |-> f.value,
                audit_path |-> f.audit_path]
        /\ f.index \in Nat /\ IsList(f.audit_path)
    BY DEF IsField
  <1>1. CASE e \in {[f EXCEPT !.value = v] : v \in Value}
    <2>1. PICK v : e = [f EXCEPT !.value = v]
      BY <1>1
    <2>2. QED
      BY <1>0, <2>1 DEF IsField
  <1>2. CASE e \in {[f EXCEPT !.index = i] : i \in 0..d.commit.field_count}
    <2>1. PICK i \in 0..d.commit.field_count : e = [f EXCEPT !.index = i]
      BY <1>2
    <2>2. i \in Nat
      BY DEF IsCommit
    <2>3. QED
      BY <1>0, <2>1, <2>2 DEF IsField
  <1>3. CASE e \in {[f EXCEPT !.key = k] : k \in Range(FieldKeys[d.commit.category])}
    <2>1. PICK k : e = [f EXCEPT !.key = k]
      BY <1>3
    <2>2. QED
      BY <1>0, <2>1 DEF IsField
  <1>4. CASE e \in AlteredPaths(f, Range(d.fields))
    <2>1. PICK p : /\ e = [f EXCEPT !.audit_path = p]
                   /\ p \in {o.audit_path : o \in Range(d.fields)} \cup {Reverse(f.audit_path)}
                            \cup IF f.audit_path = <<>> THEN {}
                                 ELSE {Front(f.audit_path), Tail(f.audit_path)}
      BY <1>4 DEF AlteredPaths
    <2>2. IsList(p)
      <3>1. CASE p \in {o.audit_path : o \in Range(d.fields)}
        BY <3>1 DEF AllFields, IsField
      <3>2. CASE p \notin {o.audit_path : o \in Range(d.fields)}
        <4>1. \/ p = Reverse(f.audit_path)
              \/ f.audit_path # <<>> /\ p \in {Front(f.audit_path), Tail(f.audit_path)}
          BY <2>1, <3>2
        <4>2. QED
          BY <1>0, <4>1, SplicedPath
      <3>3. QED
        BY <3>1, <3>2
    <2>3. QED
      BY <1>0, <2>1, <2>2 DEF IsField
  <1>5. QED
    BY <1>1, <1>2, <1>3, <1>4 DEF AlteredFields

LEMMA AlteredEntryIs ==
  ASSUME AllEntries(d.reliance), IsCommit(d.commit), NEW r, IsEntry(r),
         NEW e \in AlteredReliance(r)
  PROVE  IsEntry(e)
  <1>0. /\ r = [index |-> r.index, from_claim_id |-> r.from_claim_id, salt |-> r.salt,
                kind_commit |-> r.kind_commit, audit_path |-> r.audit_path]
        /\ r.index \in Nat /\ IsList(r.audit_path)
    BY DEF IsEntry
  <1>1. CASE e \in {[r EXCEPT !.from_claim_id = o.from_claim_id] :
                       o \in UNION {Range(l) : l \in Reliance}}
    <2>1. PICK id : e = [r EXCEPT !.from_claim_id = id]
      BY <1>1
    <2>2. QED
      BY <1>0, <2>1 DEF IsEntry
  <1>2. CASE e \in {[r EXCEPT !.index = i] : i \in 0..d.commit.reliance_count}
    <2>1. PICK i \in 0..d.commit.reliance_count : e = [r EXCEPT !.index = i]
      BY <1>2
    <2>2. i \in Nat
      BY DEF IsCommit
    <2>3. QED
      BY <1>0, <2>1, <2>2 DEF IsEntry
  <1>3. CASE e \in AlteredPaths(r, Range(d.reliance))
    <2>1. PICK p : /\ e = [r EXCEPT !.audit_path = p]
                   /\ p \in {o.audit_path : o \in Range(d.reliance)}
                            \cup {Reverse(r.audit_path)}
                            \cup IF r.audit_path = <<>> THEN {}
                                 ELSE {Front(r.audit_path), Tail(r.audit_path)}
      BY <1>3 DEF AlteredPaths
    <2>2. IsList(p)
      <3>1. CASE p \in {o.audit_path : o \in Range(d.reliance)}
        BY <3>1 DEF AllEntries, IsEntry
      <3>2. CASE p \notin {o.audit_path : o \in Range(d.reliance)}
        <4>1. \/ p = Reverse(r.audit_path)
              \/ r.audit_path # <<>> /\ p \in {Front(r.audit_path), Tail(r.audit_path)}
          BY <2>1, <3>2
        <4>2. QED
          BY <1>0, <4>1, SplicedPath
      <3>3. QED
        BY <3>1, <3>2
    <2>3. QED
      BY <1>0, <2>1, <2>2 DEF IsEntry
  <1>4. QED
    BY <1>1, <1>2, <1>3 DEF AlteredReliance

LEMMA AlteredFieldsAre ==
  ASSUME AllFields(d.fields), IsCommit(d.commit), NEW list \in AlteredLists(d.fields, AlteredFields)
  PROVE  AllFields(list)
  <1> DEFINE s == d.fields
             T == Range(s)
  <1>1. s \in Seq(T) /\ (\A e \in T : IsField(e)) /\ DOMAIN s = 1..Len(s)
        /\ (\A i \in DOMAIN s : s[i] \in T)
    BY ListHas DEF AllFields, IsList
  <1>2. CASE list \in {RemoveAt(s, i) : i \in DOMAIN s}
    <2>1. PICK i \in DOMAIN s : list = RemoveAt(s, i)
      BY <1>2
    <2> HIDE DEF s
    <2>2. s[i] \in T
      BY <1>1
    <2> HIDE DEF T
    <2>3. list \in Seq(T)
      BY <1>1, <2>1, <2>2, SplicedIs
    <2>4. QED
      BY <1>1, <2>3, FieldsIn
  <1>3. CASE list \in {ReplaceAt(s, i, s[j]) : i, j \in DOMAIN s}
    <2>1. PICK i \in DOMAIN s, j \in DOMAIN s : list = ReplaceAt(s, i, s[j])
      BY <1>3
    <2> HIDE DEF s
    <2>2. s[j] \in T
      BY <1>1
    <2> HIDE DEF T
    <2>3. list \in Seq(T)
      BY <1>1, <2>1, <2>2, SplicedIs
    <2>4. QED
      BY <1>1, <2>3, FieldsIn
  <1>4. CASE list \in {Append(s, e) : e \in Range(s)}
    <2>1. PICK e \in T : list = Append(s, e)
      BY <1>4
    <2> HIDE DEF s, T
    <2>2. list \in Seq(T)
      BY <1>1, <2>1, SplicedIs
    <2>3. QED
      BY <1>1, <2>2, FieldsIn
  <1>5. CASE list = Reverse(s)
    <2> HIDE DEF s
    <2>1. IsList(s)
      BY <1>1 DEF IsList
    <2>2. IsList(list) /\ Range(list) \subseteq T
      <3>1. Len(s) \in Nat /\ list = [i \in 1..Len(s) |-> s[(Len(s) - i) + 1]]
        BY <1>1, <1>5 DEF Reverse
      <3>2. \A i \in 1..Len(s) : (Len(s) - i) + 1 \in 1..Len(s)
        BY <3>1
      <3>3. \A i \in 1..Len(s) : s[(Len(s) - i) + 1] \in T
        BY <1>1, <3>2
      <3> HIDE DEF T
      <3>4. list \in Seq(T)
        BY <3>1, <3>3
      <3>5. QED
        BY <3>4, ListIs
    <2>3. QED
      BY <1>1, <2>2 DEF AllFields
  <1>6. CASE list \in UNION {{ReplaceAt(s, i, e) : e \in AlteredFields(s[i])} : i \in DOMAIN s}
    <2>1. PICK i \in DOMAIN s : \E e \in AlteredFields(s[i]) : list = ReplaceAt(s, i, e)
      BY <1>6
    <2>2. PICK e : e \in AlteredFields(s[i]) /\ list = ReplaceAt(s, i, e)
      BY <2>1
    <2>3. IsField(s[i])
      BY <1>1
    <2>4. IsField(e)
      BY <2>2, <2>3, AlteredFieldIs
    <2> DEFINE T2 == T \cup {e}
    <2> HIDE DEF s
    <2>5. s \in Seq(T2) /\ \A x \in T2 : IsField(x)
      <3> HIDE DEF T
      <3>1. QED
        BY <1>1, <2>4
    <2>6. e \in T2
      OBVIOUS
    <2> HIDE DEF T2
    <2>7. list \in Seq(T2)
      BY <2>2, <2>5, <2>6, SplicedIs
    <2>8. QED
      BY <2>5, <2>7, FieldsIn
  <1>7. QED
    BY <1>2, <1>3, <1>4, <1>5, <1>6 DEF AlteredLists

LEMMA AlteredRelianceIs ==
  ASSUME AllEntries(d.reliance), IsCommit(d.commit), NEW list \in AlteredLists(d.reliance, AlteredReliance)
  PROVE  AllEntries(list)
  <1> DEFINE s == d.reliance
             T == Range(s)
  <1>1. s \in Seq(T) /\ (\A e \in T : IsEntry(e)) /\ DOMAIN s = 1..Len(s)
        /\ (\A i \in DOMAIN s : s[i] \in T)
    BY ListHas DEF AllEntries, IsList
  <1>2. CASE list \in {RemoveAt(s, i) : i \in DOMAIN s}
    <2>1. PICK i \in DOMAIN s : list = RemoveAt(s, i)
      BY <1>2
    <2> HIDE DEF s
    <2>2. s[i] \in T
      BY <1>1
    <2> HIDE DEF T
    <2>3. list \in Seq(T)
      BY <1>1, <2>1, <2>2, SplicedIs
    <2>4. QED
      BY <1>1, <2>3, EntriesIn
  <1>3. CASE list \in {ReplaceAt(s, i, s[j]) : i, j \in DOMAIN s}
    <2>1. PICK i \in DOMAIN s, j \in DOMAIN s : list = ReplaceAt(s, i, s[j])
      BY <1>3
    <2> HIDE DEF s
    <2>2. s[j] \in T
      BY <1>1
    <2> HIDE DEF T
    <2>3. list \in Seq(T)
      BY <1>1, <2>1, <2>2, SplicedIs
    <2>4. QED
      BY <1>1, <2>3, EntriesIn
  <1>4. CASE list \in {Append(s, e) : e \in Range(s)}
    <2>1. PICK e \in T : list = Append(s, e)
      BY <1>4
    <2> HIDE DEF s, T
    <2>2. list \in Seq(T)
      BY <1>1, <2>1, SplicedIs
    <2>3. QED
      BY <1>1, <2>2, EntriesIn
  <1>5. CASE list = Reverse(s)
    <2> HIDE DEF s
    <2>1. IsList(s)
      BY <1>1 DEF IsList
    <2>2. IsList(list) /\ Range(list) \subseteq T
      <3>1. Len(s) \in Nat /\ list = [i \in 1..Len(s) |-> s[(Len(s) - i) + 1]]
        BY <1>1, <1>5 DEF Reverse
      <3>2. \A i \in 1..Len(s) : (Len(s) - i) + 1 \in 1..Len(s)
        BY <3>1
      <3>3. \A i \in 1..Len(s) : s[(Len(s) - i) + 1] \in T
        BY <1>1, <3>2
      <3> HIDE DEF T
      <3>4. list \in Seq(T)
        BY <3>1, <3>3
      <3>5. QED
        BY <3>4, ListIs
    <2>3. QED
      BY <1>1, <2>2 DEF AllEntries
  <1>6. CASE list \in UNION {{ReplaceAt(s, i, e) : e \in AlteredReliance(s[i])} : i \in DOMAIN s}
    <2>1. PICK i \in DOMAIN s : \E e \in AlteredReliance(s[i]) : list = ReplaceAt(s, i, e)
      BY <1>6
    <2>2. PICK e : e \in AlteredReliance(s[i]) /\ list = ReplaceAt(s, i, e)
      BY <2>1
    <2>3. IsEntry(s[i])
      BY <1>1
    <2>4. IsEntry(e)
      BY <2>2, <2>3, AlteredEntryIs
    <2> DEFINE T2 == T \cup {e}
    <2> HIDE DEF s
    <2>5. s \in Seq(T2) /\ \A x \in T2 : IsEntry(x)
      <3> HIDE DEF T
      <3>1. QED
        BY <1>1, <2>4
    <2>6. e \in T2
      OBVIOUS
    <2> HIDE DEF T2
    <2>7. list \in Seq(T2)
      BY <2>2, <2>5, <2>6, SplicedIs
    <2>8. QED
      BY <2>5, <2>7, EntriesIn
  <1>7. QED
    BY <1>2, <1>3, <1>4, <1>5, <1>6 DEF AlteredLists

LEMMA AlteredCommitIs ==
  ASSUME NEW c, IsCommit(c), NEW e \in AlteredCounts(c)
  PROVE  IsCommit(e)
  <1>0. /\ c = [category |-> c.category, body_root |-> c.body_root,
                field_count |-> c.field_count, reliance_root |-> c.reliance_root,
                reliance_count |-> c.reliance_count]
        /\ c.category \in Category /\ c.field_count \in Nat /\ c.reliance_count \in Nat
    BY DEF IsCommit
  <1>1. \/ \E n \in Nat : e = [c EXCEPT !.field_count = n]
        \/ \E n \in Nat : e = [c EXCEPT !.reliance_count = n]
    BY DEF AlteredCounts
  <1>2. CASE \E n \in Nat : e = [c EXCEPT !.field_count = n]
    BY <1>0, <1>2 DEF IsCommit
  <1>3. CASE \E n \in Nat : e = [c EXCEPT !.reliance_count = n]
    BY <1>0, <1>3 DEF IsCommit
  <1>4. QED
    BY <1>1, <1>2, <1>3

-------------------------------------------------------------------------------
(* The invariant holds. *)

LEMMA DsInvInit == DsInit => DsInv
  <1> SUFFICES ASSUME DsInit PROVE DsInv
    OBVIOUS
  <1>1. PICK category \in Category, relies_on \in Reliance :
           issued = IssueWithReliance(category, Drawn, [k \in BodyFields[category] |-> Genuine],
                                      relies_on)
    BY DEF DsInit
  <1>2. IsClaim(issued) /\ VerifyClaim(issued)
    BY <1>1, IssuedIs
  <1>3. claim = issued /\ d = NotDisclosed /\ alterations = 0
    BY DEF DsInit
  <1>4. issued.issuer_signature = issued.commit
    BY <1>1, IssuedIs
  <1>5. QED
    BY <1>2, <1>3, <1>4 DEF DsInv

LEMMA AlterClaimKeeps == DsInv /\ AlterClaim => DsInv'
  <1> SUFFICES ASSUME DsInv, AlterClaim PROVE DsInv'
    OBVIOUS
  <1>1. IsClaim(issued') /\ VerifyClaim(issued') /\ issued' = issued
    BY DEF DsInv, AlterClaim
  <1>2. d' = NotDisclosed /\ alterations' \in Nat \ {0}
    BY DEF DsInv, AlterClaim, MayAlter
  <1>3. /\ claim = [body |-> claim.body, relies_on |-> claim.relies_on,
                    master_salt |-> claim.master_salt, commit |-> claim.commit,
                    issuer_signature |-> claim.issuer_signature]
        /\ IsCommit(claim.commit) /\ DOMAIN claim.body = BodyFields[claim.commit.category]
        /\ claim.relies_on \in Reliance /\ claim.issuer_signature = issued.commit
    BY DEF DsInv, IsClaim
  <1>4. IsClaim(claim') /\ claim'.issuer_signature = issued.commit
    <2>1. CASE \E k \in DOMAIN claim.body, v \in Value : claim' = [claim EXCEPT !.body[k] = v]
      <3>1. PICK k \in DOMAIN claim.body, v \in Value :
               claim' = [claim EXCEPT !.body = [claim.body EXCEPT ![k] = v]]
        BY <1>3, <2>1
      <3>2. QED
        BY <1>3, <3>1 DEF IsClaim
    <2>2. CASE \E l \in Reliance : claim' = [claim EXCEPT !.relies_on = l]
      BY <1>3, <2>2 DEF IsClaim
    <2>3. CASE \E s \in Salt : claim' = [claim EXCEPT !.master_salt = s]
      BY <1>3, <2>3 DEF IsClaim
    <2>4. CASE \E commit \in AlteredCounts(claim.commit) :
                  claim' = [claim EXCEPT !.commit = commit]
      <3>1. PICK commit \in AlteredCounts(claim.commit) :
               claim' = [claim EXCEPT !.commit = commit]
        BY <2>4
      <3>2. IsCommit(commit) /\ commit.category = claim.commit.category
        <4>1. IsCommit(commit)
          BY <1>3, AlteredCommitIs
        <4>2. \/ \E n : commit = [claim.commit EXCEPT !.field_count = n]
              \/ \E n : commit = [claim.commit EXCEPT !.reliance_count = n]
          BY DEF AlteredCounts
        <4>3. claim.commit = [category |-> claim.commit.category,
                 body_root |-> claim.commit.body_root,
                 field_count |-> claim.commit.field_count,
                 reliance_root |-> claim.commit.reliance_root,
                 reliance_count |-> claim.commit.reliance_count]
          BY <1>3 DEF IsCommit
        <4>4. QED
          BY <4>1, <4>2, <4>3
      <3>3. QED
        BY <1>3, <3>1, <3>2 DEF IsClaim
    <2>5. QED
      BY <2>1, <2>2, <2>3, <2>4 DEF AlterClaim
  <1>5. QED
    BY <1>1, <1>2, <1>4 DEF DsInv

LEMMA DiscloseSomeKeeps == DsInv /\ DiscloseSome => DsInv'
  <1> SUFFICES ASSUME DsInv, DiscloseSome PROVE DsInv'
    OBVIOUS
  <1>1. issued' = issued /\ claim' = claim /\ alterations' = alterations
    BY DEF DiscloseSome
  <1>2. DisclosedFrom(claim, d')
    BY DEF DiscloseSome, DisclosedFrom
  <1>3. IsClaim(claim) /\ claim.issuer_signature = issued.commit
    BY DEF DsInv
  <1>4. Shows(d', claim)
    BY <1>2, <1>3, DisclosedShows
  <1>5. IsDisclosure(d')
    BY <1>3, <1>4, ShownIsDisclosure
  <1>6. d'.issuer_signature = issued.commit
    BY <1>3, <1>4 DEF Shows
  <1>7. alterations = 0 => claim = issued
    BY DEF DsInv
  <1>8. QED
    BY <1>1, <1>2, <1>5, <1>6, <1>7 DEF DsInv

LEMMA AlterDisclosureKeeps == DsInv /\ AlterDisclosure => DsInv'
  <1> SUFFICES ASSUME DsInv, AlterDisclosure PROVE DsInv'
    OBVIOUS
  <1>1. issued' = issued /\ claim' = claim /\ alterations' \in Nat \ {0}
    BY DEF DsInv, AlterDisclosure, MayAlter
  <1>2. /\ d = [commit |-> d.commit, issuer_signature |-> d.issuer_signature,
                fields |-> d.fields, reliance |-> d.reliance]
        /\ IsCommit(d.commit) /\ AllFields(d.fields) /\ AllEntries(d.reliance)
        /\ d.issuer_signature = issued.commit
    BY DEF DsInv, AlterDisclosure, IsDisclosure
  <1>3. IsDisclosure(d') /\ d'.issuer_signature = issued.commit
    <2>1. CASE \E list \in AlteredLists(d.fields, AlteredFields) :
                  d' = [d EXCEPT !.fields = list]
      <3>1. PICK list : AllFields(list) /\ d' = [d EXCEPT !.fields = list]
        BY <1>2, <2>1, AlteredFieldsAre
      <3>2. QED
        BY <1>2, <3>1 DEF IsDisclosure
    <2>2. CASE \E list \in AlteredLists(d.reliance, AlteredReliance) :
                  d' = [d EXCEPT !.reliance = list]
      <3>1. PICK list : AllEntries(list) /\ d' = [d EXCEPT !.reliance = list]
        BY <1>2, <2>2, AlteredRelianceIs
      <3>2. QED
        BY <1>2, <3>1 DEF IsDisclosure
    <2>3. CASE \E commit \in AlteredCounts(d.commit) : d' = [d EXCEPT !.commit = commit]
      <3>1. PICK commit : IsCommit(commit) /\ d' = [d EXCEPT !.commit = commit]
        BY <1>2, <2>3, AlteredCommitIs
      <3>2. QED
        BY <1>2, <3>1 DEF IsDisclosure
    <2>4. QED
      BY <2>1, <2>2, <2>3 DEF AlterDisclosure
  <1>4. QED
    BY <1>1, <1>3 DEF DsInv

LEMMA DsInvStep == DsInv /\ [DsNext]_dsVars => DsInv'
  <1> SUFFICES ASSUME DsInv, [DsNext]_dsVars PROVE DsInv'
    OBVIOUS
  <1>1. CASE AlterClaim
    BY <1>1, AlterClaimKeeps
  <1>2. CASE DiscloseSome
    BY <1>2, DiscloseSomeKeeps
  <1>3. CASE AlterDisclosure
    BY <1>3, AlterDisclosureKeeps
  <1>4. CASE UNCHANGED dsVars
    BY <1>4 DEF DsInv, dsVars
  <1>5. QED
    BY <1>1, <1>2, <1>3, <1>4 DEF DsNext

LEMMA DsInvHolds == DsSpec => []DsInv
  BY DsInvInit, DsInvStep, PTL DEF DsSpec

-------------------------------------------------------------------------------
(* What is proven was issued. *)

(* The fields: each leaf that walks up to the signed root is the issuer's.    *)
LEMMA ProvenField ==
  ASSUME NEW c, IsClaim(c), VerifyClaim(c), NEW f, IsField(f), ProveField(f, c.commit)
  PROVE  f.key \in DOMAIN c.body /\ f.value = c.body[f.key]
  <1> DEFINE category == c.commit.category
             table == FieldKeys[category]
             n == Len(table)
             leaves == BodyLeaves(c.master_salt, c.body)
             leaf == FieldLeafHash(f.index, f.key, f.salt, f.value)
  <1>1. category \in DOMAIN FieldKeys /\ DOMAIN c.body = BodyFields[category]
    BY DisclosureAssumption DEF IsClaim, IsCommit
  <1>2. c.commit.field_count = n /\ c.commit.body_root = MerkleRoot(leaves)
    BY VerifiedIs DEF CommitsTo
  <1>3. /\ IsTree(leaves, n)
        /\ \A i \in 1..n :
              /\ leaves[i] = FieldLeafHash(i - 1, table[i],
                                           FieldSalt(c.master_salt, i - 1, table[i]),
                                           c.body[table[i]])
              /\ table[i] \in BodyFields[category]
    BY <1>1, BodyLeavesAre
  <1>4. f.index \in Nat /\ Len(f.audit_path) \in Nat
    BY ListHas DEF IsField
  <1>5. RootFromPath(leaf, f.index, n, f.audit_path) = MerkleRoot(leaves)
    BY <1>2 DEF ProveField
  <1> HIDE DEF leaves, leaf, n
  <1>6. f.index \in 0..n - 1 /\ leaf = leaves[f.index + 1]
    BY <1>3, <1>4, <1>5, ProvenLeaf
  <1> DEFINE pos == f.index + 1
  <1>7. pos \in 1..n /\ pos - 1 = f.index
    BY <1>3, <1>6 DEF IsTree
  <1> HIDE DEF pos
  <1>8. /\ leaves[pos] = FieldLeafHash(pos - 1, table[pos],
                                       FieldSalt(c.master_salt, pos - 1, table[pos]),
                                       c.body[table[pos]])
        /\ table[pos] \in BodyFields[category]
    BY <1>3, <1>7
  <1>9. FieldLeafHash(f.index, f.key, f.salt, f.value)
          = FieldLeafHash(pos - 1, table[pos],
                          FieldSalt(c.master_salt, pos - 1, table[pos]), c.body[table[pos]])
    BY <1>6, <1>8 DEF leaf, pos
  <1> HIDE DEF table
  <1>10. f.key = table[pos] /\ f.value = c.body[table[pos]]
    <2>1. \A i1, k1, s1, v1, i2, k2, s2, v2 :
             FieldLeafHash(i1, k1, s1, v1) = FieldLeafHash(i2, k2, s2, v2)
               => k1 = k2 /\ v1 = v2
      BY DEF FieldLeafHash
    <2>2. QED
      BY <1>9, <2>1
  <1>11. QED
    BY <1>1, <1>8, <1>10

(* The reliance: each entry is the one the issuer declared in that place. *)
LEMMA ProvenEntry ==
  ASSUME NEW c, IsClaim(c), VerifyClaim(c), c.relies_on # <<>>,
         NEW r, IsEntry(r), ProveReliance(r, c.commit)
  PROVE  /\ r.index \in 0..Len(c.relies_on) - 1
         /\ r.from_claim_id = c.relies_on[r.index + 1].from_claim_id
  <1> DEFINE relies_on == c.relies_on
             n == Len(relies_on)
             leaves == RelianceLeaves(c.master_salt, relies_on)
             leaf == RelianceLeafHash(r.index, r.salt, r.from_claim_id, r.kind_commit)
  <1>1. relies_on \in Seq(Range(relies_on)) /\ n \in Nat
    BY RelianceIs DEF IsClaim
  <1>2. c.commit.reliance_count = n /\ c.commit.reliance_root = MerkleRoot(leaves)
    BY VerifiedIs DEF CommitsTo
  <1>3. /\ IsTree(leaves, n)
        /\ \A i \in 1..n :
              leaves[i] = RelianceLeafHash(i - 1, RelianceSalt(c.master_salt, i - 1),
                                           relies_on[i].from_claim_id,
                                           KindCommit(c.master_salt, i - 1, relies_on[i].kind))
    BY <1>1, RelianceLeavesAre
  <1>4. r.index \in Nat /\ Len(r.audit_path) \in Nat
    BY ListHas DEF IsEntry
  <1>5. RootFromPath(leaf, r.index, n, r.audit_path) = MerkleRoot(leaves)
    BY <1>2 DEF ProveReliance
  <1> HIDE DEF leaves, leaf, n
  <1>6. r.index \in 0..n - 1 /\ leaf = leaves[r.index + 1]
    BY <1>3, <1>4, <1>5, ProvenLeaf
  <1> DEFINE i == r.index + 1
  <1>7. i \in 1..n
    BY <1>3, <1>6 DEF IsTree
  <1> HIDE DEF i, relies_on
  <1>8. leaf = RelianceLeafHash(i - 1, RelianceSalt(c.master_salt, i - 1),
                                relies_on[i].from_claim_id,
                                KindCommit(c.master_salt, i - 1, relies_on[i].kind))
    BY <1>3, <1>6, <1>7 DEF i
  <1>9. r.from_claim_id = relies_on[i].from_claim_id
    <2>1. \A i1, s1, f1, k1, i2, s2, f2, k2 :
             RelianceLeafHash(i1, s1, f1, k1) = RelianceLeafHash(i2, s2, f2, k2) => f1 = f2
      BY DEF RelianceLeafHash
    <2>2. QED
      BY <1>8, <2>1 DEF leaf
  <1>10. QED
    BY <1>6, <1>9 DEF n, relies_on, i

(* As many entries as places, no place twice: every place is taken.           *)
LEMMA EveryPlace ==
  ASSUME NEW n \in Nat, NEW at, at \in [1..n -> 0..n - 1],
         \A i, j \in 1..n : at[i] = at[j] => i = j
  PROVE  \A p \in 0..n - 1 : \E i \in 1..n : at[i] = p
  <1>1. at \in Injection(1..n, 0..n - 1)
    BY DEF Injection, IsInjective
  <1>2. IsFiniteSet(0..n - 1) /\ Cardinality(0..n - 1) = n
    <2>1. 0 \in Int /\ n - 1 \in Int
      OBVIOUS
    <2>2. Cardinality(0..n - 1) = (IF 0 > n - 1 THEN 0 ELSE (n - 1) - 0 + 1)
          /\ IsFiniteSet(0..n - 1)
      BY <2>1, FS_Interval
    <2>3. QED
      BY <2>2
  <1>3. IsFiniteSet(1..n) /\ Cardinality(1..n) = n
    <2>1. 1 \in Int /\ n \in Int
      OBVIOUS
    <2>2. Cardinality(1..n) = (IF 1 > n THEN 0 ELSE n - 1 + 1) /\ IsFiniteSet(1..n)
      BY <2>1, FS_Interval
    <2>3. QED
      BY <2>2
  <1>4. at \in Surjection(1..n, 0..n - 1)
    BY <1>1, <1>2, <1>3, FS_Injection
  <1>5. QED
    BY <1>4 DEF Surjection

LEMMA ProvenReliance ==
  ASSUME NEW c, IsClaim(c), VerifyClaim(c), NEW x, x.commit = c.commit,
         AllEntries(x.reliance), VerifyReliance(x)
  PROVE  /\ Len(x.reliance) = Len(c.relies_on)
         /\ {<<r.index, r.from_claim_id>> : r \in Range(x.reliance)}
               = {<<i - 1, c.relies_on[i].from_claim_id>> : i \in DOMAIN c.relies_on}
  <1> DEFINE n == Len(c.relies_on)
             id(i) == c.relies_on[i].from_claim_id
             s == x.reliance
             L == {<<r.index, r.from_claim_id>> : r \in Range(s)}
             R == {<<i - 1, id(i)>> : i \in 1..n}
  <1>1. n \in Nat /\ DOMAIN c.relies_on = 1..n /\ (c.relies_on = <<>> => n = 0)
    BY RelianceIs DEF IsClaim
  <1>2. Len(s) = n
    BY VerifiedIs DEF VerifyReliance, CommitsTo
  <1>3. /\ DOMAIN s = 1..n /\ \A i \in 1..n : s[i] \in Range(s) /\ IsEntry(s[i])
    BY <1>2, ListHas DEF AllEntries
  <1>4. ASSUME NEW i \in 1..n
        PROVE  s[i].index \in 0..n - 1 /\ s[i].from_claim_id = id(s[i].index + 1)
    <2>1. ProveReliance(s[i], c.commit)
      BY <1>3 DEF VerifyReliance
    <2>2. c.relies_on # <<>>
      BY <1>1
    <2>3. IsEntry(s[i])
      BY <1>3
    <2>4. QED
      BY <2>1, <2>2, <2>3, ProvenEntry
  <1>5. \A i, j \in 1..n : s[i].index = s[j].index => i = j
    BY <1>3 DEF VerifyReliance
  <1> HIDE DEF n, id, s
  <1>6. L \subseteq R
    <2> SUFFICES ASSUME NEW r \in Range(s) PROVE <<r.index, r.from_claim_id>> \in R
      OBVIOUS
    <2>1. PICK i \in 1..n : r = s[i]
      BY <1>3 DEF Range
    <2> DEFINE p == s[i].index + 1
    <2>2. p \in 1..n /\ p - 1 = r.index /\ r.from_claim_id = id(p)
      BY <1>1, <1>4, <2>1
    <2> HIDE DEF p
    <2>3. QED
      BY <2>2
  <1>7. R \subseteq L
    <2> SUFFICES ASSUME NEW p \in 1..n PROVE <<p - 1, id(p)>> \in L
      OBVIOUS
    <2> DEFINE at == [i \in 1..n |-> s[i].index]
    <2>1. at \in [1..n -> 0..n - 1]
      BY <1>4
    <2>2. \A i, j \in 1..n : at[i] = at[j] => i = j
      BY <1>5
    <2>3. p - 1 \in 0..n - 1
      BY <1>1
    <2>4. \A i \in 1..n : at[i] = s[i].index
      OBVIOUS
    <2> HIDE DEF at
    <2>5. \E i \in 1..n : at[i] = p - 1
      BY SMTT(30), <1>1, <2>1, <2>2, <2>3, EveryPlace
    <2>6. PICK i \in 1..n : s[i].index = p - 1
      BY <2>4, <2>5
    <2>7. (p - 1) + 1 = p
      BY <1>1
    <2>8. s[i].from_claim_id = id(p)
      BY <1>4, <2>6, <2>7
    <2>9. s[i] \in Range(s)
      BY <1>3
    <2>10. QED
      BY <2>6, <2>8, <2>9
  <1>8. QED
    BY <1>1, <1>2, <1>6, <1>7 DEF n, id, s

(* Whatever was altered on the way, in the claim's file or in the             *)
(* disclosure's: what a verifier takes as proven are fields with the values   *)
(* the issuer signed, and all of the claims it declared to rely on, each in   *)
(* its place.                                                                 *)
THEOREM ProvenIsIssuedHolds == DsSpec => []ProvenIsIssued
  <1>1. DsInv => ProvenIsIssued
    <2> SUFFICES ASSUME DsInv, d # NotDisclosed, Verify(d, {})
                 PROVE  /\ \A f \in Range(d.fields) :
                              f.key \in DOMAIN issued.body /\ f.value = issued.body[f.key]
                        /\ Len(d.reliance) = Len(issued.relies_on)
                        /\ {<<r.index, r.from_claim_id>> : r \in Range(d.reliance)}
                             = {<<i - 1, issued.relies_on[i].from_claim_id>> :
                                  i \in DOMAIN issued.relies_on}
      BY DEF ProvenIsIssued
    <2>1. IsClaim(issued) /\ VerifyClaim(issued) /\ IsDisclosure(d)
      BY DEF DsInv
    <2>2. d.commit = issued.commit
      BY DEF DsInv, Verify
    <2>3. ASSUME NEW f \in Range(d.fields)
          PROVE  f.key \in DOMAIN issued.body /\ f.value = issued.body[f.key]
      <3>1. IsField(f)
        BY <2>1 DEF IsDisclosure, AllFields
      <3>2. ProveField(f, issued.commit)
        BY <2>2 DEF Verify, Range
      <3>3. QED
        BY <2>1, <3>1, <3>2, ProvenField
    <2>4. AllEntries(d.reliance) /\ VerifyReliance(d)
      BY <2>1 DEF IsDisclosure, Verify
    <2>5. QED
      BY <2>1, <2>2, <2>3, <2>4, ProvenReliance
  <1>2. QED
    BY <1>1, DsInvHolds, PTL

-------------------------------------------------------------------------------
(* A verifier takes what is disclosed from a claim just when its holder's     *)
(* check takes the claim.                                                     *)

(* The parts of that check: given the signature, the counts and the roots.    *)
Recomputed(c) ==
    /\ c.commit.body_root = MerkleRoot(BodyLeaves(c.master_salt, c.body))
    /\ c.commit.field_count = Len(FieldKeys[c.commit.category])
    /\ c.commit.reliance_count = Len(c.relies_on)
    /\ c.commit.reliance_root = IF c.relies_on = <<>> THEN EmptyRelianceRoot
                                ELSE MerkleRoot(RelianceLeaves(c.master_salt, c.relies_on))

LEMMA VerifyClaimIs ==
  ASSUME NEW c, IsClaim(c)
  PROVE  VerifyClaim(c) <=> c.issuer_signature = c.commit /\ Recomputed(c)
  <1> DEFINE made == Commit(c.commit.category, c.master_salt, c.body, c.relies_on)
             commit == c.commit
  <1>1. /\ IsCommit(commit) /\ IsCommit(made)
        /\ CommitsTo(made, commit.category, c.master_salt, c.body, c.relies_on)
    <2>1. /\ c.commit.category \in Category /\ c.relies_on \in Reliance
          /\ DOMAIN c.body = BodyFields[c.commit.category] /\ IsCommit(c.commit)
      BY DEF IsClaim, IsCommit
    <2>2. QED
      BY <2>1, CommitIs
  <1>2. VerifyClaim(c) <=> made = commit /\ c.issuer_signature = commit
    BY DEF VerifyClaim
  <1>3. Recomputed(c) <=>
            CommitsTo(commit, commit.category, c.master_salt, c.body, c.relies_on)
    BY DEF Recomputed, CommitsTo
  <1> HIDE DEF made, commit
  <1>4. /\ made = [category |-> made.category, body_root |-> made.body_root,
                   field_count |-> made.field_count, reliance_root |-> made.reliance_root,
                   reliance_count |-> made.reliance_count]
        /\ commit = [category |-> commit.category, body_root |-> commit.body_root,
                     field_count |-> commit.field_count, reliance_root |-> commit.reliance_root,
                     reliance_count |-> commit.reliance_count]
    BY <1>1 DEF IsCommit
  <1>5. ASSUME Recomputed(c) PROVE made = commit
    <2>1. /\ made.category = commit.category /\ made.body_root = commit.body_root
          /\ made.field_count = commit.field_count
          /\ made.reliance_root = commit.reliance_root
          /\ made.reliance_count = commit.reliance_count
      BY <1>1, <1>3, <1>5 DEF CommitsTo
    <2>2. QED
      BY <1>4, <2>1
  <1>6. ASSUME made = commit PROVE Recomputed(c)
    BY <1>1, <1>3, <1>6
  <1>7. QED
    BY <1>2, <1>5, <1>6 DEF commit

(* What is verified of the reliance, given that the counts agree. *)
LEMMA RelianceVerified ==
  ASSUME NEW c, IsClaim(c), NEW x, Shows(x, c), c.commit.reliance_count = Len(c.relies_on)
  PROVE  VerifyReliance(x)
           <=> (c.relies_on = <<>>
                  \/ c.commit.reliance_root
                       = MerkleRoot(RelianceLeaves(c.master_salt, c.relies_on)))
  <1> DEFINE n == Len(c.relies_on)
             s == x.reliance
             root == MerkleRoot(RelianceLeaves(c.master_salt, c.relies_on))
  <1>1. /\ n \in Nat /\ DOMAIN s = 1..n /\ Len(s) = n
        /\ \A i \in 1..n : EntryAt(s[i], c, i)
    BY DisclosedRelianceIs DEF Shows
  <1>2. c.relies_on = <<>> <=> n = 0
    BY RelianceIs DEF IsClaim
  <1>3. x.commit = c.commit
    BY DEF Shows
  <1>4. n = c.commit.reliance_count /\ n = Len(c.relies_on)
    OBVIOUS
  <1> HIDE DEF s, root, n
  <1>5. ASSUME NEW i \in 1..n
        PROVE  s[i].index = i - 1 /\ (ProveReliance(s[i], c.commit) <=> c.commit.reliance_root = root)
    BY <1>1, <1>4, EntryShown DEF root
  <1>6. \A i, j \in 1..n : s[i].index = s[j].index => i = j
    BY <1>1, <1>5
  <1>7. VerifyReliance(x) <=> \A i \in 1..n : ProveReliance(s[i], c.commit)
    BY <1>1, <1>3, <1>4, <1>6 DEF VerifyReliance, s
  <1>8. CASE n = 0
    BY <1>1, <1>2, <1>7, <1>8
  <1>9. CASE n # 0
    <2>1. 1 \in 1..n
      BY <1>1, <1>9
    <2>2. VerifyReliance(x) <=> c.commit.reliance_root = root
      BY <1>5, <1>7, <2>1
    <2>3. QED
      BY <1>2, <1>9, <2>2 DEF root
  <1>10. QED
    BY <1>8, <1>9

LEMMA VerifyIff ==
  ASSUME IsClaim(issued), VerifyClaim(issued),
         NEW c, IsClaim(c), c.issuer_signature = issued.commit, NEW x, Shows(x, c)
  PROVE  Verify(x, {}) <=> VerifyClaim(c)
  <1> DEFINE table == FieldKeys[c.commit.category]
             root == MerkleRoot(BodyLeaves(c.master_salt, c.body))
  <1>1. x.commit = c.commit /\ x.issuer_signature = c.issuer_signature
    BY DEF Shows
  <1>2. PICK n : FieldsOf(x.fields, c, n)
    BY DEF Shows
  <1>3. n \in Nat \ {0} /\ DOMAIN x.fields = 1..n
    BY <1>2 DEF FieldsOf
  <1>4. ASSUME c.commit.field_count = Len(table), NEW j \in 1..n
        PROVE  ProveField(x.fields[j], c.commit) <=> c.commit.body_root = root
    <2>1. PICK pos \in 1..Len(FieldKeys[c.commit.category]) : FieldAt(x.fields[j], c, pos)
      BY <1>2 DEF FieldsOf
    <2>2. QED
      BY <1>4, <2>1, FieldShown
  <1> HIDE DEF root, table
  <1>5. Verify(x, {}) <=> /\ c.issuer_signature = c.commit
                         /\ c.commit.field_count = Len(table)
                         /\ \A j \in 1..n : ProveField(x.fields[j], c.commit)
                         /\ VerifyReliance(x)
    BY <1>1, <1>3 DEF Verify, table
  <1>6. Verify(x, {}) <=> /\ c.issuer_signature = c.commit
                         /\ c.commit.field_count = Len(table)
                         /\ c.commit.body_root = root
                         /\ VerifyReliance(x)
    <2>1. 1 \in 1..n
      BY <1>3
    <2>2. QED
      BY <1>4, <1>5, <2>1
  <1>7. VerifyReliance(x) => c.commit.reliance_count = Len(c.relies_on)
    <2>1. Len(x.reliance) = Len(c.relies_on)
      BY DisclosedRelianceIs DEF Shows
    <2>2. QED
      BY <1>1, <2>1 DEF VerifyReliance
  <1>8. ASSUME VerifyClaim(c) PROVE Verify(x, {})
    <2>1. c.issuer_signature = c.commit /\ Recomputed(c)
      BY <1>8, VerifyClaimIs
    <2>2. VerifyReliance(x)
      BY <2>1, RelianceVerified DEF Recomputed
    <2>3. QED
      BY <1>6, <2>1, <2>2 DEF Recomputed, root, table
  <1>9. ASSUME Verify(x, {}) PROVE VerifyClaim(c)
    <2>1. /\ c.issuer_signature = c.commit /\ c.commit.field_count = Len(table)
          /\ c.commit.body_root = root /\ VerifyReliance(x)
          /\ c.commit.reliance_count = Len(c.relies_on)
      BY <1>6, <1>7, <1>9
    <2>2. c.commit.reliance_root = IF c.relies_on = <<>> THEN EmptyRelianceRoot
                                   ELSE MerkleRoot(RelianceLeaves(c.master_salt, c.relies_on))
      <3>1. CASE c.relies_on # <<>>
        BY <2>1, <3>1, RelianceVerified
      <3>2. CASE c.relies_on = <<>>
        <4>1. c.commit = issued.commit
          BY <2>1
        <4>2. Len(c.relies_on) = 0
          BY <3>2
        <4>3. CommitsTo(issued.commit, issued.commit.category, issued.master_salt, issued.body,
                        issued.relies_on)
          BY VerifiedIs
        <4>4. Len(issued.relies_on) = 0
          BY <2>1, <4>1, <4>2, <4>3 DEF CommitsTo
        <4>5. issued.relies_on = <<>>
          BY <4>4, RelianceIs DEF IsClaim
        <4>6. issued.commit.reliance_root = EmptyRelianceRoot
          BY <4>3, <4>5 DEF CommitsTo
        <4>7. QED
          BY <3>2, <4>1, <4>6
      <3>3. QED
        BY <3>1, <3>2
    <2>3. Recomputed(c)
      BY <2>1, <2>2 DEF Recomputed, root, table
    <2>4. QED
      BY <2>1, <2>3, VerifyClaimIs
  <1>10. QED
    BY <1>8, <1>9

(* A holder's check and a verifier's agree on every claim, whatever was       *)
(* altered in its file before anything was disclosed, and whichever fields    *)
(* are shown.                                                                 *)
THEOREM ClaimAndDisclosureAgreeHolds == DsSpec => ClaimAndDisclosureAgree
  <1>1. DsInv /\ [DsNext]_dsVars
          => [d = NotDisclosed /\ d' # NotDisclosed
                => (Verify(d', {}) <=> VerifyClaim(claim))]_dsVars
    <2> SUFFICES ASSUME DsInv, DsNext, d = NotDisclosed, d' # NotDisclosed
                 PROVE  Verify(d', {}) <=> VerifyClaim(claim)
      BY DEF dsVars
    <2>1. DiscloseSome
      BY DEF DsNext, AlterClaim, AlterDisclosure
    <2>2. DisclosedFrom(claim, d')
      BY <2>1 DEF DiscloseSome, DisclosedFrom
    <2>3. /\ IsClaim(issued) /\ VerifyClaim(issued) /\ IsClaim(claim)
          /\ claim.issuer_signature = issued.commit
      BY DEF DsInv
    <2>4. Shows(d', claim)
      BY <2>2, <2>3, DisclosedShows
    <2>5. QED
      BY <2>3, <2>4, VerifyIff
  <1>2. QED
    BY <1>1, DsInvHolds, PTL DEF DsSpec, ClaimAndDisclosureAgree

(* The roots that are signed are those of the tree that pairs neighbours.     *)
LEMMA IssuedIsPaired ==
  ASSUME IsClaim(issued), VerifyClaim(issued)
  PROVE  RootsArePaired(issued)
  <1> DEFINE c == issued
             leaves == BodyLeaves(c.master_salt, c.body)
             relied == RelianceLeaves(c.master_salt, c.relies_on)
             category == c.commit.category
             master == c.master_salt
             body == c.body
  <1>1. CommitsTo(c.commit, category, master, body, c.relies_on)
    BY VerifiedIs
  <1>2. c.commit.body_root = MerkleRoot(leaves)
    BY <1>1 DEF CommitsTo
  <1>3. category \in DOMAIN FieldKeys /\ DOMAIN body = BodyFields[category]
        /\ c.relies_on \in Reliance
    BY DisclosureAssumption DEF IsClaim, IsCommit
  <1> HIDE DEF c, category, master, body
  <1>4. IsTree(leaves, Len(FieldKeys[category]))
    BY <1>3, BodyLeavesAre DEF master, body
  <1>5. PairedRoot(leaves) = MerkleRoot(leaves)
    BY <1>4, PairedIs DEF IsTree
  <1>6. ASSUME c.relies_on # <<>> PROVE c.commit.reliance_root = PairedRoot(relied)
    <2>1. c.relies_on \in Seq(Range(c.relies_on))
      BY <1>3, RelianceIs
    <2>2. IsTree(relied, Len(c.relies_on))
      BY <1>6, <2>1, RelianceLeavesAre
    <2>3. PairedRoot(relied) = MerkleRoot(relied)
      BY <2>2, PairedIs DEF IsTree
    <2>4. QED
      BY <1>1, <1>6, <2>3 DEF CommitsTo, master
  <1>7. QED
    BY <1>2, <1>5, <1>6 DEF RootsArePaired, c

(* What is disclosed from an intact claim and arrives intact is proven.       *)
THEOREM HonestIsProvenHolds == DsSpec => []HonestIsProven
  <1>1. DsInv /\ alterations = 0 /\ d # NotDisclosed => Verify(d, {f.key : f \in Range(d.fields)})
    <2> SUFFICES ASSUME DsInv, alterations = 0, d # NotDisclosed
                 PROVE  Verify(d, {f.key : f \in Range(d.fields)})
      OBVIOUS
    <2>1. /\ IsClaim(issued) /\ VerifyClaim(issued) /\ DisclosedFrom(issued, d)
      BY DEF DsInv
    <2>2. issued.issuer_signature = issued.commit
      BY <2>1, VerifiedIs
    <2>3. Shows(d, issued)
      BY <2>1, DisclosedShows
    <2>4. Verify(d, {})
      BY <2>1, <2>2, <2>3, VerifyIff
    <2>5. QED
      BY <2>4 DEF Verify
  <1>2. DsInv => RootsArePaired(issued)
    BY IssuedIsPaired DEF DsInv
  <1>3. DsInv => HonestIsProven
    BY <1>1, <1>2 DEF HonestIsProven
  <1>4. QED
    BY <1>3, DsInvHolds, PTL

===============================================================================
