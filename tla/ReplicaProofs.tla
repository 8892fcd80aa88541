---------------------------- MODULE ReplicaProofs ---------------------------
(***************************************************************************)
(* kurogane-kv.  A command read back from a log, and a map read back from  *)
(* a snapshot, are the ones that were written, whatever bytes the keys and *)
(* the values are made of; applying entries that a map already has leaves  *)
(* it as it is.  And replicas whose voters are never changed and that do   *)
(* not compact: each is the replay of the prefix of its log that its node  *)
(* counts committed, and that prefix is what every other replica replays.  *)
(***************************************************************************)
EXTENDS Replica, RaftSafetyProofs

-----------------------------------------------------------------------------
(* Byte strings *)

Bytes == Seq(Nat)

\* The bytes bs hold the length-prefixed string v at position p.
At(bs, p, v) ==
    /\ p + Len(v) <= Len(bs) /\ bs[p] = Len(v)
    /\ \A i \in 1 .. Len(v) : bs[p + i] = v[i]

-----------------------------------------------------------------------------
(* Strings *)

\* Keys and values are byte strings.
LEMMA ByteStrings == Key \subseteq Bytes /\ Value \subseteq Bytes
BY KeyValueAssumption DEF Key, Range, Bytes

\* What encode_bytes writes.
LEMMA EncodedString ==
    ASSUME NEW v \in Bytes
    PROVE  /\ EncodeBytes(v) \in Bytes /\ Len(EncodeBytes(v)) = Len(v) + 1
           /\ At(EncodeBytes(v), 1, v)
<1>1. Len(v) \in Nat /\ <<Len(v)>> \in Bytes /\ v \in Bytes
  BY DEF Bytes
<1>2. /\ EncodeBytes(v) \in Bytes /\ Len(EncodeBytes(v)) = Len(v) + 1
      /\ \A i \in 1 .. (Len(v) + 1) :
            EncodeBytes(v)[i] = IF i <= 1 THEN <<Len(v)>>[i] ELSE v[i - 1]
  BY <1>1, ConcatProperties DEF EncodeBytes, Bytes
<1>3. EncodeBytes(v)[1] = Len(v)
  BY <1>1, <1>2
<1>4. \A i \in 1 .. Len(v) : EncodeBytes(v)[1 + i] = v[i]
  BY <1>1, <1>2
<1> QED
  BY <1>1, <1>2, <1>3, <1>4 DEF At

\* A string stays where it is when more is written after it, and moves with
\* the rest when it is written after something else.
LEMMA StringInside ==
    ASSUME NEW a \in Bytes, NEW b \in Bytes, NEW v \in Bytes, NEW p \in Nat, p >= 1
    PROVE  /\ At(a, p, v) => At(a \o b, p, v)
           /\ At(b, p, v) => At(a \o b, Len(a) + p, v)
<1>1. /\ Len(a) \in Nat /\ Len(b) \in Nat /\ Len(v) \in Nat
      /\ a \o b \in Bytes /\ Len(a \o b) = Len(a) + Len(b)
      /\ \A i \in 1 .. Len(a) + Len(b) : (a \o b)[i] = IF i <= Len(a) THEN a[i] ELSE b[i - Len(a)]
  BY ConcatProperties DEF Bytes
<1> DEFINE c == a \o b
<1>2. /\ \A i \in 1 .. Len(a) : c[i] = a[i]
      /\ \A i \in 1 .. Len(b) : c[Len(a) + i] = b[i]
      /\ Len(c) = Len(a) + Len(b)
  BY <1>1
<1> HIDE DEF c
<1>3. ASSUME At(a, p, v) PROVE At(c, p, v)
  <2>1. p + Len(v) <= Len(a) /\ a[p] = Len(v) /\ \A i \in 1 .. Len(v) : a[p + i] = v[i]
    BY <1>3 DEF At
  <2>2. p \in 1 .. Len(a) /\ \A i \in 1 .. Len(v) : p + i \in 1 .. Len(a)
    BY <1>1, <2>1
  <2>3. p + Len(v) <= Len(c)
    BY <1>1, <1>2, <2>1
  <2> QED
    BY <1>2, <2>1, <2>2, <2>3 DEF At
<1>4. ASSUME At(b, p, v) PROVE At(c, Len(a) + p, v)
  <2>1. p + Len(v) <= Len(b) /\ b[p] = Len(v) /\ \A i \in 1 .. Len(v) : b[p + i] = v[i]
    BY <1>4 DEF At
  <2>2. Len(a) + p + Len(v) <= Len(c) /\ c[Len(a) + p] = Len(v)
    <3>1. p \in 1 .. Len(b)
      BY <1>1, <2>1
    <3>2. Len(a) + p + Len(v) <= Len(a) + Len(b)
      BY <1>1, <2>1
    <3> QED
      BY <1>2, <2>1, <3>1, <3>2
  <2>3. ASSUME NEW i \in 1 .. Len(v) PROVE c[Len(a) + p + i] = v[i]
    <3>1. p + i \in 1 .. Len(b) /\ Len(a) + p + i = Len(a) + (p + i)
      BY <1>1, <2>1
    <3> QED
      BY <1>2, <2>1, <3>1
  <2> QED
    BY <2>2, <2>3 DEF At
<1> QED
  BY <1>3, <1>4 DEF c

\* read_bytes finds the string and the position after it.
LEMMA ReadString ==
    ASSUME NEW bs \in Bytes, NEW v \in Bytes, NEW p \in Nat, p >= 1, At(bs, p, v)
    PROVE  ReadBytes(bs, p) = [ok |-> TRUE, value |-> v, next |-> p + Len(v) + 1]
<1>1. /\ Len(bs) \in Nat /\ Len(v) \in Nat /\ bs[p] = Len(v) /\ p + Len(v) <= Len(bs)
      /\ \A i \in 1 .. Len(v) : bs[p + i] = v[i]
  BY DEF At, Bytes
<1>2. PICK lo, hi \in Int : lo = p + 1 /\ hi = p + Len(v)
  BY <1>1
<1> DEFINE s == SubSeq(bs, lo, hi)
<1>3. /\ s \in Bytes /\ Len(s) = IF lo <= hi THEN hi - lo + 1 ELSE 0
      /\ \A i \in 1 .. hi - lo + 1 : s[i] = bs[lo + i - 1]
  <2>1. ASSUME NEW i \in lo .. hi PROVE bs[i] \in Nat
    <3>1. i \in 1 .. Len(bs)
      BY <1>1, <1>2
    <3> QED
      BY <3>1 DEF Bytes
  <2>2. /\ SubSeq(bs, lo, hi) \in Seq(Nat)
        /\ Len(SubSeq(bs, lo, hi)) = IF lo <= hi THEN hi - lo + 1 ELSE 0
        /\ \A i \in 1 .. hi - lo + 1 : SubSeq(bs, lo, hi)[i] = bs[lo + i - 1]
    BY <2>1, SubSeqProperties
  <2> QED
    BY <2>2 DEF Bytes
<1> HIDE DEF s
<1>4. Len(s) = Len(v)
  BY <1>1, <1>2, <1>3
<1>5. \A i \in 1 .. Len(v) : s[i] = v[i]
  <2> SUFFICES ASSUME NEW i \in 1 .. Len(v) PROVE s[i] = v[i]
    OBVIOUS
  <2>1. i \in 1 .. hi - lo + 1 /\ lo + i - 1 = p + i
    BY <1>1, <1>2
  <2> QED
    BY <1>1, <1>3, <2>1
<1>6. s = v
  BY <1>3, <1>4, <1>5, SeqEqual DEF Bytes
<1>7. ~ (p > Len(bs)) /\ ~ (p + bs[p] > Len(bs))
  BY <1>1
<1> QED
  BY <1>1, <1>2, <1>6, <1>7 DEF ReadBytes, s

-----------------------------------------------------------------------------
(* Commands *)

\* What Command::encode writes.
LEMMA EncodedCommand ==
    ASSUME NEW c \in Operation
    PROVE  /\ Encode(c) \in Bytes /\ Encode(c) # <<>> /\ Encode(c)[1] = Tag[c.kind]
           /\ At(Encode(c), 2, c.key)
           /\ c.kind = "Set" => At(Encode(c), 3 + Len(c.key), c.value)
<1>1. c.key \in Bytes /\ (c.kind = "Set" => c.value \in Bytes) /\ Tag[c.kind] \in Nat
  BY ByteStrings DEF Operation, Tag
<1>2. /\ <<Tag[c.kind]>> \in Bytes /\ Len(<<Tag[c.kind]>>) = 1 /\ Len(c.key) \in Nat
      /\ <<Tag[c.kind]>>[1] = Tag[c.kind]
  BY <1>1 DEF Bytes
<1> DEFINE tag == <<Tag[c.kind]>>
           k == EncodeBytes(c.key)
           v == IF c.kind = "Set" THEN EncodeBytes(c.value) ELSE <<>>
<1>3. /\ k \in Bytes /\ v \in Bytes /\ At(k, 1, c.key) /\ Len(k) = Len(c.key) + 1
      /\ (c.kind = "Set" => At(v, 1, c.value))
  <2>1. k \in Bytes /\ At(k, 1, c.key) /\ Len(k) = Len(c.key) + 1
    BY <1>1, EncodedString
  <2>2. c.kind = "Set" => EncodeBytes(c.value) \in Bytes /\ At(EncodeBytes(c.value), 1, c.value)
    BY <1>1, EncodedString
  <2>3. <<>> \in Bytes
    BY DEF Bytes
  <2> QED
    BY <2>1, <2>2, <2>3
<1>4. Encode(c) = tag \o k \o v
  BY DEF Encode
<1> HIDE DEF tag, k, v
<1>5. tag \in Bytes /\ Len(tag) = 1 /\ tag[1] = Tag[c.kind]
  BY <1>2 DEF tag
<1> DEFINE tk == tag \o k
<1>6. tk \in Bytes /\ Len(tk) = Len(c.key) + 2 /\ tk[1] = Tag[c.kind] /\ At(tk, 1 + 1, c.key)
  <2>1. tk \in Bytes /\ Len(tk) = 1 + Len(k) /\ tk[1] = tag[1]
    <3>1. /\ tk \in Bytes /\ Len(tk) = Len(tag) + Len(k)
          /\ \A i \in 1 .. Len(tag) + Len(k) :
                tk[i] = IF i <= Len(tag) THEN tag[i] ELSE k[i - Len(tag)]
      BY <1>3, <1>5, ConcatProperties DEF Bytes
    <3>2. 1 \in 1 .. Len(tag) + Len(k) /\ 1 <= Len(tag)
      BY <1>2, <1>3, <1>5
    <3> QED
      BY <1>5, <3>1, <3>2
  <2>2. At(tk, Len(tag) + 1, c.key)
    <3>1. PICK one \in Nat : one = 1
      OBVIOUS
    <3>2. one >= 1 /\ At(k, one, c.key)
      BY <1>3, <3>1
    <3>3. At(tk, Len(tag) + one, c.key)
      BY <1>1, <1>3, <1>5, <3>2, StringInside
    <3> QED
      BY <3>1, <3>3
  <2> QED
    BY <1>2, <1>3, <1>5, <2>1, <2>2
<1> HIDE DEF tk
<1> DEFINE all == tk \o v
<1>7. all \in Bytes /\ Len(all) = Len(tk) + Len(v) /\ all[1] = tk[1] /\ Len(v) \in Nat
  <2>1. Len(v) \in Nat
    BY <1>3 DEF Bytes
  <2>2. 1 \in 1 .. Len(tk) + Len(v) /\ 1 <= Len(tk)
    BY <1>2, <1>6, <2>1
  <2> QED
    BY <1>3, <1>6, <2>1, <2>2, ConcatProperties DEF Bytes
<1>8. At(all, 1 + 1, c.key)
  BY <1>1, <1>3, <1>6, StringInside
<1>9. c.kind = "Set" => At(all, Len(tk) + 1, c.value)
  BY <1>1, <1>3, <1>6, StringInside
<1>10. Encode(c) = all
  BY <1>4 DEF all, tk
<1> HIDE DEF all
<1>11. all # <<>>
  BY <1>2, <1>6, <1>7
<1>12. 1 + 1 = 2 /\ Len(tk) + 1 = 3 + Len(c.key)
  BY <1>2, <1>6
<1> QED
  BY <1>6, <1>7, <1>8, <1>9, <1>10, <1>11, <1>12

\* A command comes back from the log as it was proposed: Command::decode undoes
\* Command::encode for every key and value, the empty ones included, and
\* whatever bytes the strings are made of.
THEOREM CommandRoundTrip == \A c \in Operation : Decode(Encode(c)) = Some(c)
<1> SUFFICES ASSUME NEW c \in Operation PROVE Decode(Encode(c)) = Some(c)
  OBVIOUS
<1> DEFINE bs == Encode(c)
<1>1. /\ bs \in Bytes /\ bs # <<>> /\ bs[1] = Tag[c.kind] /\ At(bs, 2, c.key)
      /\ c.kind = "Set" => At(bs, 3 + Len(c.key), c.value)
  BY EncodedCommand
<1>2. /\ c.key \in Bytes /\ Len(c.key) \in Nat
      /\ (c.kind = "Set" => c.value \in Bytes) /\ c.kind \in {"Set", "Delete", "Get"}
  BY ByteStrings DEF Operation, Bytes
<1> HIDE DEF bs
<1> DEFINE tags == {k \in DOMAIN Tag : bs # <<>> /\ Tag[k] = bs[1]}
<1>3. tags = {c.kind}
  BY <1>1, <1>2 DEF Tag
<1>4. ReadBytes(bs, 2) = [ok |-> TRUE, value |-> c.key, next |-> 2 + Len(c.key) + 1]
  BY <1>1, <1>2, ReadString
<1>5. 2 + Len(c.key) + 1 = 3 + Len(c.key)
  BY <1>2
<1>6. c.kind = "Set" =>
         ReadBytes(bs, 3 + Len(c.key))
            = [ok |-> TRUE, value |-> c.value, next |-> 3 + Len(c.key) + Len(c.value) + 1]
  <2>1. 3 + Len(c.key) \in Nat /\ 3 + Len(c.key) >= 1
    BY <1>2
  <2> QED
    BY <1>1, <1>2, <2>1, ReadString
<1> DEFINE kind == CHOOSE k \in tags : TRUE
           key == ReadBytes(bs, 2)
           value == ReadBytes(bs, key.next)
<1>7. Decode(bs) = IF tags = {} \/ ~ key.ok THEN None
                   ELSE IF kind # "Set" THEN Some([kind |-> kind, key |-> key.value])
                   ELSE IF ~ value.ok THEN None
                   ELSE Some([kind |-> kind, key |-> key.value, value |-> value.value])
  BY DEF Decode
<1>8. kind = c.kind /\ tags # {}
  BY <1>3
<1>9. key.ok /\ key.value = c.key /\ key.next = 3 + Len(c.key)
  BY <1>4, <1>5
<1>10. c.kind = "Set" => value.ok /\ value.value = c.value
  BY <1>6, <1>9
<1>11. /\ c.kind = "Set" => c = [kind |-> c.kind, key |-> c.key, value |-> c.value]
       /\ c.kind # "Set" => c = [kind |-> c.kind, key |-> c.key]
  BY DEF Operation
<1> HIDE DEF tags, kind, key, value
<1>12. Decode(bs) = Some(c)
  <2>1. CASE c.kind = "Set"
    BY <1>7, <1>8, <1>9, <1>10, <1>11, <2>1
  <2>2. CASE c.kind # "Set"
    BY <1>7, <1>8, <1>9, <1>11, <2>2
  <2> QED
    BY <2>1, <2>2
<1> QED
  BY <1>12 DEF bs

-----------------------------------------------------------------------------
(* Snapshots *)

\* What the snapshot of the map e holds for key k.
Pair(e, k) == IF k \in DOMAIN e THEN EncodeBytes(k) \o EncodeBytes(e[k]) ELSE <<>>

\* w[i] is what the snapshot of e holds for the first i keys.
Writes(e, w) ==
    w = [i \in 0 .. Len(KeyOrder) |-> IF i = 0 THEN <<>> ELSE w[i - 1] \o Pair(e, KeyOrder[i])]

\* What f says of the bytes bs from p on, if it is right about what comes later.
ReadFrom(bs, f, p) ==
    LET key == ReadBytes(bs, p)
        value == ReadBytes(bs, key.next)
        rest == f[value.next]
    IN  IF p > Len(bs) THEN Some(<<>>)
        ELSE IF ~ key.ok \/ ~ value.ok \/ rest = None THEN None
        ELSE Some(IF key.value \in DOMAIN rest[1] THEN rest[1]
                  ELSE With(rest[1], key.value, value.value))

\* f[p] is the map that the bytes bs hold from p on.
Reads(bs, f) == f = [p \in 1 .. Len(bs) + 1 |-> ReadFrom(bs, f, p)]

\* A map from keys to byte strings.
MapOf(e) == DOMAIN e \subseteq Key /\ e = [k \in DOMAIN e |-> e[k]] /\ \A k \in DOMAIN e : e[k] \in Bytes

\* The part of e that belongs to the keys after the i-th.
After(e, i) == [k \in DOMAIN e \cap {KeyOrder[j] : j \in (i + 1) .. Len(KeyOrder)} |-> e[k]]

\* The keys are byte strings, each at some place of the order.
LEMMA KeyStrings ==
    /\ Len(KeyOrder) \in Nat /\ DOMAIN KeyOrder = 1 .. Len(KeyOrder)
    /\ \A i \in 1 .. Len(KeyOrder) : KeyOrder[i] \in Bytes
    /\ \A k \in Key : \E i \in 1 .. Len(KeyOrder) : k = KeyOrder[i]
BY KeyValueAssumption DEF Key, Range, Bytes

\* What is written for one key is a string of bytes.
LEMMA PairBytes ==
    ASSUME NEW e, MapOf(e), NEW i \in 1 .. Len(KeyOrder)
    PROVE  Pair(e, KeyOrder[i]) \in Bytes
<1>1. CASE KeyOrder[i] \in DOMAIN e
  <2>1. EncodeBytes(KeyOrder[i]) \in Bytes /\ EncodeBytes(e[KeyOrder[i]]) \in Bytes
    BY <1>1, KeyStrings, EncodedString DEF MapOf
  <2> QED
    BY <1>1, <2>1, ConcatProperties DEF Pair, Bytes
<1>2. CASE KeyOrder[i] \notin DOMAIN e
  BY <1>2 DEF Pair, Bytes
<1> QED
  BY <1>1, <1>2

\* The loop of snapshot() runs to its end.
LEMMA WritesExists == \A e : \E w : Writes(e, w)
<1> SUFFICES ASSUME NEW e PROVE \E w : Writes(e, w)
  OBVIOUS
<1> DEFINE Made(w, n) == w = [i \in 0 .. n |-> IF i = 0 THEN <<>> ELSE w[i - 1] \o Pair(e, KeyOrder[i])]
           S == {n \in Nat : \E w : Made(w, n)}
           N == Len(KeyOrder)
<1>1. N \in Nat
  BY KeyStrings
<1>2. 0 \in S
  <2>1. Made([i \in 0 .. 0 |-> <<>>], 0)
    OBVIOUS
  <2> QED
    BY <2>1
<1>3. ASSUME NEW n \in 0 .. (N - 1), n \in S PROVE n + 1 \in S
  <2>1. PICK w : Made(w, n)
    BY <1>3
  <2> DEFINE v == [i \in 0 .. (n + 1) |-> IF i = 0 THEN <<>> ELSE w[i - 1] \o Pair(e, KeyOrder[i])]
  <2>2. \A i \in 0 .. n : v[i] = w[i]
    BY <2>1
  <2>3. \A i \in 0 .. (n + 1) : i # 0 => i - 1 \in 0 .. n
    BY <1>1
  <2>4. \A i \in 0 .. (n + 1) : i # 0 => w[i - 1] = v[i - 1]
    BY <2>2, <2>3
  <2>5. v = [i \in 0 .. (n + 1) |-> IF i = 0 THEN <<>> ELSE v[i - 1] \o Pair(e, KeyOrder[i])]
    <3> HIDE DEF Made
    <3>1. v = [i \in 0 .. (n + 1) |-> IF i = 0 THEN <<>> ELSE w[i - 1] \o Pair(e, KeyOrder[i])]
      OBVIOUS
    <3> HIDE DEF v
    <3> QED
      BY <2>4, <3>1
  <2>6. \E x : Made(x, n + 1)
    <3> HIDE DEF v
    <3> QED
      BY <2>5
  <2>7. n + 1 \in Nat
    BY <1>1
  <2> QED
    BY <2>6, <2>7
<1>4. \A n \in S : \E w : Made(w, n)
  OBVIOUS
<1> HIDE DEF S, Made
<1>5. \A n \in 0 .. N : n \in S
  BY <1>1, <1>2, <1>3, Induction
<1>6. N \in S
  BY <1>1, <1>5
<1>7. PICK w : Made(w, N)
  BY <1>4, <1>6
<1> QED
  BY <1>7 DEF Made, Writes

\* What it has written is a string of bytes, key by key.
LEMMA WritesBytes ==
    ASSUME NEW e, MapOf(e), NEW w, Writes(e, w)
    PROVE  /\ \A i \in 0 .. Len(KeyOrder) : w[i] \in Bytes
           /\ w[0] = <<>>
           /\ \A i \in 1 .. Len(KeyOrder) : w[i] = w[i - 1] \o Pair(e, KeyOrder[i])
<1> DEFINE N == Len(KeyOrder)
           S == {n \in 0 .. N : w[n] \in Bytes}
<1>1. N \in Nat
  BY KeyStrings
<1>2. w[0] = <<>> /\ \A i \in 1 .. N : w[i] = w[i - 1] \o Pair(e, KeyOrder[i])
  <2> HIDE DEF N
  <2>1. w = [i \in 0 .. N |-> IF i = 0 THEN <<>> ELSE w[i - 1] \o Pair(e, KeyOrder[i])]
    BY DEF Writes, N
  <2> QED
    BY <1>1, <2>1
<1>3. 0 \in S
  <2>1. w[0] \in Bytes
    BY <1>2 DEF Bytes
  <2> QED
    BY <1>1, <2>1
<1>4. ASSUME NEW n \in 0 .. (N - 1), n \in S PROVE n + 1 \in S
  <2>1. n + 1 \in 1 .. N /\ n + 1 - 1 = n /\ w[n] \in Bytes /\ n + 1 \in 0 .. N
    BY <1>1, <1>4
  <2>2. w[n + 1] = w[n] \o Pair(e, KeyOrder[n + 1])
    <3>1. PICK k \in 1 .. N : k = n + 1 /\ k - 1 = n
      BY <2>1
    <3> QED
      BY <1>2, <3>1
  <2>3. w[n + 1] \in Bytes
    BY <2>1, <2>2, PairBytes, ConcatProperties DEF Bytes
  <2> QED
    BY <2>1, <2>3
<1>5. \A n \in S : w[n] \in Bytes
  OBVIOUS
<1> HIDE DEF S
<1>6. \A n \in 0 .. N : n \in S
  BY <1>1, <1>3, <1>4, Induction
<1> QED
  BY <1>2, <1>5, <1>6

\* A string it has written stays where it is while it writes on.
LEMMA WritesOn ==
    ASSUME NEW e, MapOf(e), NEW w, Writes(e, w), NEW i \in 0 .. Len(KeyOrder),
           NEW p \in Nat, p >= 1, NEW v \in Bytes, At(w[i], p, v)
    PROVE  At(w[Len(KeyOrder)], p, v)
<1> DEFINE N == Len(KeyOrder)
           S == {n \in 0 .. (N - i) : At(w[i + n], p, v)}
<1>1. N \in Nat /\ i \in Nat /\ N - i \in Nat
  BY KeyStrings
<1>2. /\ \A j \in 0 .. N : w[j] \in Bytes
      /\ \A j \in 1 .. N : w[j] = w[j - 1] \o Pair(e, KeyOrder[j])
  BY WritesBytes
<1>3. 0 \in S
  <2>1. i + 0 = i /\ 0 \in 0 .. (N - i)
    BY <1>1
  <2> QED
    BY <2>1
<1>4. ASSUME NEW n \in 0 .. (N - i - 1), n \in S PROVE n + 1 \in S
  <2> DEFINE j == i + n
  <2>1. j + 1 \in 1 .. N /\ j + 1 - 1 = j /\ j \in 0 .. N /\ n + 1 \in 0 .. (N - i)
        /\ i + (n + 1) = j + 1 /\ At(w[j], p, v)
    BY <1>1, <1>4
  <2> HIDE DEF j
  <2>2. w[j + 1] = w[j] \o Pair(e, KeyOrder[j + 1])
    <3>1. PICK k \in 1 .. N : k = j + 1 /\ k - 1 = j
      BY <2>1
    <3> QED
      BY <1>2, <3>1
  <2>3. w[j] \in Bytes /\ Pair(e, KeyOrder[j + 1]) \in Bytes
    BY <1>2, <2>1, PairBytes
  <2>4. At(w[j + 1], p, v)
    BY <2>1, <2>2, <2>3, StringInside
  <2> QED
    BY <2>1, <2>4
<1>5. \A n \in S : At(w[i + n], p, v)
  OBVIOUS
<1> HIDE DEF S
<1>6. \A n \in 0 .. (N - i) : n \in S
  BY <1>1, <1>3, <1>4, Induction
<1>7. N - i \in 0 .. (N - i) /\ i + (N - i) = N
  BY <1>1
<1> QED
  BY <1>5, <1>6, <1>7

\* read_bytes moves on, and not past the end.
LEMMA ReadsForward ==
    ASSUME NEW bs \in Bytes, NEW p \in Nat, p >= 1, ReadBytes(bs, p).ok
    PROVE  ReadBytes(bs, p).next \in (p + 1) .. (Len(bs) + 1)
<1>1. Len(bs) \in Nat /\ \A i \in 1 .. Len(bs) : bs[i] \in Nat
  BY DEF Bytes
<1>2. ~ (p > Len(bs) \/ p + bs[p] > Len(bs))
  BY DEF ReadBytes
<1>3. bs[p] \in Nat
  BY <1>1, <1>2
<1>4. ReadBytes(bs, p).next = p + bs[p] + 1
  BY <1>2 DEF ReadBytes
<1> QED
  BY <1>1, <1>2, <1>3, <1>4

\* What the bytes hold from p on depends on what they hold later.
LEMMA ReadFromLater ==
    ASSUME NEW bs \in Bytes, NEW p \in Nat, p >= 1, NEW f, NEW g,
           \A x \in (p + 1) .. (Len(bs) + 1) : f[x] = g[x]
    PROVE  ReadFrom(bs, f, p) = ReadFrom(bs, g, p)
<1> DEFINE key == ReadBytes(bs, p)
           value == ReadBytes(bs, key.next)
<1>1. CASE key.ok /\ value.ok
  <2>1. Len(bs) \in Nat /\ key.next \in (p + 1) .. (Len(bs) + 1)
    BY <1>1, ReadsForward DEF Bytes
  <2>2. key.next \in Nat /\ key.next >= 1 /\ key.next >= p + 1
    BY <2>1
  <2> HIDE DEF key
  <2>3. value.next \in (key.next + 1) .. (Len(bs) + 1)
    BY <1>1, <2>2, ReadsForward
  <2>4. value.next \in (p + 1) .. (Len(bs) + 1)
    BY <2>1, <2>2, <2>3
  <2> HIDE DEF value
  <2>5. f[value.next] = g[value.next]
    BY <2>4
  <2> QED
    BY <2>5 DEF ReadFrom, key, value
<1>2. CASE ~ (key.ok /\ value.ok)
  BY <1>2 DEF ReadFrom
<1> QED
  BY <1>1, <1>2

\* The loop of decode_entries runs to its end.
LEMMA ReadsExists == \A bs \in Bytes : \E f : Reads(bs, f)
<1> SUFFICES ASSUME NEW bs \in Bytes PROVE \E f : Reads(bs, f)
  OBVIOUS
<1> DEFINE L == Len(bs)
           Made(f, q) == f = [p \in (L + 1 - q) .. (L + 1) |-> ReadFrom(bs, f, p)]
           S == {q \in Nat : \E f : Made(f, q)}
<1>1. L \in Nat
  BY DEF Bytes
<1>2. 0 \in S
  <2> DEFINE v == [p \in (L + 1 - 0) .. (L + 1) |-> ReadFrom(bs, <<>>, p)]
  <2>1. ASSUME NEW p \in (L + 1 - 0) .. (L + 1) PROVE ReadFrom(bs, <<>>, p) = ReadFrom(bs, v, p)
    <3>1. p > Len(bs)
      BY <1>1, <2>1
    <3> QED
      BY <3>1 DEF ReadFrom
  <2>2. v = [p \in (L + 1 - 0) .. (L + 1) |-> ReadFrom(bs, <<>>, p)]
    OBVIOUS
  <2> HIDE DEF v
  <2>3. v = [p \in (L + 1 - 0) .. (L + 1) |-> ReadFrom(bs, v, p)]
    BY <2>1, <2>2
  <2>4. \E f : Made(f, 0)
    BY <2>3
  <2> QED
    BY <2>4
<1>3. ASSUME NEW q \in 0 .. (L - 1), q \in S PROVE q + 1 \in S
  <2>1. PICK f : Made(f, q)
    BY <1>3
  <2> DEFINE lo == L + 1 - (q + 1)
             v == [p \in lo .. (L + 1) |-> ReadFrom(bs, f, p)]
  <2>2. lo \in Nat /\ lo >= 1 /\ \A p \in lo .. (L + 1) : p \in Nat /\ p >= 1
    BY <1>1
  <2>3. \A p \in (L + 1 - q) .. (L + 1) : p \in lo .. (L + 1) /\ f[p] = ReadFrom(bs, f, p)
    BY <1>1, <2>1
  <2>4. \A p \in lo .. (L + 1) : \A x \in (p + 1) .. (L + 1) : x \in (L + 1 - q) .. (L + 1)
    BY <1>1
  <2>5. v = [p \in lo .. (L + 1) |-> ReadFrom(bs, f, p)]
    OBVIOUS
  <2> HIDE DEF v, Made
  <2>6. \A p \in (L + 1 - q) .. (L + 1) : v[p] = f[p]
    BY <2>3, <2>5
  <2> HIDE DEF lo
  <2>7. ASSUME NEW p \in lo .. (L + 1) PROVE ReadFrom(bs, f, p) = ReadFrom(bs, v, p)
    <3>1. \A x \in (p + 1) .. (Len(bs) + 1) : f[x] = v[x]
      BY <2>4, <2>6
    <3> QED
      BY <2>2, <3>1, ReadFromLater
  <2>8. v = [p \in lo .. (L + 1) |-> ReadFrom(bs, v, p)]
    BY <2>5, <2>7
  <2>9. \E g : Made(g, q + 1)
    BY <2>8 DEF Made, lo
  <2>10. q + 1 \in Nat
    BY <1>1
  <2> QED
    BY <2>9, <2>10
<1>4. \A q \in S : \E f : Made(f, q)
  OBVIOUS
<1> HIDE DEF S, Made
<1>5. \A q \in 0 .. L : q \in S
  BY <1>1, <1>2, <1>3, Induction
<1>6. PICK f : Made(f, L)
  BY <1>1, <1>4, <1>5
<1>7. L + 1 - L = 1
  BY <1>1
<1>8. f = [p \in 1 .. (L + 1) |-> ReadFrom(bs, f, p)]
  BY <1>6, <1>7 DEF Made
<1> QED
  BY <1>8 DEF Reads

\* What decode_entries makes of the bytes from its first position.
LEMMA DecodedEntries ==
    ASSUME NEW bs \in Bytes
    PROVE  \E f : Reads(bs, f) /\ DecodeEntries(bs) = f[1]
<1> DEFINE f == CHOOSE f : f = [p \in 1 .. Len(bs) + 1 |-> ReadFrom(bs, f, p)]
<1>1. DecodeEntries(bs) = f[1]
  BY DEF DecodeEntries, ReadFrom
<1>2. \E g : g = [p \in 1 .. Len(bs) + 1 |-> ReadFrom(bs, g, p)]
  BY ReadsExists DEF Reads
<1>3. f = [p \in 1 .. Len(bs) + 1 |-> ReadFrom(bs, f, p)]
  BY <1>2
<1> HIDE DEF f
<1> QED
  BY <1>1, <1>3 DEF Reads

\* What snapshot() makes of the map.
LEMMA WrittenEntries ==
    ASSUME NEW m
    PROVE  \E w : Writes(m.entries, w) /\ SnapshotBytes(m) = w[Len(KeyOrder)]
<1> DEFINE e == m.entries
           w == CHOOSE w : w = [i \in 0 .. Len(KeyOrder) |->
                                  IF i = 0 THEN <<>> ELSE w[i - 1] \o Pair(e, KeyOrder[i])]
<1>1. SnapshotBytes(m) = w[Len(KeyOrder)]
  BY DEF SnapshotBytes, Pair
<1>2. \E v : v = [i \in 0 .. Len(KeyOrder) |->
                    IF i = 0 THEN <<>> ELSE v[i - 1] \o Pair(e, KeyOrder[i])]
  BY WritesExists DEF Writes
<1>3. w = [i \in 0 .. Len(KeyOrder) |->
             IF i = 0 THEN <<>> ELSE w[i - 1] \o Pair(e, KeyOrder[i])]
  BY <1>2
<1> HIDE DEF w
<1> QED
  BY <1>1, <1>3 DEF Writes

\* What is read back from where the i-th key's pair is written, if what comes
\* after it is read back right.
LEMMA ReadPair ==
    ASSUME NEW e, MapOf(e), NEW w, Writes(e, w), NEW f, NEW N, N = Len(KeyOrder),
           Reads(w[N], f), NEW i \in 1 .. N,
           f[Len(w[i]) + 1] = Some(After(e, i))
    PROVE  f[Len(w[i - 1]) + 1] = Some(After(e, i - 1))
<1> DEFINE bs == w[N]
           k == KeyOrder[i]
           p == Len(w[i - 1]) + 1
<1>1. N \in Nat /\ k \in Bytes /\ i \in 0 .. N /\ i - 1 \in 0 .. N /\ N \in 0 .. N
  BY KeyStrings
<1>2. /\ bs \in Bytes /\ w[i] \in Bytes /\ w[i - 1] \in Bytes
      /\ w[i] = w[i - 1] \o Pair(e, k) /\ Pair(e, k) \in Bytes
  BY <1>1, WritesBytes, PairBytes
<1>3. p \in Nat /\ p >= 1 /\ Len(bs) \in Nat /\ Len(w[i]) \in Nat /\ Len(w[i - 1]) \in Nat
  <2>1. \A s \in Bytes : Len(s) \in Nat
    BY DEF Bytes
  <2>2. Len(bs) \in Nat /\ Len(w[i]) \in Nat /\ Len(w[i - 1]) \in Nat
    BY <1>2, <2>1
  <2> QED
    BY <2>2
<1>4. \A x \in 1 .. (Len(bs) + 1) : f[x] = ReadFrom(bs, f, x)
  BY DEF Reads
<1>5. DOMAIN After(e, i) = DOMAIN e \cap {KeyOrder[j] : j \in (i + 1) .. N}
  BY DEF After
<1>6. {KeyOrder[j] : j \in ((i - 1) + 1) .. N} = {KeyOrder[j] : j \in (i + 1) .. N} \cup {k}
  <2>1. \A j : j \in ((i - 1) + 1) .. N <=> j \in (i + 1) .. N \/ j = i
    BY <1>1
  <2> QED
    BY <2>1
<1>7. CASE k \notin DOMAIN e
  <2>1. w[i] = w[i - 1]
    <3>1. Pair(e, k) = <<>> /\ w[i - 1] \in Seq(Nat)
      BY <1>2, <1>7 DEF Pair, Bytes
    <3> QED
      BY <1>2, <3>1, ConcatEmptySeq
  <2>2. After(e, i - 1) = After(e, i)
    BY <1>1, <1>6, <1>7 DEF After
  <2> QED
    BY <2>1, <2>2
<1>8. CASE k \in DOMAIN e
  <2> DEFINE v == e[k]
  <2>1. v \in Bytes /\ Len(v) \in Nat /\ Len(k) \in Nat
    BY <1>1, <1>8 DEF MapOf, Bytes
  <2>2. /\ EncodeBytes(k) \in Bytes /\ Len(EncodeBytes(k)) = Len(k) + 1 /\ At(EncodeBytes(k), 1, k)
        /\ EncodeBytes(v) \in Bytes /\ Len(EncodeBytes(v)) = Len(v) + 1 /\ At(EncodeBytes(v), 1, v)
    BY <1>1, <2>1, EncodedString
  <2> DEFINE kv == EncodeBytes(k) \o EncodeBytes(v)
  <2>3. Pair(e, k) = kv
    BY <1>8 DEF Pair
  <2> HIDE DEF v, k, kv
  <2>4. PICK one \in Nat : one = 1 /\ one >= 1
    OBVIOUS
  <2>5. kv \in Bytes /\ Len(kv) = Len(k) + 1 + (Len(v) + 1)
    <3>1. kv \in Bytes /\ Len(kv) = Len(EncodeBytes(k)) + Len(EncodeBytes(v))
      BY <2>2, ConcatProperties DEF kv, Bytes
    <3> QED
      BY <2>2, <3>1
  <2>6. At(kv, one, k) /\ At(kv, Len(k) + 1 + one, v)
    BY <1>1, <2>1, <2>2, <2>4, StringInside DEF kv
  <2>7. PICK q \in Nat : q = Len(k) + 2 /\ q >= 1
    BY <2>1
  <2>8. At(kv, q, v)
    <3>1. Len(k) + 1 + one = q
      BY <2>1, <2>4, <2>7
    <3> QED
      BY <2>6, <3>1
  <2>9. w[i] = w[i - 1] \o kv
    BY <1>2, <2>3
  <2>10. At(w[i], Len(w[i - 1]) + one, k) /\ At(w[i], Len(w[i - 1]) + q, v)
    <3>1. w[i - 1] \in Bytes /\ k \in Bytes /\ v \in Bytes /\ kv \in Bytes
      BY <1>1, <1>2, <2>1, <2>5
    <3>2. At(w[i - 1] \o kv, Len(w[i - 1]) + one, k)
      BY <2>4, <2>6, <3>1, StringInside
    <3>3. At(w[i - 1] \o kv, Len(w[i - 1]) + q, v)
      BY <2>7, <2>8, <3>1, StringInside
    <3> QED
      BY <2>9, <3>2, <3>3
  <2>11. Len(w[i]) = Len(w[i - 1]) + (Len(k) + 1 + (Len(v) + 1))
    <3>1. w[i - 1] \in Seq(Nat) /\ kv \in Seq(Nat)
      BY <1>2, <2>5 DEF Bytes
    <3>2. Len(w[i - 1] \o kv) = Len(w[i - 1]) + Len(kv)
      BY <3>1, ConcatProperties
    <3> QED
      BY <2>5, <2>9, <3>2
  <2>12. PICK pv \in Nat : pv = p + Len(k) + 1 /\ pv >= 1
    BY <1>3, <2>1
  <2>13. At(w[i], p, k) /\ At(w[i], pv, v)
    <3>1. Len(w[i - 1]) + one = p /\ Len(w[i - 1]) + q = pv
      <4> DEFINE a == Len(w[i - 1])
                 z == Len(k)
      <4>1. a \in Nat /\ z \in Nat /\ p = a + 1 /\ pv = p + z + 1 /\ q = z + 2
        BY <1>3, <2>1, <2>7, <2>12
      <4> HIDE DEF a, p, z
      <4>2. a + one = p /\ a + q = pv
        BY <2>4, <4>1
      <4> QED
        BY <4>2 DEF a
    <3> QED
      BY <2>10, <3>1
  <2>14. At(bs, p, k) /\ At(bs, pv, v)
    BY <1>1, <1>3, <2>1, <2>12, <2>13, WritesOn
  <2> HIDE DEF bs, p
  <2>15. ReadBytes(bs, p) = [ok |-> TRUE, value |-> k, next |-> p + Len(k) + 1]
    BY <1>1, <1>2, <1>3, <2>14, ReadString
  <2>16. ReadBytes(bs, pv) = [ok |-> TRUE, value |-> v, next |-> pv + Len(v) + 1]
    BY <1>2, <2>1, <2>12, <2>14, ReadString
  <2>17. pv + Len(v) + 1 = Len(w[i]) + 1
    <3> DEFINE a == Len(w[i - 1])
               b == Len(w[i])
               y == Len(v)
               z == Len(k)
    <3>1. /\ a \in Nat /\ b \in Nat /\ y \in Nat /\ z \in Nat /\ p = a + 1 /\ pv = p + z + 1
          /\ b = a + (z + 1 + (y + 1))
      BY <1>3, <2>1, <2>11, <2>12 DEF p
    <3> HIDE DEF a, b, y, z
    <3>2. pv + y + 1 = b + 1
      BY <3>1
    <3> QED
      BY <3>2 DEF b, y
  <2>18. p <= Len(bs) /\ p \in 1 .. (Len(bs) + 1)
    BY <1>3, <2>1, <2>14 DEF At
  <2> DEFINE rest == After(e, i)
  <2>19. Some(rest) # None /\ Some(rest)[1] = rest
    BY DEF Some, None
  <2>20. f[p] = Some(IF k \in DOMAIN rest THEN rest ELSE With(rest, k, v))
    <3> HIDE DEF rest
    <3> DEFINE a == ReadBytes(bs, p)
               b == ReadBytes(bs, a.next)
    <3>1. ReadFrom(bs, f, p) = IF p > Len(bs) THEN Some(<<>>)
             ELSE IF ~ a.ok \/ ~ b.ok \/ f[b.next] = None THEN None
             ELSE Some(IF a.value \in DOMAIN f[b.next][1] THEN f[b.next][1]
                       ELSE With(f[b.next][1], a.value, b.value))
      BY DEF ReadFrom
    <3>2. a.ok /\ a.value = k /\ a.next = pv
      BY <2>12, <2>15
    <3>3. b.ok /\ b.value = v /\ b.next = Len(w[i]) + 1
      BY <2>16, <2>17, <3>2
    <3> HIDE DEF a, b
    <3>4. f[b.next] = Some(rest)
      BY <3>3 DEF rest
    <3>5. ReadFrom(bs, f, p) = Some(IF k \in DOMAIN rest THEN rest ELSE With(rest, k, v))
      BY <1>3, <2>18, <2>19, <3>1, <3>2, <3>3, <3>4
    <3> QED
      BY <1>4, <2>18, <3>5
  <2>21. (IF k \in DOMAIN rest THEN rest ELSE With(rest, k, v)) = After(e, i - 1)
    <3> DEFINE D == DOMAIN e \cap {KeyOrder[j] : j \in (i + 1) .. N}
    <3>1. rest = [x \in D |-> e[x]]
      BY DEF After
    <3>2. After(e, i - 1) = [x \in D \cup {k} |-> e[x]]
      <4>1. DOMAIN e \cap {KeyOrder[j] : j \in ((i - 1) + 1) .. N} = D \cup {k}
        BY <1>6, <1>8
      <4> QED
        BY <4>1 DEF After
    <3> HIDE DEF D, rest
    <3>3. CASE k \in D
      <4>1. D \cup {k} = D /\ DOMAIN rest = D
        BY <3>1, <3>3
      <4> QED
        BY <3>1, <3>2, <3>3, <4>1
    <3>4. CASE k \notin D
      <4>1. With(rest, k, v) = [x \in D \cup {k} |-> e[x]] /\ DOMAIN rest = D
        BY <3>1, <3>4 DEF With, v
      <4> QED
        BY <3>2, <3>4, <4>1
    <3> QED
      BY <3>3, <3>4
  <2> QED
    BY <2>20, <2>21 DEF p
<1> QED
  BY <1>7, <1>8

\* A snapshot holds the map it was taken from: decode_entries undoes snapshot()
\* for every map, so that a replica that recovers from its snapshot, or installs
\* a leader's, starts with the map of the replica that took it.
THEOREM SnapshotRoundTrip ==
    \A m : MapOf(m.entries) => DecodeEntries(SnapshotBytes(m)) = Some(m.entries)
<1> SUFFICES ASSUME NEW m, MapOf(m.entries)
             PROVE  DecodeEntries(SnapshotBytes(m)) = Some(m.entries)
  OBVIOUS
<1> DEFINE e == m.entries
           N == Len(KeyOrder)
<1>1. PICK w : Writes(e, w) /\ SnapshotBytes(m) = w[N]
  BY WrittenEntries
<1>2. N \in Nat /\ \A k \in Key : \E i \in 1 .. N : k = KeyOrder[i]
  BY KeyStrings
<1> HIDE DEF e
<1>3. MapOf(e)
  BY DEF e
<1>4. w[0] = <<>> /\ \A i \in 0 .. N : w[i] \in Bytes
  BY <1>1, <1>3, WritesBytes
<1> DEFINE bs == w[N]
<1>5. bs \in Bytes /\ Len(bs) \in Nat
  BY <1>2, <1>4 DEF Bytes
<1>6. PICK f : Reads(bs, f) /\ DecodeEntries(bs) = f[1]
  BY <1>5, DecodedEntries
<1> DEFINE S == {i \in 0 .. N : f[Len(w[i]) + 1] = Some(After(e, i))}
<1>7. N \in S
  <2>1. f[Len(bs) + 1] = ReadFrom(bs, f, Len(bs) + 1)
    BY <1>5, <1>6 DEF Reads
  <2>2. ReadFrom(bs, f, Len(bs) + 1) = Some(<<>>)
    BY <1>5 DEF ReadFrom
  <2>3. After(e, N) = <<>>
    <3>1. DOMAIN e \cap {KeyOrder[j] : j \in (N + 1) .. N} = {}
      BY <1>2
    <3>2. After(e, N) = [k \in {} |-> e[k]]
      BY <3>1 DEF After
    <3> QED
      BY <3>2
  <2> QED
    BY <1>2, <2>1, <2>2, <2>3
<1>8. ASSUME NEW i \in 1 .. N, i \in S PROVE i - 1 \in S
  <2> HIDE DEF bs
  <2>1. f[Len(w[i]) + 1] = Some(After(e, i)) /\ Reads(w[N], f)
    BY <1>6, <1>8 DEF bs
  <2>2. f[Len(w[i - 1]) + 1] = Some(After(e, i - 1))
    BY <1>1, <1>3, <2>1, ReadPair
  <2>3. i - 1 \in 0 .. N
    BY <1>2
  <2> QED
    BY <2>2, <2>3
<1>9. \A i \in S : f[Len(w[i]) + 1] = Some(After(e, i))
  OBVIOUS
<1> HIDE DEF S
<1>10. \A i \in 0 .. N : i \in S
  BY <1>2, <1>7, <1>8, DownInduction
<1>11. f[Len(w[0]) + 1] = Some(After(e, 0))
  BY <1>2, <1>9, <1>10
<1>12. Len(w[0]) + 1 = 1
  BY <1>4
<1>13. After(e, 0) = e
  <2>1. \A k \in DOMAIN e : k \in {KeyOrder[j] : j \in (0 + 1) .. N}
    BY <1>2, <1>3 DEF MapOf
  <2>2. After(e, 0) = [k \in DOMAIN e |-> e[k]]
    BY <2>1 DEF After
  <2> QED
    BY <1>3, <2>2 DEF MapOf
<1> QED
  BY <1>1, <1>6, <1>11, <1>12, <1>13 DEF e

-----------------------------------------------------------------------------
(* Replaying entries *)

\* f[k] is what the first k entries of es make of acc.
Replays(acc, es, f) ==
    f = [k \in 0 .. Len(es) |-> IF k = 0 THEN acc ELSE ApplyEntry(f[k - 1], es[k])]

\* The loop of drain_committed runs to its end.
LEMMA ReplaysExists ==
    ASSUME NEW es, Len(es) \in Nat, NEW acc
    PROVE  \E f : Replays(acc, es, f)
<1> DEFINE Made(f, n) == f = [k \in 0 .. n |-> IF k = 0 THEN acc ELSE ApplyEntry(f[k - 1], es[k])]
           S == {n \in Nat : \E f : Made(f, n)}
           N == Len(es)
<1>1. N \in Nat
  OBVIOUS
<1>2. 0 \in S
  <2>1. Made([k \in 0 .. 0 |-> acc], 0)
    OBVIOUS
  <2> QED
    BY <2>1
<1>3. ASSUME NEW n \in 0 .. (N - 1), n \in S PROVE n + 1 \in S
  <2>1. PICK f : Made(f, n)
    BY <1>3
  <2> DEFINE v == [k \in 0 .. (n + 1) |-> IF k = 0 THEN acc ELSE ApplyEntry(f[k - 1], es[k])]
  <2>2. \A k \in 0 .. n : v[k] = f[k]
    BY <2>1
  <2>3. \A k \in 0 .. (n + 1) : k # 0 => k - 1 \in 0 .. n
    BY <1>1
  <2>4. \A k \in 0 .. (n + 1) : k # 0 => f[k - 1] = v[k - 1]
    BY <2>2, <2>3
  <2>5. v = [k \in 0 .. (n + 1) |-> IF k = 0 THEN acc ELSE ApplyEntry(v[k - 1], es[k])]
    <3> HIDE DEF Made
    <3>1. v = [k \in 0 .. (n + 1) |-> IF k = 0 THEN acc ELSE ApplyEntry(f[k - 1], es[k])]
      OBVIOUS
    <3> HIDE DEF v
    <3> QED
      BY <2>4, <3>1
  <2>6. \E x : Made(x, n + 1)
    <3> HIDE DEF v
    <3> QED
      BY <2>5
  <2>7. n + 1 \in Nat
    BY <1>1
  <2> QED
    BY <2>6, <2>7
<1>4. \A n \in S : \E f : Made(f, n)
  OBVIOUS
<1> HIDE DEF S, Made
<1>5. \A n \in 0 .. N : n \in S
  BY <1>1, <1>2, <1>3, Induction
<1>6. PICK f : Made(f, N)
  BY <1>1, <1>4, <1>5
<1> QED
  BY <1>6 DEF Made, Replays

\* f goes from acc through the first n entries of es.
Course(f, acc, es, n) ==
    f[0] = acc /\ \A k \in 0 .. (n - 1) : f[k + 1] = ApplyEntry(f[k], es[k + 1])

\* What it makes of the state it starts from, entry by entry.
LEMMA ReplaySteps ==
    ASSUME NEW es, Len(es) \in Nat, NEW acc
    PROVE  \E f : Course(f, acc, es, Len(es)) /\ ApplyAll(acc, es) = f[Len(es)]
<1> DEFINE N == Len(es)
           f == CHOOSE f : f = [k \in 0 .. N |-> IF k = 0 THEN acc ELSE ApplyEntry(f[k - 1], es[k])]
<1>1. ApplyAll(acc, es) = f[N]
  BY DEF ApplyAll
<1>2. \E g : g = [k \in 0 .. N |-> IF k = 0 THEN acc ELSE ApplyEntry(g[k - 1], es[k])]
  <2>1. \E g : Replays(acc, es, g)
    BY ReplaysExists
  <2> QED
    BY <2>1 DEF Replays
<1>3. f = [k \in 0 .. N |-> IF k = 0 THEN acc ELSE ApplyEntry(f[k - 1], es[k])]
  BY <1>2
<1> HIDE DEF f
<1>4. N \in Nat
  OBVIOUS
<1> HIDE DEF N
<1>5. f[0] = acc
  BY <1>3, <1>4
<1>6. ASSUME NEW k \in 0 .. (N - 1) PROVE f[k + 1] = ApplyEntry(f[k], es[k + 1])
  <2>1. PICK i \in 0 .. N : i = k + 1 /\ i # 0 /\ i - 1 = k
    BY <1>4
  <2>2. f[i] = ApplyEntry(f[i - 1], es[i])
    BY <1>3, <2>1
  <2> QED
    BY <2>1, <2>2
<1> QED
  BY <1>1, <1>5, <1>6 DEF N, Course

\* Two replays that start alike and read the same entries go alike.
LEMMA ReplayAlike ==
    ASSUME NEW N \in Nat, NEW acc, NEW f, NEW g, NEW es, NEW xs,
           Course(f, acc, es, N), Course(g, acc, xs, N),
           \A k \in 0 .. (N - 1) : es[k + 1] = xs[k + 1]
    PROVE  \A k \in 0 .. N : f[k] = g[k]
<1> DEFINE S == {k \in 0 .. N : f[k] = g[k]}
<1>1. 0 \in S
  BY DEF Course
<1>2. ASSUME NEW k \in 0 .. (N - 1), k \in S PROVE k + 1 \in S
  <2>1. f[k + 1] = ApplyEntry(f[k], es[k + 1]) /\ g[k + 1] = ApplyEntry(g[k], xs[k + 1])
    BY DEF Course
  <2>2. f[k] = g[k] /\ es[k + 1] = xs[k + 1] /\ k + 1 \in 0 .. N
    BY <1>2
  <2> QED
    BY <2>1, <2>2
<1>3. \A k \in S : f[k] = g[k]
  OBVIOUS
<1> HIDE DEF S
<1> QED
  BY <1>1, <1>2, <1>3, Induction

\* The parts of a sequence between two positions.
LEMMA Between ==
    ASSUME NEW T, NEW es \in Seq(T), NEW a \in Nat, NEW b \in Nat, a <= b, b <= Len(es)
    PROVE  /\ SubSeq(es, a + 1, b) \in Seq(T) /\ Len(SubSeq(es, a + 1, b)) = b - a
           /\ \A k \in 1 .. (b - a) : SubSeq(es, a + 1, b)[k] = es[a + k]
<1> DEFINE s == SubSeq(es, a + 1, b)
<1>1. \A i \in a + 1 .. b : es[i] \in T
  OBVIOUS
<1>2. /\ s \in Seq(T) /\ Len(s) = IF a + 1 <= b THEN b - (a + 1) + 1 ELSE 0
      /\ \A i \in 1 .. b - (a + 1) + 1 : s[i] = es[a + 1 + i - 1]
  BY <1>1, SubSeqProperties
<1> HIDE DEF s
<1>3. Len(s) = b - a
  BY <1>2
<1>4. ASSUME NEW k \in 1 .. (b - a) PROVE s[k] = es[a + k]
  <2>1. k \in 1 .. b - (a + 1) + 1 /\ a + 1 + k - 1 = a + k
    OBVIOUS
  <2> QED
    BY <1>2, <2>1
<1> QED
  BY <1>2, <1>3, <1>4 DEF s

\* Replaying a prefix and then what follows it is replaying the two at once.
LEMMA ReplayOn ==
    ASSUME NEW T, NEW es \in Seq(T), NEW a \in Nat, NEW b \in Nat, a <= b, b <= Len(es), NEW acc
    PROVE  ApplyAll(ApplyAll(acc, SubSeq(es, 1, a)), SubSeq(es, a + 1, b))
              = ApplyAll(acc, SubSeq(es, 1, b))
<1> DEFINE pa == SubSeq(es, 1, a)
           pb == SubSeq(es, 1, b)
           rest == SubSeq(es, a + 1, b)
<1>0. PICK z \in Nat : z = 0
  OBVIOUS
<1>1. /\ Len(pa) = a /\ \A k \in 0 .. (a - 1) : pa[k + 1] = es[k + 1]
      /\ Len(pb) = b /\ \A k \in 0 .. (b - 1) : pb[k + 1] = es[k + 1]
  <2>1. a <= Len(es) /\ z <= a /\ z <= b /\ Len(es) \in Nat
    BY <1>0
  <2>2. /\ Len(SubSeq(es, z + 1, a)) = a - z
        /\ \A k \in 1 .. (a - z) : SubSeq(es, z + 1, a)[k] = es[z + k]
    BY <2>1, Between
  <2>3. /\ Len(SubSeq(es, z + 1, b)) = b - z
        /\ \A k \in 1 .. (b - z) : SubSeq(es, z + 1, b)[k] = es[z + k]
    BY <2>1, Between
  <2>4. z + 1 = 1 /\ a - z = a /\ b - z = b /\ \A k \in Nat : z + k = k
    BY <1>0
  <2>5. Len(pa) = a /\ \A k \in 1 .. a : pa[k] = es[k]
    BY <2>2, <2>4
  <2>6. Len(pb) = b /\ \A k \in 1 .. b : pb[k] = es[k]
    BY <2>3, <2>4
  <2> HIDE DEF pa, pb
  <2> QED
    BY <2>5, <2>6
<1>2. Len(rest) = b - a /\ \A k \in 1 .. (b - a) : rest[k] = es[a + k]
  BY Between
<1> HIDE DEF pa, pb, rest
<1>3. PICK g : Course(g, acc, pa, a) /\ ApplyAll(acc, pa) = g[a]
  BY <1>1, ReplaySteps
<1>4. PICK f : Course(f, acc, pb, b) /\ ApplyAll(acc, pb) = f[b]
  BY <1>1, ReplaySteps
<1>5. PICK h : Course(h, g[a], rest, b - a) /\ ApplyAll(g[a], rest) = h[b - a]
  <2>1. Len(rest) \in Nat
    BY <1>2
  <2> QED
    BY <1>2, <2>1, ReplaySteps
<1>6. f[a] = g[a]
  <2>1. \A k \in 0 .. (a - 1) : k \in 0 .. (b - 1)
    OBVIOUS
  <2>2. Course(f, acc, pb, a) /\ \A k \in 0 .. (a - 1) : pb[k + 1] = pa[k + 1]
    BY <1>1, <1>4, <2>1 DEF Course
  <2>3. \A k \in 0 .. a : f[k] = g[k]
    BY <1>3, <2>2, ReplayAlike
  <2> QED
    BY <2>3
<1> DEFINE M == b - a
           u == [k \in 0 .. M |-> f[a + k]]
<1>7. M \in Nat /\ M \in 0 .. M /\ 0 \in 0 .. M /\ a + M = b /\ a + 0 = a
  OBVIOUS
<1>8. u[0] = f[a] /\ u[M] = f[b]
  BY <1>7
<1>9. ASSUME NEW k \in 0 .. (M - 1) PROVE u[k + 1] = ApplyEntry(u[k], rest[k + 1])
  <2>1. /\ a + k \in 0 .. (b - 1) /\ a + k + 1 = a + (k + 1) /\ k + 1 \in 1 .. M
        /\ k \in 0 .. M /\ k + 1 \in 0 .. M
    OBVIOUS
  <2>2. f[a + k + 1] = ApplyEntry(f[a + k], pb[a + k + 1])
    BY <1>4, <2>1 DEF Course
  <2>3. pb[a + k + 1] = es[a + k + 1]
    BY <1>1, <2>1
  <2>4. rest[k + 1] = es[a + (k + 1)]
    BY <1>2, <2>1
  <2>5. u[k] = f[a + k] /\ u[k + 1] = f[a + (k + 1)]
    BY <2>1
  <2> HIDE DEF u, M
  <2> QED
    BY <2>1, <2>2, <2>3, <2>4, <2>5
<1> HIDE DEF u, M
<1>10. Course(h, g[a], rest, M) /\ Course(u, g[a], rest, M)
  <2>1. Course(h, g[a], rest, M)
    BY <1>5 DEF M
  <2>2. u[0] = g[a]
    BY <1>6, <1>8
  <2> QED
    BY <1>9, <2>1, <2>2 DEF Course
<1>11. \A k \in 0 .. M : u[k] = h[k]
  BY <1>7, <1>10, ReplayAlike
<1>12. h[M] = f[b]
  BY <1>7, <1>8, <1>11
<1>13. ApplyAll(ApplyAll(acc, pa), rest) = ApplyAll(acc, pb)
  BY <1>3, <1>4, <1>5, <1>12 DEF M
<1> QED
  BY <1>13 DEF pa, pb, rest

-----------------------------------------------------------------------------
(* What replaying makes *)

Answer == [kind : {"Set", "Delete", "Get"}, value : {None} \cup {Some(v) : v \in Bytes}]

\* The machine and the answers of a replica that has applied a entries.
Applied(acc, a) ==
    /\ acc = [machine |-> [entries |-> acc.machine.entries, lastApplied |-> a],
              results |-> acc.results]
    /\ MapOf(acc.machine.entries)
    /\ acc.results = [i \in DOMAIN acc.results |-> acc.results[i]]
    /\ DOMAIN acc.results \subseteq 1 .. a
    /\ \A i \in DOMAIN acc.results : acc.results[i] \in Answer

\* A replica that has applied nothing.
LEMMA FreshApplied == Applied(FreshReplica, 0)
<1>1. <<>> = [i \in {} |-> <<>>] /\ DOMAIN <<>> = {}
  OBVIOUS
<1>2. MapOf(<<>>)
  BY DEF MapOf
<1> QED
  BY <1>1, <1>2 DEF FreshReplica, EmptyMachine, Applied

\* A command in a log decodes to the operation that was proposed.
LEMMA CommandsDecode ==
    \A x \in Command : \E c \in Operation : x = Encode(c) /\ Decode(x) = Some(c)
BY ReplicaAssumption, CommandRoundTrip

\* What StateMachine::apply makes of a map.
LEMMA OperationKeeps ==
    ASSUME NEW m, MapOf(m.entries), NEW c \in Operation
    PROVE  /\ MapOf(Apply(m, c).machine.entries)
           /\ Apply(m, c).machine = [entries |-> Apply(m, c).machine.entries,
                                     lastApplied |-> m.lastApplied + 1]
           /\ Apply(m, c).result \in Answer
<1> DEFINE e == m.entries
           after == Apply(m, c).machine.entries
<1>1. c.key \in Key /\ c.kind \in {"Set", "Delete", "Get"} /\ (c.kind = "Set" => c.value \in Bytes)
  BY ByteStrings DEF Operation
<1>2. MapOf(after)
  <2>1. CASE c.kind = "Set"
    <3>1. after = With(e, c.key, c.value)
      BY <2>1 DEF Apply
    <3>2. after = [x \in DOMAIN e \cup {c.key} |-> IF x = c.key THEN c.value ELSE e[x]]
      BY <3>1 DEF With
    <3> HIDE DEF after, e
    <3>3. \A x \in DOMAIN after : after[x] \in Bytes
      BY <1>1, <2>1, <3>2 DEF MapOf, e
    <3> QED
      BY <1>1, <3>2, <3>3 DEF MapOf, e
  <2>2. CASE c.kind = "Delete"
    <3>1. after = [x \in DOMAIN e \ {c.key} |-> e[x]]
      BY <2>2 DEF Apply, Restrict
    <3> HIDE DEF after, e
    <3> QED
      BY <3>1 DEF MapOf, e
  <2>3. CASE c.kind = "Get"
    BY <2>3 DEF Apply
  <2> QED
    BY <1>1, <2>1, <2>2, <2>3
<1>3. Lookup(e, c.key) \in {None} \cup {Some(v) : v \in Bytes}
  BY DEF Lookup, MapOf
<1>4. Apply(m, c).result \in Answer
  BY <1>1, <1>3 DEF Apply, Answer
<1>5. Apply(m, c).machine = [entries |-> after, lastApplied |-> m.lastApplied + 1]
  BY DEF Apply
<1> QED
  BY <1>2, <1>4, <1>5

\* One entry more.
LEMMA EntryKeeps ==
    ASSUME NEW a \in Nat, NEW acc, Applied(acc, a), NEW e \in Entry
    PROVE  Applied(ApplyEntry(acc, e), a + 1)
<1> DEFINE m == acc.machine
           r == acc.results
<1>1. /\ acc = [machine |-> m, results |-> r] /\ m = [entries |-> m.entries, lastApplied |-> a]
      /\ MapOf(m.entries) /\ r = [i \in DOMAIN r |-> r[i]] /\ DOMAIN r \subseteq 1 .. a
      /\ \A i \in DOMAIN r : r[i] \in Answer
  BY DEF Applied
<1>2. m.lastApplied = a
  BY <1>1
<1>3. e.payload \in Payload
  BY DEF Entry
<1>4. CASE e.payload.type = "Configuration"
  <2>1. ApplyEntry(acc, e) = [machine |-> [entries |-> m.entries, lastApplied |-> a + 1], results |-> r]
    BY <1>1, <1>2, <1>4 DEF ApplyEntry, Skip
  <2>2. 1 .. a \subseteq 1 .. (a + 1)
    OBVIOUS
  <2> HIDE DEF m, r
  <2> QED
    BY <1>1, <2>1, <2>2 DEF Applied
<1>5. CASE e.payload.type # "Configuration"
  <2>1. e.payload.command \in Command
    BY <1>3, <1>5 DEF Payload
  <2>2. PICK c \in Operation : Decode(e.payload.command) = Some(c)
    BY <2>1, CommandsDecode
  <2>3. Decode(e.payload.command)[1] = c
    BY <2>2 DEF Some
  <2> DEFINE out == Apply(m, c)
  <2>4. /\ MapOf(out.machine.entries) /\ out.result \in Answer
        /\ out.machine = [entries |-> out.machine.entries, lastApplied |-> a + 1]
    BY <1>1, <1>2, OperationKeeps
  <2>5. ApplyEntry(acc, e) = [machine |-> out.machine, results |-> With(r, a + 1, out.result)]
    BY <1>2, <1>5, <2>3 DEF ApplyEntry
  <2> HIDE DEF out, m, r
  <2> DEFINE s == With(r, a + 1, out.result)
  <2>6. s = [i \in DOMAIN r \cup {a + 1} |-> IF i = a + 1 THEN out.result ELSE r[i]]
    BY DEF With
  <2> HIDE DEF s
  <2>7. /\ s = [i \in DOMAIN s |-> s[i]] /\ DOMAIN s \subseteq 1 .. (a + 1)
        /\ \A i \in DOMAIN s : s[i] \in Answer
    BY <1>1, <2>4, <2>6
  <2>8. ApplyEntry(acc, e) = [machine |-> [entries |-> out.machine.entries, lastApplied |-> a + 1],
                              results |-> s]
    BY <2>4, <2>5 DEF s
  <2> QED
    BY <2>4, <2>7, <2>8 DEF Applied
<1> QED
  BY <1>4, <1>5

\* All of them, one after the other.
LEMMA CourseKeeps ==
    ASSUME NEW a \in Nat, NEW acc, Applied(acc, a), NEW es \in Seq(Entry), NEW f,
           Course(f, acc, es, Len(es))
    PROVE  \A k \in 0 .. Len(es) : Applied(f[k], a + k)
<1> DEFINE N == Len(es)
<1>1. N \in Nat /\ \A k \in 0 .. (N - 1) : k + 1 \in 1 .. N /\ es[k + 1] \in Entry
  OBVIOUS
<1>2. Course(f, acc, es, N)
  OBVIOUS
<1> HIDE DEF N
<1> DEFINE S == {k \in 0 .. N : Applied(f[k], a + k)}
<1>3. 0 \in S
  <2>1. f[0] = acc /\ a + 0 = a
    BY <1>2 DEF Course
  <2> QED
    BY <1>1, <2>1
<1>4. ASSUME NEW k \in 0 .. (N - 1), k \in S PROVE k + 1 \in S
  <2>1. f[k + 1] = ApplyEntry(f[k], es[k + 1]) /\ es[k + 1] \in Entry
    BY <1>1, <1>2 DEF Course
  <2>2. Applied(f[k], a + k) /\ a + k \in Nat /\ a + k + 1 = a + (k + 1) /\ k + 1 \in 0 .. N
    BY <1>1, <1>4
  <2>3. Applied(f[k + 1], a + (k + 1))
    BY <2>1, <2>2, EntryKeeps
  <2> QED
    BY <2>2, <2>3
<1>5. \A k \in S : Applied(f[k], a + k)
  OBVIOUS
<1> HIDE DEF S
<1>6. \A k \in 0 .. N : k \in S
  BY <1>1, <1>3, <1>4, Induction
<1> QED
  BY <1>5, <1>6 DEF N

\* What a replay ends with.
LEMMA ReplayKeeps ==
    ASSUME NEW a \in Nat, NEW acc, Applied(acc, a), NEW es \in Seq(Entry)
    PROVE  Applied(ApplyAll(acc, es), a + Len(es))
<1>1. PICK f : Course(f, acc, es, Len(es)) /\ ApplyAll(acc, es) = f[Len(es)]
  BY ReplaySteps
<1>2. \A k \in 0 .. Len(es) : Applied(f[k], a + k)
  BY <1>1, CourseKeeps
<1> QED
  BY <1>1, <1>2

\* Nothing to replay.
LEMMA ReplayNothing == \A acc : ApplyAll(acc, <<>>) = acc
<1> SUFFICES ASSUME NEW acc PROVE ApplyAll(acc, <<>>) = acc
  OBVIOUS
<1>1. PICK z \in Nat : z = Len(<<>>) /\ z = 0
  OBVIOUS
<1>2. PICK f : Course(f, acc, <<>>, Len(<<>>)) /\ ApplyAll(acc, <<>>) = f[Len(<<>>)]
  BY <1>1, ReplaySteps
<1> QED
  BY <1>1, <1>2 DEF Course

-----------------------------------------------------------------------------
(* Replaying what a map already has *)

\* A replica's parts are those of one, whatever they hold.
Whole(acc) ==
    acc = [machine |-> [entries |-> acc.machine.entries, lastApplied |-> acc.machine.lastApplied],
           results |-> acc.results]

\* What entry e makes of the value at key x does not depend on the replica, or e
\* leaves it alone.
Fixes(e, x) == \E v : \A acc : Whole(acc) => Lookup(ApplyEntry(acc, e).machine.entries, x) = v
Leaves(e, x) ==
    \A acc : Whole(acc) =>
        Lookup(ApplyEntry(acc, e).machine.entries, x) = Lookup(acc.machine.entries, x)

\* Each entry does one or the other.
LEMMA EntryEffect ==
    ASSUME NEW e \in Entry, NEW x
    PROVE  Fixes(e, x) \/ Leaves(e, x)
<1>1. CASE e.payload.type = "Configuration"
  <2> SUFFICES ASSUME NEW acc, Whole(acc)
               PROVE  Lookup(ApplyEntry(acc, e).machine.entries, x) = Lookup(acc.machine.entries, x)
    BY DEF Leaves
  <2>1. ApplyEntry(acc, e) = [acc EXCEPT !.machine = Skip(@)]
    BY <1>1 DEF ApplyEntry
  <2>2. ApplyEntry(acc, e).machine.entries = acc.machine.entries
    BY <2>1 DEF Skip, Whole
  <2> QED
    BY <2>2
<1>2. CASE e.payload.type # "Configuration"
  <2>1. e.payload \in Payload
    BY DEF Entry
  <2>2. e.payload.command \in Command
    BY <1>2, <2>1 DEF Payload
  <2>3. PICK c \in Operation : Decode(e.payload.command) = Some(c)
    BY <2>2, CommandsDecode
  <2>4. \A acc : ApplyEntry(acc, e).machine.entries = Apply(acc.machine, c).machine.entries
    BY <1>2, <2>3 DEF ApplyEntry, Some
  <2>5. c.kind \in {"Set", "Delete", "Get"}
    BY DEF Operation
  <2>6. CASE c.kind = "Set"
    <3>1. \A acc : ApplyEntry(acc, e).machine.entries = With(acc.machine.entries, c.key, c.value)
      BY <2>4, <2>6 DEF Apply
    <3>2. CASE x = c.key
      <4>1. \A acc : Lookup(With(acc.machine.entries, c.key, c.value), x) = Some(c.value)
        BY <3>2 DEF Lookup, With
      <4> QED
        BY <3>1, <4>1 DEF Fixes
    <3>3. CASE x # c.key
      <4>1. \A acc : Lookup(With(acc.machine.entries, c.key, c.value), x) = Lookup(acc.machine.entries, x)
        BY <3>3 DEF Lookup, With
      <4> QED
        BY <3>1, <4>1 DEF Leaves
    <3> QED
      BY <3>2, <3>3
  <2>7. CASE c.kind = "Delete"
    <3>1. \A acc : ApplyEntry(acc, e).machine.entries
                      = [k \in DOMAIN acc.machine.entries \ {c.key} |-> acc.machine.entries[k]]
      BY <2>4, <2>7 DEF Apply, Restrict
    <3>2. CASE x = c.key
      <4>1. \A acc : Lookup(ApplyEntry(acc, e).machine.entries, x) = None
        <5> SUFFICES ASSUME NEW acc PROVE Lookup(ApplyEntry(acc, e).machine.entries, x) = None
          OBVIOUS
        <5>1. ApplyEntry(acc, e).machine.entries
                 = [k \in DOMAIN acc.machine.entries \ {c.key} |-> acc.machine.entries[k]]
          BY <3>1
        <5>2. x \notin DOMAIN ApplyEntry(acc, e).machine.entries
          BY <3>2, <5>1
        <5> QED
          BY <5>2 DEF Lookup
      <4> QED
        BY <4>1 DEF Fixes
    <3>3. CASE x # c.key
      <4>1. \A acc : Lookup(ApplyEntry(acc, e).machine.entries, x) = Lookup(acc.machine.entries, x)
        <5> SUFFICES ASSUME NEW acc
                     PROVE  Lookup(ApplyEntry(acc, e).machine.entries, x) = Lookup(acc.machine.entries, x)
          OBVIOUS
        <5>1. ApplyEntry(acc, e).machine.entries
                 = [k \in DOMAIN acc.machine.entries \ {c.key} |-> acc.machine.entries[k]]
          BY <3>1
        <5> QED
          BY <3>3, <5>1 DEF Lookup
      <4> QED
        BY <4>1 DEF Leaves
    <3> QED
      BY <3>2, <3>3
  <2>8. CASE c.kind = "Get"
    BY <2>4, <2>8 DEF Leaves, Apply
  <2> QED
    BY <2>5, <2>6, <2>7, <2>8
<1> QED
  BY <1>1, <1>2

\* Replica::compact files the map of last_applied under an index Retain below it,
\* so that a replica that installs or recovers from the snapshot applies the
\* retained entries to a map that already has them.  That leaves the map as it is.
THEOREM ReapplyingIsHarmless ==
    ASSUME NEW a \in Nat, NEW acc, Applied(acc, a), NEW es \in Seq(Entry),
           NEW b \in Nat, NEW later, Applied(later, b),
           later.machine.entries = ApplyAll(acc, es).machine.entries
    PROVE  ApplyAll(later, es).machine.entries = later.machine.entries
<1> DEFINE N == Len(es)
           Under(h, k, x) == Lookup(h[k].machine.entries, x)
<1>1. N \in Nat /\ \A k \in 0 .. (N - 1) : k + 1 \in 1 .. N /\ es[k + 1] \in Entry
  OBVIOUS
<1>2. PICK f : Course(f, acc, es, N) /\ ApplyAll(acc, es) = f[N]
  BY <1>1, ReplaySteps
<1>3. PICK g : Course(g, later, es, N) /\ ApplyAll(later, es) = g[N]
  BY <1>1, ReplaySteps
<1>4. \A k \in 0 .. N : Applied(f[k], a + k) /\ Applied(g[k], b + k)
  BY <1>2, <1>3, CourseKeeps
<1>w. \A k \in 0 .. N : /\ MapOf(g[k].machine.entries) /\ MapOf(f[k].machine.entries)
                        /\ Whole(f[k]) /\ Whole(g[k])
  <2> SUFFICES ASSUME NEW k \in 0 .. N
               PROVE  /\ MapOf(g[k].machine.entries) /\ MapOf(f[k].machine.entries)
                      /\ Whole(f[k]) /\ Whole(g[k])
    OBVIOUS
  <2>1. Applied(f[k], a + k) /\ Applied(g[k], b + k)
    BY <1>4
  <2> QED
    BY <2>1 DEF Applied, Whole
<1> HIDE DEF N
<1>5. ASSUME NEW x PROVE Under(g, N, x) = Under(f, N, x)
  <2> DEFINE S == {k \in 0 .. N : Under(g, k, x) = Under(f, k, x) \/ Under(g, k, x) = Under(f, N, x)}
  <2>1. 0 \in S
    <3>1. g[0] = later /\ later.machine.entries = f[N].machine.entries
      BY <1>2, <1>3 DEF Course
    <3> QED
      BY <1>1, <3>1
  <2>2. ASSUME NEW k \in 0 .. (N - 1), k \in S PROVE k + 1 \in S
    <3>1. /\ f[k + 1] = ApplyEntry(f[k], es[k + 1]) /\ g[k + 1] = ApplyEntry(g[k], es[k + 1])
          /\ es[k + 1] \in Entry /\ k + 1 \in 0 .. N /\ Whole(f[k]) /\ Whole(g[k])
      BY <1>1, <1>2, <1>3, <1>w DEF Course
    <3>2. Under(g, k, x) = Under(f, k, x) \/ Under(g, k, x) = Under(f, N, x)
      BY <2>2
    <3>3. CASE Fixes(es[k + 1], x)
      BY <3>1, <3>3 DEF Fixes
    <3>4. CASE Leaves(es[k + 1], x)
      BY <3>1, <3>2, <3>4 DEF Leaves
    <3> QED
      BY <3>1, <3>3, <3>4, EntryEffect
  <2>3. \A k \in S : Under(g, k, x) = Under(f, k, x) \/ Under(g, k, x) = Under(f, N, x)
    OBVIOUS
  <2> HIDE DEF S
  <2>4. \A k \in 0 .. N : k \in S
    BY <1>1, <2>1, <2>2, Induction
  <2>5. N \in S
    BY <1>1, <2>4
  <2> QED
    BY <2>3, <2>5
<1> DEFINE p == g[N].machine.entries
           q == f[N].machine.entries
<1>6. \A x : Lookup(p, x) = Lookup(q, x)
  BY <1>5
<1>o. MapOf(p) /\ MapOf(q)
  <2>1. N \in 0 .. N
    BY <1>1
  <2> QED
    BY <1>w, <2>1
<1> HIDE DEF p, q
<1>7. p = [x \in DOMAIN p |-> p[x]] /\ q = [x \in DOMAIN q |-> q[x]]
  BY <1>o DEF MapOf
<1>8. \A x : x \in DOMAIN p <=> x \in DOMAIN q
  BY <1>6 DEF Lookup, None, Some
<1>9. \A x \in DOMAIN p : p[x] = q[x]
  <2> SUFFICES ASSUME NEW x \in DOMAIN p PROVE p[x] = q[x]
    OBVIOUS
  <2>1. Some(p[x]) = Some(q[x])
    BY <1>6, <1>8 DEF Lookup
  <2> QED
    BY <2>1 DEF Some
<1>10. DOMAIN p = DOMAIN q
  BY <1>8
<1>11. p = q
  BY <1>7, <1>9, <1>10
<1> QED
  BY <1>2, <1>3, <1>11 DEF p, q, N

-----------------------------------------------------------------------------
(* The calls of a node *)

\* Everything a replica's owner or a peer makes node n do, but for a restart.
Calls(n) ==
    \/ StartElection(n) \/ Heartbeat(n)
    \/ \E c \in Command : Propose(n, c)
    \/ \E id \in Node : AddLearner(n, id) \/ RemoveLearner(n, id)
    \/ \E m \in msgs : /\ m.to = n
                       /\ \/ OnRequestVote(m) \/ OnRequestVoteResponse(m)
                          \/ OnAppendEntries(m) \/ OnAppendEntriesResponse(m)

\* Every call of a node is a step of that node.
LEMMA CallSteps ==
    ASSUME Plain, PlainInv, TypeInv', NEW n \in Node, Calls(n) \/ Restart(n)
    PROVE  PlainBy(n)
<1>0. /\ TypeInv /\ VoteInv /\ LockInv /\ StaticInv /\ PlainState
      /\ \A m \in msgs : m.to \in Node /\ m.from \in Node /\ m.term \in Nat /\ PlainMsg(m)
  BY MessageFields DEF PlainInv, TypeInv, TypeOK, PlainState
<1>1. CASE Restart(n)
  BY <1>0, <1>1, PlainRestart
<1>2. CASE StartElection(n)
  BY <1>0, <1>2, PlainStartElection
<1>3. CASE Heartbeat(n)
  BY <1>0, <1>3, PlainHeartbeat
<1>4. ASSUME NEW c \in Command, Propose(n, c) PROVE PlainBy(n)
  BY <1>0, <1>4, PlainPropose
<1>5. ASSUME NEW id \in Node, AddLearner(n, id) \/ RemoveLearner(n, id) PROVE PlainBy(n)
  BY <1>0, <1>5, PlainLearner
<1>6. ASSUME NEW m \in msgs, m.to = n, AdoptTerm(m) PROVE PlainBy(n)
  <2>1. /\ StepDown(n, m.term) /\ m.term > currentTerm[n] /\ msgs' \subseteq msgs
        /\ UNCHANGED <<log, commitIndex, snapshot, elected, committed>>
    BY <1>6 DEF AdoptTerm, Reply
  <2> QED
    BY <1>0, <2>1, StepDownEases
<1>7. ASSUME NEW m \in msgs, m.to = n, OnRequestVote(m) PROVE PlainBy(n)
  BY <1>0, <1>7, PlainOnRequestVote
<1>8. ASSUME NEW m \in msgs, m.to = n, OnRequestVoteResponse(m) PROVE PlainBy(n)
  BY <1>0, <1>6, <1>8, PlainCountVote DEF OnRequestVoteResponse
<1>9. ASSUME NEW m \in msgs, m.to = n, OnAppendEntries(m) PROVE PlainBy(n)
  BY <1>0, <1>9, PlainOnAppendEntries
<1>10. ASSUME NEW m \in msgs, m.to = n, OnAppendEntriesResponse(m) PROVE PlainBy(n)
  <2>1. CASE AdoptTerm(m)
    BY <1>6, <1>10, <2>1
  <2>2. CASE ~ AdoptTerm(m)
    <3>1. /\ m.type = "AppendEntriesResponse" /\ role[n] = Leader
          /\ m.term = currentTerm[n] /\ m.from # m.to
          /\ (m.success /\ RecordMatch(m, m.matchIndex)) \/ BackOff(m)
      BY <1>0, <1>10, <2>2 DEF OnAppendEntriesResponse, PlainMsg
    <3>2. CASE BackOff(m)
      BY <1>0, <1>10, <3>1, <3>2, PlainBackOff
    <3>3. CASE m.success /\ RecordMatch(m, m.matchIndex)
      BY <1>0, <1>10, <3>1, <3>3, PlainRecordMatch DEF IsAck
    <3> QED
      BY <3>1, <3>2, <3>3
  <2> QED
    BY <2>1, <2>2
<1> QED
  BY <1>1, <1>2, <1>3, <1>4, <1>5, <1>7, <1>8, <1>9, <1>10 DEF Calls

\* advance_commit_index never moves the commit index back.
LEMMA AdvanceGrows ==
    ASSUME TypeInv, NEW n \in Node, NEW lg \in Seq(Entry), NEW match, NEW active,
           active.config \in Config, active.index \in Nat, NEW next, NEW d,
           LeaderAdvance(n, lg, active, next, match, d)
    PROVE  commitIndex'[n] >= commitIndex[n]
<1>1. snapshot[n] \in Snapshot /\ currentTerm[n] \in Nat /\ commitIndex \in [Node -> Nat]
  BY DEF TypeInv, TypeOK
<1>2. AdvanceCommitIndex(n, lg, active, match).commit >= commitIndex[n]
  BY <1>1, AdvanceType
<1>3. commitIndex'[n] = AdvanceCommitIndex(n, lg, active, match).commit
  BY <1>1 DEF LeaderAdvance
<1> QED
  BY <1>2, <1>3

\* No call moves a node's commit index back, if it leaves what was committed
\* in the log; only a restart does.
LEMMA CommitGrows ==
    ASSUME TypeInv, PlainState, NEW n \in Node, log'[n] \in Seq(Entry),
           commitIndex[n] <= Len(log'[n]), Calls(n)
    PROVE  commitIndex'[n] >= commitIndex[n]
<1>0. /\ commitIndex \in [Node -> Nat] /\ commitIndex[n] \in Nat /\ log[n] \in Seq(Entry)
      /\ snapshot[n] \in Snapshot /\ currentTerm[n] \in Nat
      /\ currentConfig[n] \in Config /\ currentConfigIndex[n] \in Nat
      /\ \A m \in msgs : m \in Message
  BY DEF TypeInv, TypeOK
<1>1. commitIndex' = commitIndex => commitIndex'[n] >= commitIndex[n]
  BY <1>0
<1>2. CASE StartElection(n) \/ Heartbeat(n)
  BY <1>1, <1>2 DEF StartElection, Heartbeat
<1>3. ASSUME NEW c \in Command, Propose(n, c) PROVE commitIndex'[n] >= commitIndex[n]
  <2> DEFINE e == [term |-> currentTerm[n], payload |-> CommandPayload(c)]
             lg == Append(log[n], e)
             active == LatestConfiguration(lg, snapshot[n])
  <2>1. LeaderAdvance(n, lg, active, nextIndex[n], matchIndex[n], disk[n])
    BY <1>3 DEF Propose, AppendAndAdvance
  <2>2. lg \in Seq(Entry)
    BY <1>0 DEF Entry, Payload, CommandPayload
  <2> HIDE DEF lg
  <2>3. active.config \in Config /\ active.index \in Nat
    <3>1. snapshot[n].index \in Nat /\ Len(lg) \in Nat
      BY <1>0, <2>2 DEF Snapshot
    <3>2. /\ active.config \in Config
          /\ active.index \in snapshot[n].index .. (snapshot[n].index + Len(lg))
      BY <1>0, <2>2, LatestConfigurationType
    <3> QED
      BY <3>1, <3>2
  <2> HIDE DEF active
  <2> QED
    BY <2>1, <2>2, <2>3, AdvanceGrows
<1>4. ASSUME NEW id \in Node, AddLearner(n, id) \/ RemoveLearner(n, id)
      PROVE  commitIndex'[n] >= commitIndex[n]
  BY <1>1, <1>4 DEF AddLearner, RemoveLearner, SetLearners
<1>5. ASSUME NEW m \in msgs, m.to = n, OnRequestVote(m) PROVE commitIndex'[n] >= commitIndex[n]
  BY <1>1, <1>5 DEF OnRequestVote, DisregardRequestVote, AnswerRequestVote
<1>6. ASSUME NEW m \in msgs, m.to = n, OnRequestVoteResponse(m)
      PROVE  commitIndex'[n] >= commitIndex[n]
  BY <1>1, <1>6 DEF OnRequestVoteResponse, AdoptTerm, CountVote
<1>7. ASSUME NEW m \in msgs, m.to = n, OnAppendEntries(m) PROVE commitIndex'[n] >= commitIndex[n]
  <2>1. CASE RejectAppendEntries(m)
    BY <1>1, <2>1 DEF RejectAppendEntries
  <2>2. CASE AcceptAppendEntries(m)
    <3> DEFINE z == snapshot[n].index + Len(MergedLog(n, m))
    <3>1. commitIndex' = [commitIndex EXCEPT ![n] =
             IF m.leaderCommit > commitIndex[n] THEN Min({m.leaderCommit, z}) ELSE commitIndex[n]]
      BY <1>7, <2>2 DEF AcceptAppendEntries
    <3>2. log'[n] = MergedLog(n, m) /\ snapshot[n].index = 0
      BY <1>0, <1>7, <2>2 DEF AcceptAppendEntries, PlainState, TypeInv, TypeOK
    <3>3. z \in Nat /\ z >= commitIndex[n]
      BY <1>0, <3>2
    <3>4. m.leaderCommit \in Nat
      BY <1>0, <1>7, MessageFields DEF OnAppendEntries
    <3> HIDE DEF z
    <3>5. commitIndex'[n] = IF m.leaderCommit > commitIndex[n]
                            THEN Min({m.leaderCommit, z}) ELSE commitIndex[n]
      BY <1>0, <3>1
    <3> DEFINE a == m.leaderCommit
    <3>6. a \in Int /\ z \in Int
      BY <3>3, <3>4
    <3> HIDE DEF a
    <3>7. Min({a, z}) \in {a, z}
      BY <3>6, PairExtrema
    <3>8. Min({m.leaderCommit, z}) \in {m.leaderCommit, z}
      BY <3>7 DEF a
    <3> QED
      BY <1>0, <3>3, <3>4, <3>5, <3>8
  <2> QED
    BY <1>7, <2>1, <2>2 DEF OnAppendEntries
<1>8. ASSUME NEW m \in msgs, m.to = n, OnAppendEntriesResponse(m)
      PROVE  commitIndex'[n] >= commitIndex[n]
  <2>1. CASE AdoptTerm(m) \/ BackOff(m)
    BY <1>1, <2>1 DEF AdoptTerm, BackOff
  <2>2. CASE RecordMatch(m, m.matchIndex)
    <3> DEFINE active == [config |-> currentConfig[n], index |-> currentConfigIndex[n]]
    <3>1. PICK next, match, d : LeaderAdvance(n, log[n], active, next, match, d)
      BY <1>8, <2>2 DEF RecordMatch
    <3>2. active.config \in Config /\ active.index \in Nat
      BY <1>0
    <3> HIDE DEF active
    <3> QED
      BY <1>0, <3>1, <3>2, AdvanceGrows
  <2> QED
    BY <1>8, <2>1, <2>2 DEF OnAppendEntriesResponse
<1> QED
  BY <1>2, <1>3, <1>4, <1>5, <1>6, <1>7, <1>8 DEF Calls

-----------------------------------------------------------------------------
(* The committed prefix *)

\* What a node counts committed has been recorded as such.
Recorded ==
    \A n \in Node : \A i \in 1 .. commitIndex[n] : [index |-> i, entry |-> log[n][i]] \in committed

\* A node holds what it counts committed.
LEMMA CommitHeld == TypeInv /\ NodeCommit => \A v \in Node : commitIndex[v] <= Len(log[v])
<1> SUFFICES ASSUME TypeInv, NodeCommit, NEW v \in Node PROVE commitIndex[v] <= Len(log[v])
  OBVIOUS
<1>1. commitIndex[v] \in Nat /\ Len(log[v]) \in Nat /\ DOMAIN log[v] = 1 .. Len(log[v])
  BY NodeTypes
<1>2. CASE commitIndex[v] = 0
  BY <1>1, <1>2
<1>3. CASE commitIndex[v] > 0
  <2>1. PICK j \in Nat, t \in Nat : commitIndex[v] <= j /\ Has(v, j, t)
    BY <1>3 DEF NodeCommit, CommitSafe
  <2> QED
    BY <1>1, <2>1 DEF Has
<1> QED
  BY <1>1, <1>2, <1>3

\* A node holds what it counts committed, and no step of any node changes it.
LEMMA PrefixStays ==
    ASSUME NEW n \in Node, Goes(n), NodeCommit, NEW v \in Node
    PROVE  /\ commitIndex[v] <= Len(log[v]) /\ commitIndex[v] <= Len(log'[v])
           /\ \A i \in 1 .. commitIndex[v] : log'[v][i] = log[v][i]
<1>0. /\ commitIndex[v] \in Nat /\ Len(log[v]) \in Nat /\ Len(log'[v]) \in Nat
      /\ DOMAIN log[v] = 1 .. Len(log[v]) /\ DOMAIN log'[v] = 1 .. Len(log'[v])
  BY NodeTypes, NodeTypesNext DEF Goes, Moves
<1>1. CASE commitIndex[v] = 0
  BY <1>0, <1>1
<1>2. CASE commitIndex[v] > 0
  <2>1. CommitSafe(v)
    BY DEF NodeCommit
  <2>2. PICK j \in Nat, t \in Nat :
           commitIndex[v] <= j /\ Point(j, t) /\ t <= currentTerm[v] /\ Has(v, j, t)
    BY <1>2, <2>1 DEF CommitSafe, Safe
  <2>3. currentTerm[v] >= t
    BY <2>2, NodeTypes DEF Goes, Moves
  <2>4. Has(v, j, t)' /\ \A i \in 1 .. j : log'[v][i] = log[v][i]
    BY <2>2, <2>3, HasStays
  <2>5. j \in 1 .. Len(log[v]) /\ j \in 1 .. Len(log'[v])
    BY <1>0, <2>2, <2>4 DEF Has
  <2> QED
    BY <1>0, <2>2, <2>4, <2>5
<1> QED
  BY <1>0, <1>1, <1>2

\* A step counts nothing more committed, or what its node does.
LEMMA Recording ==
    ASSUME NEW n \in Node, Goes(n)
    PROVE  \/ commitIndex'[n] \in {commitIndex[n], 0} /\ committed' = committed
           \/ Records(n)
<1>1. Acts(n)
  BY DEF Goes, Moves, PlainBy
<1>2. CASE Calm(n) \/ \E m \in msgs : Grant(n, m)
  BY <1>2 DEF Calm, Grant, Eases
<1>3. CASE Campaign(n) \/ \E m \in msgs : Tally(n, m)
  BY <1>3 DEF Campaign, Tally
<1>4. CASE Extend(n) \/ \E m \in msgs : Ack(n, m)
  BY <1>4 DEF Extend, Ack, Leads
<1>5. CASE \E m \in msgs : Accept(n, m)
  BY <1>5 DEF Accept
<1> QED
  BY <1>1, <1>2, <1>3, <1>4, <1>5 DEF Acts

\* A node that counts more entries committed records them.
LEMMA RecordedStays ==
    ASSUME NEW n \in Node, Goes(n), NodeCommit, Recorded
    PROVE  Recorded'
<1>0. /\ Acts(n) /\ \A c \in Node \ {n} : Same(c)
      /\ \A c \in Node : commitIndex[c] \in Nat /\ commitIndex'[c] \in Nat
  BY NodeTypes, NodeTypesNext DEF Goes, Moves, PlainBy
<1>1. \A c \in Node : \A i \in 1 .. commitIndex[c] :
         log'[c][i] = log[c][i] /\ [index |-> i, entry |-> log'[c][i]] \in committed
  BY PrefixStays DEF Recorded
<1>2. \/ commitIndex'[n] \in {commitIndex[n], 0} /\ committed' = committed
      \/ Records(n)
  BY Recording
<1>3. committed \subseteq committed'
  BY <1>2 DEF Records
<1> SUFFICES ASSUME NEW c \in Node, NEW i \in 1 .. commitIndex'[c]
             PROVE  [index |-> i, entry |-> log'[c][i]] \in committed'
  BY DEF Recorded
<1>4. CASE c # n
  BY <1>0, <1>1, <1>3, <1>4 DEF Same
<1>5. CASE c = n /\ i <= commitIndex[n]
  <2>1. i \in 1 .. commitIndex[n]
    BY <1>0, <1>5
  <2> QED
    BY <1>1, <1>3, <1>5, <2>1
<1>6. CASE c = n /\ i > commitIndex[n]
  <2>1. Records(n) /\ i \in (commitIndex[n] + 1) .. commitIndex'[n]
    BY <1>0, <1>2, <1>6
  <2> QED
    BY <1>6, <2>1 DEF Records
<1> QED
  BY <1>0, <1>4, <1>5, <1>6

\* A call is a step of its node, from one state of the invariant to another.
LEMMA CallGoes ==
    ASSUME Plain, PlainInv, Next, NEW n \in Node, Calls(n) \/ Restart(n)
    PROVE  Goes(n)
<1>0. Static
  BY DEF Plain
<1>1. TypeInv' /\ VoteInv' /\ StaticInv'
  BY <1>0, NextType, VoteInductive, StaticInductive DEF PlainInv
<1>2. ElectionSafety
  BY OneLeader DEF PlainInv
<1>3. TypeInv' /\ VoteInv' /\ StaticInv' => ElectionSafety'
  BY OneLeader, PTL
<1>4. PlainBy(n)
  BY <1>1, CallSteps
<1>5. PlainState'
  BY <1>1, <1>4, PlainStays DEF PlainInv
<1>6. Moves(n)
  BY <1>1, <1>2, <1>3, <1>4, <1>5 DEF Moves, PlainInv
<1>7. LogInv'
  BY <1>6, LogStays
<1> QED
  BY <1>1, <1>6, <1>7 DEF Goes, PlainInv

-----------------------------------------------------------------------------
(* The machines *)

\* The first entries of a log.
Prefix(lg, k) == SubSeq(lg, 1, k)

\* Each replica is the replay, from an empty map, of what its node counts
\* committed.
MachineInv ==
    /\ machine = [n \in Node |-> machine[n]] /\ results = [n \in Node |-> results[n]]
    /\ \A n \in Node : Held(n) = ApplyAll(FreshReplica, Prefix(log[n], commitIndex[n]))

\* What the replay of a log's first entries has.
LEMMA ReplayApplied ==
    ASSUME NEW lg \in Seq(Entry), NEW k \in Nat, k <= Len(lg)
    PROVE  Applied(ApplyAll(FreshReplica, Prefix(lg, k)), k)
<1>1. PICK z \in Nat : z = 0
  OBVIOUS
<1>2. SubSeq(lg, z + 1, k) \in Seq(Entry) /\ Len(SubSeq(lg, z + 1, k)) = k - z
  BY <1>1, Between
<1>3. Prefix(lg, k) \in Seq(Entry) /\ z + Len(Prefix(lg, k)) = k
  <2>1. z + 1 = 1 /\ z + (k - z) = k
    BY <1>1
  <2> QED
    BY <1>2, <2>1 DEF Prefix
<1>4. Applied(FreshReplica, z)
  BY <1>1, FreshApplied
<1> QED
  BY <1>3, <1>4, ReplayKeeps

\* Two logs that agree have the same first entries.
LEMMA SamePrefix ==
    ASSUME NEW a \in Seq(Entry), NEW b \in Seq(Entry), NEW k \in Nat, k <= Len(a), k <= Len(b),
           \A i \in 1 .. k : a[i] = b[i]
    PROVE  Prefix(a, k) = Prefix(b, k)
BY DEF Prefix

\* Everything in a log can be decoded.
LEMMA EntriesDecode ==
    ASSUME NEW es \in Seq(Entry), NEW k \in DOMAIN es, es[k].payload.type = "Command"
    PROVE  Decode(es[k].payload.command) # None
<1>0. es[k] \in Entry
  OBVIOUS
<1>1. es[k].payload \in Payload
  BY <1>0 DEF Entry
<1>2. es[k].payload.command \in Command
  BY <1>1 DEF Payload
<1>3. PICK c \in Operation : Decode(es[k].payload.command) = Some(c)
  BY <1>2, CommandsDecode
<1> QED
  BY <1>3 DEF Some, None

\* What a replica is after a call of its node that let it drain.
LEMMA Drained ==
    ASSUME NEW n \in Node, DrainCommitted(n), snapshot'[n].index = 0,
           NEW a \in Nat, NEW b \in Nat, a = commitIndex[n], b = commitIndex'[n], a <= b,
           NEW lg \in Seq(Entry), lg = log'[n], b <= Len(lg),
           machine = [c \in Node |-> machine[c]], results = [c \in Node |-> results[c]],
           Held(n) = ApplyAll(FreshReplica, Prefix(lg, a))
    PROVE  /\ machine' = [c \in Node |-> machine'[c]] /\ results' = [c \in Node |-> results'[c]]
           /\ \A c \in Node \ {n} : machine'[c] = machine[c] /\ results'[c] = results[c]
           /\ Held(n)' = ApplyAll(FreshReplica, Prefix(lg, b))
<1> DEFINE base == Rebased(machine[n], results[n], snapshot'[n])
           todo == Unapplied(log'[n], snapshot'[n], base.machine.lastApplied, commitIndex'[n])
           end == ApplyAll(base, todo)
<1>1. a <= Len(lg) /\ Len(lg) \in Nat
  OBVIOUS
<1>2. Applied(Held(n), a)
  BY <1>1, ReplayApplied
<1>3. machine[n].lastApplied = a
  BY <1>2 DEF Applied, Held
<1>4. base = Held(n) /\ base.machine.lastApplied = a
  <2>1. ~ (snapshot'[n].index > machine[n].lastApplied)
    BY <1>3
  <2> QED
    BY <1>3, <2>1 DEF Rebased, Held
<1>5. todo = SubSeq(lg, a + 1, b)
  <2>1. a - 0 + 1 = a + 1 /\ b - 0 = b
    OBVIOUS
  <2> QED
    BY <1>4, <2>1 DEF Unapplied
<1>6. CanDrain(machine[n], log'[n], snapshot'[n], commitIndex'[n])
  <2> DEFINE si == snapshot'[n].index
             applied == Max({machine[n].lastApplied, si})
  <2>1. applied = a
    <3>1. PICK z \in Int : z = 0
      OBVIOUS
    <3>2. a \in Int
      OBVIOUS
    <3>3. Max({a, z}) \in {a, z} /\ Max({a, z}) >= a
      BY <3>1, <3>2, PairExtrema
    <3>4. Max({a, z}) = a
      BY <3>1, <3>2, <3>3
    <3> QED
      BY <1>3, <3>1, <3>4
  <2>2. Unapplied(log'[n], snapshot'[n], applied, commitIndex'[n]) = todo
    BY <1>4, <2>1
  <2>3. todo \in Seq(Entry)
    <3>1. SubSeq(lg, a + 1, b) \in Seq(Entry)
      BY <1>1, Between
    <3> QED
      BY <1>5, <3>1
  <2>4. ~ (si > machine[n].lastApplied) /\ commitIndex'[n] - si <= Len(log'[n])
    BY <1>3
  <2> HIDE DEF applied, si, todo
  <2>5. \A k \in DOMAIN todo :
           todo[k].payload.type = "Command" => Decode(todo[k].payload.command) # None
    BY <2>3, EntriesDecode
  <2> QED
    BY <2>2, <2>4, <2>5 DEF CanDrain, applied, si
<1>7. /\ machine' = [machine EXCEPT ![n] = end.machine]
      /\ results' = [results EXCEPT ![n] = end.results]
  BY <1>6 DEF DrainCommitted
<1>8. end = ApplyAll(FreshReplica, Prefix(lg, b))
  <2>1. end = ApplyAll(ApplyAll(FreshReplica, SubSeq(lg, 1, a)), SubSeq(lg, a + 1, b))
    BY <1>4, <1>5 DEF Prefix
  <2> HIDE DEF end
  <2>2. ApplyAll(ApplyAll(FreshReplica, SubSeq(lg, 1, a)), SubSeq(lg, a + 1, b))
           = ApplyAll(FreshReplica, SubSeq(lg, 1, b))
    BY ReplayOn
  <2> QED
    BY <2>1, <2>2 DEF Prefix
<1>9. end = [machine |-> end.machine, results |-> end.results]
  <2>1. Applied(end, b)
    BY <1>8, ReplayApplied
  <2> HIDE DEF end
  <2> QED
    BY <2>1 DEF Applied
<1> HIDE DEF end
<1>10. Held(n)' = end
  BY <1>7, <1>9 DEF Held
<1> QED
  BY <1>7, <1>8, <1>10

\* A call of a node, and the drain that follows it.
LEMMA CallKeeps ==
    ASSUME NEW n \in Node, Goes(n), Calls(n), DrainCommitted(n), NodeCommit, NodeCommit',
           MachineInv
    PROVE  MachineInv'
<1>0. /\ TypeInv /\ PlainState /\ TypeInv' /\ PlainState' /\ \A c \in Node \ {n} : Same(c)
  BY DEF Goes, Moves, PlainBy
<1>1. \A c \in Node : /\ log[c] \in Seq(Entry) /\ log'[c] \in Seq(Entry)
                      /\ commitIndex[c] \in Nat /\ commitIndex'[c] \in Nat
  BY <1>0, NodeTypes, NodeTypesNext DEF Goes, Moves
<1>2. /\ commitIndex[n] <= Len(log[n]) /\ commitIndex[n] <= Len(log'[n])
      /\ \A i \in 1 .. commitIndex[n] : log'[n][i] = log[n][i]
  BY PrefixStays
<1>3. commitIndex'[n] >= commitIndex[n]
  BY <1>0, <1>1, <1>2, CommitGrows
<1>4. commitIndex'[n] <= Len(log'[n])
  <2>1. TypeInv' /\ NodeCommit' => (\A v \in Node : commitIndex[v] <= Len(log[v]))'
    BY CommitHeld, PTL
  <2> QED
    BY <1>0, <2>1
<1>5. snapshot'[n].index = 0
  BY <1>0 DEF PlainState
<1>6. Prefix(log[n], commitIndex[n]) = Prefix(log'[n], commitIndex[n])
  BY <1>1, <1>2, SamePrefix
<1>7. Held(n) = ApplyAll(FreshReplica, Prefix(log'[n], commitIndex[n]))
  BY <1>6 DEF MachineInv
<1>8. /\ machine' = [c \in Node |-> machine'[c]] /\ results' = [c \in Node |-> results'[c]]
      /\ \A c \in Node \ {n} : machine'[c] = machine[c] /\ results'[c] = results[c]
      /\ Held(n)' = ApplyAll(FreshReplica, Prefix(log'[n], commitIndex'[n]))
  BY <1>1, <1>2, <1>3, <1>4, <1>5, <1>7, Drained DEF MachineInv
<1>9. ASSUME NEW c \in Node
      PROVE  (Held(c) = ApplyAll(FreshReplica, Prefix(log[c], commitIndex[c])))'
  <2>1. CASE c = n
    BY <1>8, <2>1
  <2>2. CASE c # n
    BY <1>0, <1>8, <2>2 DEF Same, Held, MachineInv
  <2> QED
    BY <2>1, <2>2
<1> QED
  BY <1>8, <1>9 DEF MachineInv

\* A restart: there is no snapshot to start from, and nothing counts as committed.
LEMMA RestartKeeps ==
    ASSUME NEW n \in Node, Goes(n), Restart(n), Recover(n), MachineInv
    PROVE  MachineInv'
<1>0. /\ TypeInv /\ TypeInv' /\ PlainState' /\ \A c \in Node \ {n} : Same(c)
  BY DEF Goes, Moves, PlainBy
<1>1. snapshot'[n].index = 0 /\ log'[n] \in Seq(Entry)
  BY <1>0, NodeTypesNext DEF PlainState, Goes, Moves
<1>2. commitIndex'[n] = 0
  <2>1. snapshot'[n].index = disk[n].snapshot.index /\ commitIndex'[n] = disk[n].snapshot.index
    BY <1>0 DEF Restart, TypeInv, TypeOK, Durable, Snapshot
  <2> QED
    BY <1>1, <2>1
<1>3. Rebased(EmptyMachine, <<>>, snapshot'[n]) = FreshReplica
  BY <1>1 DEF Rebased, EmptyMachine, FreshReplica
<1>4. /\ machine' = [machine EXCEPT ![n] = FreshReplica.machine]
      /\ results' = [results EXCEPT ![n] = FreshReplica.results]
  BY <1>3 DEF Recover
<1>5. Held(n)' = FreshReplica
  BY <1>4 DEF Held, FreshReplica, MachineInv
<1>6. Prefix(log'[n], 0) = <<>>
  BY <1>1 DEF Prefix
<1>7. ASSUME NEW c \in Node
      PROVE  (Held(c) = ApplyAll(FreshReplica, Prefix(log[c], commitIndex[c])))'
  <2>1. CASE c = n
    BY <1>2, <1>5, <1>6, <2>1, ReplayNothing
  <2>2. CASE c # n
    <3>1. machine'[c] = machine[c] /\ results'[c] = results[c]
      BY <1>4, <2>2 DEF MachineInv
    <3> QED
      BY <1>0, <2>2, <3>1 DEF Same, Held, MachineInv
  <2> QED
    BY <2>1, <2>2
<1>8. machine' = [c \in Node |-> machine'[c]] /\ results' = [c \in Node |-> results'[c]]
  BY <1>4 DEF MachineInv
<1> QED
  BY <1>7, <1>8 DEF MachineInv

-----------------------------------------------------------------------------
(* The replica as a Raft node *)

\* No replica compacts: the owners of the log never call maybe_compact with
\* anything to drop.
Uncompacted == [][\A n \in Node : ~ ReplicaCompact(n)]_<<vars, replicaVars>>

\* What replicas that do not compact do: one of their nodes is called or
\* restarted, or a message is lost.
ReplicasAct ==
    \/ \E n \in Node : Calls(n) /\ DrainCommitted(n)
    \/ \E n \in Node : Restart(n) /\ Recover(n)
    \/ \E m \in msgs : Lose(m) /\ UNCHANGED replicaVars

\* A client's command, whether or not it is one of Proposals.
LEMMA ProposeActs ==
    ASSUME NEW n \in Node, NEW c \in Operation, ReplicaPropose(n, c)
    PROVE  Next /\ Calls(n) /\ DrainCommitted(n)
<1>1. Encode(c) \in Command
  BY ReplicaAssumption
<1> QED
  BY <1>1 DEF ReplicaPropose, Next, Step, Calls

\* A tick.
LEMMA TickActs ==
    ASSUME NEW n \in Node, ReplicaTick(n)
    PROVE  Next /\ Calls(n) /\ DrainCommitted(n)
BY DEF ReplicaTick, Next, Step, Calls

\* A message of a peer.
LEMMA StepActs ==
    ASSUME TypeInv, PlainState, NEW m \in msgs, ReplicaStep(m)
    PROVE  m.to \in Node /\ Next /\ Calls(m.to) /\ DrainCommitted(m.to)
<1>1. ~ OnInstallSnapshot(m) /\ ~ OnInstallSnapshotResponse(m)
  BY DEF PlainState, PlainMsg, OnInstallSnapshot, OnInstallSnapshotResponse
<1>2. \/ OnRequestVote(m) \/ OnRequestVoteResponse(m)
      \/ OnAppendEntries(m) \/ OnAppendEntriesResponse(m)
  BY <1>1 DEF ReplicaStep
<1>3. DrainCommitted(m.to)
  BY DEF ReplicaStep
<1>4. Next
  BY <1>2 DEF Next, Step
<1>5. m.to \in Node
  BY MessageFields DEF TypeInv, TypeOK
<1>6. Calls(m.to)
  BY <1>2 DEF Calls
<1> QED
  BY <1>3, <1>4, <1>5, <1>6

\* A crash and a restart.
LEMMA RestartActs ==
    ASSUME NEW n \in Crashable, ReplicaRestart(n)
    PROVE  n \in Node /\ Next /\ Restart(n) /\ Recover(n)
BY InputAssumption DEF ReplicaRestart, Next, Step

\* The network.
LEMMA LoseActs == ASSUME NEW m \in msgs, Lose(m) PROVE Next
BY DEF Next, Step

\* Every step of replicas that do not compact is one of their nodes'.
LEMMA ReplicaSteps ==
    ASSUME Plain, TypeInv, PlainState, ReplicaNext, \A n \in Node : ~ ReplicaCompact(n)
    PROVE  Next /\ ReplicasAct
<1>1. CASE \E n \in Node, c \in Proposals : ReplicaPropose(n, c)
  BY <1>1, ReplicaAssumption, ProposeActs DEF ReplicasAct
<1>2. CASE \E n \in Node : ReplicaLearners(n)
  BY <1>2 DEF ReplicaLearners, Next, Step, Calls, ReplicasAct
<1>3. CASE \E n \in Node : ReplicaTick(n)
  BY <1>3, TickActs DEF ReplicasAct
<1>4. CASE \E n \in Crashable : ReplicaRestart(n)
  BY <1>4, RestartActs DEF ReplicasAct
<1>5. CASE \E m \in msgs : ReplicaStep(m)
  BY <1>5, StepActs DEF ReplicasAct
<1>6. CASE \E m \in msgs : Lose(m) /\ UNCHANGED replicaVars
  BY <1>6, LoseActs DEF ReplicasAct
<1>7. ~ \E n \in Node, S \in VoterSets : ReplicaConfigChange(n, S)
  BY DEF Plain, Static
<1> QED
  BY <1>1, <1>2, <1>3, <1>4, <1>5, <1>6, <1>7 DEF ReplicaNext

\* The invariant of replicas that do not compact.
ReplicaInv == PlainInv /\ CommitInv /\ Recorded /\ MachineInv

\* It holds at the start.
LEMMA InitReplica == ASSUME Plain PROVE ReplicaInit => ReplicaInv
<1> SUFFICES ASSUME ReplicaInit PROVE ReplicaInv
  OBVIOUS
<1>1. Init
  BY DEF ReplicaInit
<1>2. PlainInv /\ CommitInv
  BY <1>1, InitType, InitVotes, InitLocked, InitStatic, InitLog, InitCommit DEF PlainInv, Plain
<1>3. \A n \in Node : log[n] = <<>> /\ commitIndex[n] = 0
  BY <1>1 DEF Init
<1>4. Recorded
  BY <1>3 DEF Recorded
<1>5. MachineInv
  <2>1. ASSUME NEW n \in Node
        PROVE  Held(n) = ApplyAll(FreshReplica, Prefix(log[n], commitIndex[n]))
    <3>1. Prefix(log[n], commitIndex[n]) = <<>>
      BY <1>3 DEF Prefix
    <3>2. Held(n) = FreshReplica
      BY DEF ReplicaInit, Held, FreshReplica
    <3> QED
      BY <3>1, <3>2, ReplayNothing
  <2> QED
    BY <2>1 DEF ReplicaInit, MachineInv
<1> QED
  BY <1>2, <1>4, <1>5 DEF ReplicaInv

\* It stays when a replica acts.
LEMMA ActsKeep ==
    ASSUME Plain, ReplicaInv, Next, ReplicasAct
    PROVE  ReplicaInv'
<1>1. PlainInv' /\ CommitInv'
  BY PlainInductive, CommitInductive DEF ReplicaInv
<1>2. NodeCommit /\ NodeCommit' /\ PlainInv /\ Recorded /\ MachineInv
  BY <1>1 DEF ReplicaInv, CommitInv
<1>3. ASSUME NEW n \in Node, Calls(n), DrainCommitted(n) PROVE Recorded' /\ MachineInv'
  <2>1. Goes(n)
    BY <1>2, <1>3, CallGoes
  <2> QED
    BY <1>2, <1>3, <2>1, RecordedStays, CallKeeps
<1>4. ASSUME NEW n \in Node, Restart(n), Recover(n) PROVE Recorded' /\ MachineInv'
  <2>1. Goes(n)
    BY <1>2, <1>4, CallGoes
  <2> QED
    BY <1>2, <1>4, <2>1, RecordedStays, RestartKeeps
<1>5. ASSUME NEW m \in msgs, Lose(m), UNCHANGED replicaVars PROVE Recorded' /\ MachineInv'
  <2>1. UNCHANGED <<log, commitIndex, committed, machine, results>>
    BY <1>5 DEF Lose, replicaVars
  <2> QED
    BY <1>2, <2>1 DEF Recorded, MachineInv, Held
<1> QED
  BY <1>1, <1>3, <1>4, <1>5 DEF ReplicaInv, ReplicasAct

\* And when none does.
LEMMA RestKeeps ==
    ASSUME Plain, ReplicaInv, UNCHANGED <<vars, replicaVars>>
    PROVE  ReplicaInv'
<1>1. UNCHANGED vars /\ UNCHANGED replicaVars
  OBVIOUS
<1>2. PlainInv' /\ CommitInv'
  BY <1>1, PlainInductive, CommitInductive DEF ReplicaInv
<1>3. UNCHANGED <<log, commitIndex, committed, machine, results>>
  BY <1>1 DEF vars, replicaVars
<1>4. Recorded' /\ MachineInv'
  BY <1>3 DEF ReplicaInv, Recorded, MachineInv, Held
<1> QED
  BY <1>2, <1>4 DEF ReplicaInv

\* So it stays after every step of replicas that do not compact.
LEMMA ReplicaInductive ==
    ASSUME Plain
    PROVE  ReplicaInv /\ [ReplicaNext /\ \A n \in Node : ~ ReplicaCompact(n)]_<<vars, replicaVars>>
              => ReplicaInv' /\ [Next]_vars
<1>1. ASSUME ReplicaInv, ReplicaNext, \A n \in Node : ~ ReplicaCompact(n)
      PROVE  ReplicaInv' /\ Next
  BY <1>1, ReplicaSteps, ActsKeep DEF ReplicaInv, PlainInv
<1>2. ASSUME ReplicaInv, UNCHANGED <<vars, replicaVars>> PROVE ReplicaInv' /\ UNCHANGED vars
  BY <1>2, RestKeeps
<1> QED
  BY <1>1, <1>2

\* The replicas' invariant, from the start on.
LEMMA ReplicaAlways ==
    ASSUME Plain
    PROVE  ReplicaSpec /\ Uncompacted => []ReplicaInv
BY InitReplica, ReplicaInductive, PTL DEF ReplicaSpec, Uncompacted

\* A replica drives its node through Raft's steps and no others: what is proved
\* of the protocol is true of the nodes inside the replicas.
THEOREM ReplicasRunRaft ==
    ASSUME Plain
    PROVE  ReplicaSpec /\ Uncompacted => Spec
<1>1. ReplicaInit => Init
  BY DEF ReplicaInit
<1> QED
  BY <1>1, InitReplica, ReplicaInductive, PTL DEF ReplicaSpec, Uncompacted, Spec

\* The three expects of drain_committed, and the subtraction of maybe_compact, are
\* safe in a cluster whose voters are never changed and that does not compact:
\* after every call of any replica it has applied exactly what its node counts
\* committed.
THEOREM DrainIsSafe ==
    ASSUME Plain
    PROVE  ReplicaSpec /\ Uncompacted => []DrainNeverPanics
<1>1. ReplicaInv => DrainNeverPanics
  <2> SUFFICES ASSUME ReplicaInv, NEW n \in Node
               PROVE  /\ machine[n].lastApplied = commitIndex[n]
                      /\ snapshot[n].index <= machine[n].lastApplied
    BY DEF DrainNeverPanics
  <2>1. /\ log[n] \in Seq(Entry) /\ commitIndex[n] \in Nat /\ commitIndex[n] <= Len(log[n])
        /\ snapshot[n].index = 0
    BY NodeTypes, CommitHeld DEF ReplicaInv, PlainInv, CommitInv, PlainState
  <2>2. Applied(Held(n), commitIndex[n])
    BY <2>1, ReplayApplied DEF ReplicaInv, MachineInv
  <2>3. machine[n].lastApplied = commitIndex[n]
    BY <2>2 DEF Applied, Held
  <2> QED
    BY <2>1, <2>3
<1> QED
  BY <1>1, ReplicaAlways, PTL

\* The replay of the first entries of two logs that agree with what is committed.
LEMMA SameReplay ==
    ASSUME TypeInv, Recorded, NodeCommit, StateMachineSafety, NEW m \in Node, NEW n \in Node,
           NEW k \in Nat, k <= commitIndex[m], k <= commitIndex[n]
    PROVE  Prefix(log[m], k) = Prefix(log[n], k)
<1>1. /\ log[m] \in Seq(Entry) /\ log[n] \in Seq(Entry)
      /\ commitIndex[m] \in Nat /\ commitIndex[n] \in Nat
      /\ commitIndex[m] <= Len(log[m]) /\ commitIndex[n] <= Len(log[n])
  BY NodeTypes, CommitHeld
<1>2. ASSUME NEW i \in 1 .. k PROVE log[m][i] = log[n][i]
  <2>1. i \in 1 .. commitIndex[m] /\ i \in 1 .. commitIndex[n]
    BY <1>1
  <2>2. /\ [index |-> i, entry |-> log[m][i]] \in committed
        /\ [index |-> i, entry |-> log[n][i]] \in committed
    BY <2>1 DEF Recorded
  <2> QED
    BY <2>2 DEF StateMachineSafety
<1>3. k <= Len(log[m]) /\ k <= Len(log[n])
  BY <1>1
<1> QED
  BY <1>1, <1>2, <1>3, SamePrefix

\* What StateMachineSafety gives the replicas.
LEMMA SafeReplicas == ASSUME Plain PROVE ReplicaSpec /\ Uncompacted => [](ReplicaInv /\ StateMachineSafety)
BY ReplicaAlways, ReplicasRunRaft, CommittedOnce, PTL

\* In such a cluster a replica that has applied everything committed anywhere holds
\* the map that replaying it from the start gives: no restart, re-election or
\* overwritten suffix leaves a trace in what drain_committed builds.
THEOREM ReplicasAreReplays ==
    ASSUME Plain
    PROVE  ReplicaSpec /\ Uncompacted => []ReplicasConverge
<1>1. ReplicaInv /\ StateMachineSafety => ReplicasConverge
  <2> SUFFICES ASSUME ReplicaInv, StateMachineSafety, NEW n \in Node,
                      machine[n].lastApplied = Cardinality(committed)
               PROVE  machine[n].entries = Replayed.machine.entries
    BY DEF ReplicasConverge
  <2>1. /\ log[n] \in Seq(Entry) /\ commitIndex[n] \in Nat /\ commitIndex[n] <= Len(log[n])
    BY NodeTypes, CommitHeld DEF ReplicaInv, PlainInv, CommitInv
  <2>2. Applied(Held(n), commitIndex[n]) /\ Held(n) = ApplyAll(FreshReplica, Prefix(log[n], commitIndex[n]))
    BY <2>1, ReplayApplied DEF ReplicaInv, MachineInv
  <2>3. PICK k \in Nat : k = commitIndex[n] /\ k = Cardinality(committed)
    BY <2>1, <2>2 DEF Applied, Held
  <2> DEFINE Only(i) == (CHOOSE c \in committed : c.index = i).entry
  <2>4. ASSUME NEW i \in 1 .. k PROVE Only(i) = log[n][i]
    <3>1. [index |-> i, entry |-> log[n][i]] \in committed
      BY <2>3 DEF ReplicaInv, Recorded
    <3>2. PICK c \in committed : c.index = i /\ Only(i) = c.entry
      BY <3>1
    <3> QED
      BY <3>1, <3>2 DEF StateMachineSafety
  <2>5. Prefix(log[n], k) = [i \in 1 .. k |-> log[n][i]]
    BY <2>1, <2>3 DEF Prefix
  <2>6. Replayed = ApplyAll(FreshReplica, [i \in 1 .. k |-> Only(i)])
    BY <2>3 DEF Replayed
  <2> HIDE DEF Only
  <2>7. [i \in 1 .. k |-> Only(i)] = Prefix(log[n], k)
    BY <2>4, <2>5
  <2>8. Replayed = Held(n)
    BY <2>2, <2>3, <2>6, <2>7
  <2> QED
    BY <2>8 DEF Held
<1> QED
  BY <1>1, SafeReplicas, PTL

\* An answer that has been given stays as it is.
LEMMA ReplayAdds ==
    ASSUME NEW a \in Nat, NEW acc, Applied(acc, a), NEW es \in Seq(Entry)
    PROVE  \A i \in DOMAIN acc.results :
              /\ i \in DOMAIN ApplyAll(acc, es).results
              /\ ApplyAll(acc, es).results[i] = acc.results[i]
<1> DEFINE N == Len(es)
           D == DOMAIN acc.results
           r == acc.results
           Keeps(x) == \A i \in D : i \in DOMAIN x.results /\ x.results[i] = r[i]
<1>1. N \in Nat /\ \A k \in 0 .. (N - 1) : k + 1 \in 1 .. N /\ es[k + 1] \in Entry
  OBVIOUS
<1>2. PICK f : Course(f, acc, es, N) /\ ApplyAll(acc, es) = f[N]
  BY <1>1, ReplaySteps
<1>3. \A i \in D : i \in Int /\ i <= a
  BY DEF Applied
<1>4. Keeps(acc)
  OBVIOUS
<1> HIDE DEF N, D, r
<1> DEFINE S == {k \in 0 .. N : Applied(f[k], a + k) /\ Keeps(f[k])}
<1>5. 0 \in S
  <2>1. f[0] = acc /\ a + 0 = a
    BY <1>2 DEF Course
  <2> QED
    BY <1>1, <1>4, <2>1
<1>6. ASSUME NEW k \in 0 .. (N - 1), k \in S PROVE k + 1 \in S
  <2>1. f[k + 1] = ApplyEntry(f[k], es[k + 1]) /\ es[k + 1] \in Entry
    BY <1>1, <1>2 DEF Course
  <2>2. /\ Applied(f[k], a + k) /\ Keeps(f[k]) /\ a + k \in Nat /\ a + k + 1 = a + (k + 1)
        /\ k + 1 \in 0 .. N
    BY <1>1, <1>6
  <2>3. Applied(f[k + 1], a + (k + 1))
    BY <2>1, <2>2, EntryKeeps
  <2>4. f[k].machine.lastApplied = a + k
    BY <2>2 DEF Applied
  <2> DEFINE out == Apply(f[k].machine, Decode(es[k + 1].payload.command)[1]).result
  <2>5. f[k + 1].results \in {f[k].results, With(f[k].results, a + k + 1, out)}
    <3>1. CASE es[k + 1].payload.type = "Configuration"
      <4>1. f[k] = [machine |-> f[k].machine, results |-> f[k].results]
        BY <2>2 DEF Applied
      <4> QED
        BY <2>1, <3>1, <4>1 DEF ApplyEntry
    <3>2. CASE es[k + 1].payload.type # "Configuration"
      BY <2>1, <2>4, <3>2 DEF ApplyEntry
    <3> QED
      BY <3>1, <3>2
  <2> HIDE DEF out
  <2>6. ASSUME NEW i \in D PROVE i \in DOMAIN f[k + 1].results /\ f[k + 1].results[i] = r[i]
    <3>1. i # a + k + 1
      BY <1>3, <2>2
    <3>2. i \in DOMAIN f[k].results /\ f[k].results[i] = r[i]
      BY <2>2
    <3> QED
      BY <2>5, <3>1, <3>2 DEF With
  <2> QED
    BY <2>2, <2>3, <2>6
<1>7. \A k \in S : Keeps(f[k])
  OBVIOUS
<1> HIDE DEF S
<1>8. \A k \in 0 .. N : k \in S
  BY <1>1, <1>5, <1>6, Induction
<1>9. Keeps(f[N])
  BY <1>1, <1>7, <1>8
<1> QED
  BY <1>2, <1>9 DEF N, D, r

\* In such a cluster no two replicas disagree, whichever of them crashed, lagged or
\* was deposed: a client that reads an answer at another node reads the same one.
THEOREM ReplicasNeverDisagree ==
    ASSUME Plain
    PROVE  ReplicaSpec /\ Uncompacted => []ReplicasAgree
<1>1. ReplicaInv /\ StateMachineSafety => ReplicasAgree
  <2> SUFFICES ASSUME ReplicaInv, StateMachineSafety PROVE ReplicasAgree
    OBVIOUS
  <2>0. TypeInv /\ Recorded /\ NodeCommit /\ MachineInv
    BY DEF ReplicaInv, PlainInv, CommitInv
  <2>1. \A n \in Node : /\ log[n] \in Seq(Entry) /\ commitIndex[n] \in Nat
                        /\ commitIndex[n] <= Len(log[n])
    BY <2>0, NodeTypes, CommitHeld
  <2>2. ASSUME NEW n \in Node
        PROVE  /\ Applied(Held(n), commitIndex[n]) /\ machine[n].lastApplied = commitIndex[n]
               /\ Held(n) = ApplyAll(FreshReplica, Prefix(log[n], commitIndex[n]))
    <3>1. /\ Applied(Held(n), commitIndex[n])
          /\ Held(n) = ApplyAll(FreshReplica, Prefix(log[n], commitIndex[n]))
      BY <2>0, <2>1, ReplayApplied DEF MachineInv
    <3> QED
      BY <3>1 DEF Applied, Held
  <2>3. ASSUME NEW m \in Node, NEW n \in Node, commitIndex[m] <= commitIndex[n]
        PROVE  \A i \in DOMAIN results[m] :
                  i \in DOMAIN results[n] /\ results[n][i] = results[m][i]
    <3> DEFINE a == commitIndex[m]
               b == commitIndex[n]
               lg == log[n]
               rest == SubSeq(lg, a + 1, b)
    <3>1. /\ lg \in Seq(Entry) /\ a \in Nat /\ b \in Nat /\ a <= b /\ b <= Len(lg)
          /\ Prefix(log[m], a) = Prefix(lg, a)
      BY <2>0, <2>1, <2>3, SameReplay
    <3>2. Held(m) = ApplyAll(FreshReplica, Prefix(lg, a)) /\ Applied(Held(m), a)
      BY <2>2, <3>1
    <3>3. Held(n) = ApplyAll(FreshReplica, Prefix(lg, b))
      BY <2>2
    <3> HIDE DEF a, b, lg
    <3>4. ApplyAll(ApplyAll(FreshReplica, SubSeq(lg, 1, a)), rest) = ApplyAll(FreshReplica, SubSeq(lg, 1, b))
      BY <3>1, ReplayOn
    <3>5. Held(n) = ApplyAll(Held(m), rest)
      BY <3>2, <3>3, <3>4 DEF Prefix
    <3>6. rest \in Seq(Entry)
      BY <3>1, Between
    <3> HIDE DEF rest
    <3>7. \A i \in DOMAIN Held(m).results :
             i \in DOMAIN Held(n).results /\ Held(n).results[i] = Held(m).results[i]
      BY <3>1, <3>2, <3>5, <3>6, ReplayAdds
    <3> QED
      BY <3>7 DEF Held
  <2>4. ASSUME NEW m \in Node, NEW n \in Node PROVE commitIndex[m] <= commitIndex[n] \/ commitIndex[n] <= commitIndex[m]
    BY <2>1
  <2>5. ASSUME NEW m \in Node, NEW n \in Node, machine[m].lastApplied = machine[n].lastApplied
        PROVE  Held(m) = Held(n)
    <3>1. commitIndex[m] = commitIndex[n]
      BY <2>2, <2>5
    <3>2. Prefix(log[m], commitIndex[m]) = Prefix(log[n], commitIndex[m])
      BY <2>0, <2>1, <3>1, SameReplay
    <3> QED
      BY <2>2, <3>1, <3>2
  <2> QED
    BY <2>3, <2>4, <2>5 DEF ReplicasAgree
<1> QED
  BY <1>1, SafeReplicas, PTL

=============================================================================
