--------------------------- MODULE FramePathProofs ---------------------------
(* That a frame reads as it was written, and arrives as it was sent, on    *)
(* every way through RedBoxes, for every station frame that fits.          *)
EXTENDS FramePath, SequenceTheorems, TLAPS

(* The codecs of Frames, for frames of every content.                      *)

LEMMA OctetsType ==
    ASSUME NEW w \in Number
    PROVE  /\ Octets(w) \in Frame /\ len(Octets(w)) = 2
           /\ Octets(w)[1] \in Octet /\ Octets(w)[2] \in Octet
           /\ 256 * Octets(w)[1] + Octets(w)[2] = w
<1>. DEFINE q == w \div 256
            r == w % 256
<1>1. q \in Int /\ r \in 0..255 /\ 256 * q + r = w
  BY DEF Number
<1>2. q \in 0..255
  <2>. HIDE DEF q, r
  <2>. QED BY <1>1 DEF Number
<1>3. Octets(w) = <<q, r>>
  BY Zenon DEF Octets
<1>. HIDE DEF q, r
<1>. QED
  BY <1>1, <1>2, <1>3 DEF Octet, Frame, len

LEMMA ExtendedFacts ==
    ASSUME NEW f \in Frame, NEW n \in Nat
    PROVE  /\ Extended(f, n) \in Frame
           /\ len(Extended(f, n)) = IF len(f) < n THEN n ELSE len(f)
           /\ \A i \in 1..len(f) : Extended(f, n)[i] = f[i]
           /\ \A i \in (len(f) + 1)..len(Extended(f, n)) : Extended(f, n)[i] = 0
<1>1. CASE len(f) < n
  <2>1. n - len(f) \in Nat
    BY <1>1 DEF Frame, len
  <2>2. Zeros(n - len(f)) \in Seq(Octet) /\ len(Zeros(n - len(f))) = n - len(f)
    BY <2>1 DEF Zeros, Octet, len
  <2>3. Extended(f, n) = f \o Zeros(n - len(f))
    BY <1>1, Zenon DEF Extended, ++, len
  <2>4. \A i \in 1..(n - len(f)) : Zeros(n - len(f))[i] = 0
    BY Zenon DEF Zeros
  <2>. QED
    BY <1>1, <2>1, <2>2, <2>3, <2>4 DEF Frame, len
<1>2. CASE ~(len(f) < n)
  BY <1>2 DEF Extended, Frame, len
<1>. QED
  BY <1>1, <1>2, Zenon

LEMMA FrameLen == ASSUME NEW f \in Frame PROVE len(f) \in Nat
  BY DEF Frame, len

LEMMA CatLen ==
    ASSUME NEW s \in Frame, NEW t \in Frame
    PROVE  s ++ t \in Frame /\ len(s ++ t) = len(s) + len(t)
  BY DEF Frame, ++, len

LEMMA CatAt ==
    ASSUME NEW s \in Frame, NEW t \in Frame
    PROVE  /\ \A i \in 1..len(s) : (s ++ t)[i] = s[i]
           /\ \A i \in 1..len(t) : (s ++ t)[len(s) + i] = t[i]
  BY DEF Frame, ++, len

LEMMA WordOctets == ASSUME NEW w \in Number PROVE Word(Octets(w), 0) = w
  BY OctetsType DEF Word

LEMMA WordCat ==
    ASSUME NEW s \in Frame, NEW t \in Frame, NEW at \in Nat
    PROVE  /\ at + 2 <= len(s) => Word(s ++ t, at) = Word(s, at)
           /\ at >= len(s) /\ at + 2 <= len(s) + len(t) =>
                  Word(s ++ t, at) = Word(t, at - len(s))
<1>1. len(s) \in Nat /\ len(t) \in Nat
  BY FrameLen, Zenon
<1>2. ASSUME at + 2 <= len(s)
      PROVE  Word(s ++ t, at) = Word(s, at)
  <2>1. at + 1 \in 1..len(s) /\ at + 2 \in 1..len(s)
    BY <1>1, <1>2
  <2>. QED
    BY <2>1, CatAt, Zenon DEF Word
<1>3. ASSUME at >= len(s), at + 2 <= len(s) + len(t)
      PROVE  Word(s ++ t, at) = Word(t, at - len(s))
  <2>. DEFINE off == at - len(s)
  <2>1. off + 1 \in 1..len(t) /\ off + 2 \in 1..len(t)
    BY <1>1, <1>3
  <2>2. at + 1 = len(s) + (off + 1) /\ at + 2 = len(s) + (off + 2)
    BY <1>1
  <2>. HIDE DEF off
  <2>3. (s ++ t)[at + 1] = t[off + 1] /\ (s ++ t)[at + 2] = t[off + 2]
    BY <2>1, <2>2, CatAt
  <2>4. Word(s ++ t, at) = Word(t, off)
    BY <2>3, Zenon DEF Word
  <2>. QED
    BY <2>4, Zenon DEF off
<1>. QED
  BY <1>2, <1>3, Zenon

LEMMA PartCat ==
    ASSUME NEW s \in Frame, NEW t \in Frame
    PROVE  Part(s ++ t, 0, len(s)) = s
  BY DEF Part, Frame, ++, len

LEMMA RCTFacts ==
    ASSUME NEW sno \in Number, NEW side \in {0, 1}, NEW lsdu \in Nat, lsdu < Nibble
    PROVE  /\ RCT(sno, side, lsdu) \in Frame /\ len(RCT(sno, side, lsdu)) = 6
           /\ Word(RCT(sno, side, lsdu), 0) = sno
           /\ Word(RCT(sno, side, lsdu), 2) = Nibble * (10 + side) + lsdu
           /\ Word(RCT(sno, side, lsdu), 4) = PRPSuffix
<1>. DEFINE w == Nibble * (10 + side) + lsdu
            a == Octets(sno)
            b == Octets(w)
            c == Octets(PRPSuffix)
<1>1. lsdu % Nibble = lsdu /\ w \in Number
  BY DEF Number, Nibble
<1>2. PRPSuffix \in Number
  BY DEF PRPSuffix, Number
<1>3. RCT(sno, side, lsdu) = (a ++ b) ++ c
  BY <1>1, Zenon DEF RCT
<1>4. /\ a \in Frame /\ b \in Frame /\ c \in Frame
      /\ len(a) = 2 /\ len(b) = 2 /\ len(c) = 2
      /\ Word(a, 0) = sno /\ Word(b, 0) = w /\ Word(c, 0) = PRPSuffix
  BY <1>1, <1>2, OctetsType, WordOctets, Zenon
<1>. HIDE DEF w, a, b, c
<1>5. a ++ b \in Frame /\ len(a ++ b) = 4
  BY <1>4, CatLen, FrameLen
<1>6. Word(a ++ b, 0) = sno /\ Word(a ++ b, 2) = w
  BY <1>4, WordCat, FrameLen
<1>7. (a ++ b) ++ c \in Frame /\ len((a ++ b) ++ c) = 6
  BY <1>4, <1>5, CatLen, FrameLen
<1>8. /\ Word((a ++ b) ++ c, 0) = sno /\ Word((a ++ b) ++ c, 2) = w
      /\ Word((a ++ b) ++ c, 4) = PRPSuffix
  BY <1>4, <1>5, <1>6, WordCat, FrameLen
<1>. QED
  BY <1>3, <1>7, <1>8, Zenon DEF w

LEMMA PaddedFacts ==
    ASSUME NEW f \in Frame, len(f) >= 14
    PROVE  /\ Padded(f) \in Frame
           /\ len(Padded(f)) \in Nat /\ len(Padded(f)) >= 60 /\ len(Padded(f)) >= len(f)
           /\ len(f) >= 64 => Padded(f) = f
           /\ len(f) < 64 => len(Padded(f)) <= 64
           /\ \A i \in 1..len(f) : Padded(f)[i] = f[i]
           /\ Word(Padded(f), 12) = Word(f, 12)
<1>1. len(f) \in Nat
  BY FrameLen, Zenon
<1>2. /\ Padded(f) \in Frame
      /\ len(Padded(f)) \in Nat /\ len(Padded(f)) >= 60 /\ len(Padded(f)) >= len(f)
      /\ len(f) < 64 => len(Padded(f)) <= 64
      /\ \A i \in 1..len(f) : Padded(f)[i] = f[i]
  <2>1. PICK m \in {60, 64} : Padded(f) = Extended(f, m)
    BY Zenon DEF Padded
  <2>2. m \in Nat
    BY <2>1
  <2>3. /\ Extended(f, m) \in Frame
        /\ len(Extended(f, m)) = IF len(f) < m THEN m ELSE len(f)
        /\ \A i \in 1..len(f) : Extended(f, m)[i] = f[i]
    BY <2>2, ExtendedFacts
  <2>4. len(Extended(f, m)) \in Nat
    BY <2>3, FrameLen, Zenon
  <2>. QED
    BY <1>1, <2>1, <2>3, <2>4
<1>3. len(f) >= 64 => Padded(f) = f
  BY <1>1 DEF Padded, Extended
<1>4. 13 \in 1..len(f) /\ 14 \in 1..len(f)
  BY <1>1
<1>. QED
  BY <1>2, <1>3, <1>4 DEF Word

(* EncodeRCT and DecodeRCT are inverse: the receiver of a frame that       *)
(* EncodeRCT made finds the trailer valid, reads the LAN and the sequence  *)
(* number that were written, and is left with the padded frame. This holds *)
(* for every frame of an Ethernet header or more whose LSDU size fits its  *)
(* twelve bits.                                                            *)
THEOREM RCTRoundTrip ==
    ASSUME NEW f \in Frame, len(f) >= 14, len(f) < Nibble,
           NEW sno \in Number, NEW side \in {0, 1}
    PROVE  /\ IsPRPFrame(EncodeRCT(f, sno, side))
           /\ RCTLan(EncodeRCT(f, sno, side)) = side
           /\ RCTSeq(EncodeRCT(f, sno, side)) = sno
           /\ WithoutRCT(EncodeRCT(f, sno, side)) = Padded(f)
<1>1. PICK p \in Frame : p = Padded(f)
  BY PaddedFacts, Zenon
<1>2. /\ len(f) \in Nat /\ len(p) \in Nat /\ len(p) >= 60 /\ len(p) < Nibble
      /\ Word(p, 12) = Word(f, 12)
  <2>1. len(f) \in Nat
    BY FrameLen, Zenon
  <2>. QED
    BY <1>1, <2>1, PaddedFacts DEF Nibble
<1>3. PICK tag \in {0, 4} : tag = TagLen(f)
  BY Zenon DEF TagLen
<1>4. PICK lsdu \in Nat : lsdu = len(p) + RCTLen - 14 - tag
  <2>1. len(p) + RCTLen - 14 - tag \in Nat
    BY <1>2 DEF RCTLen
  <2>. QED
    BY <2>1, Zenon
<1>5. lsdu < Nibble /\ lsdu = len(p) + 6 - 14 - tag
  BY <1>2, <1>4 DEF RCTLen, Nibble
<1>6. PICK r \in Frame : r = RCT(sno, side, lsdu)
  BY <1>5, RCTFacts, Zenon
<1>7. /\ len(r) = 6 /\ Word(r, 0) = sno
      /\ Word(r, 2) = Nibble * (10 + side) + lsdu /\ Word(r, 4) = PRPSuffix
  BY <1>5, <1>6, RCTFacts
<1>8. EncodeRCT(f, sno, side) = p ++ r
  BY <1>1, <1>3, <1>4, <1>6, Zenon DEF EncodeRCT
<1>9. /\ len(p ++ r) = len(p) + 6
      /\ Word(p ++ r, 12) = Word(f, 12)
      /\ Part(p ++ r, 0, len(p)) = p
  BY <1>2, <1>7, CatLen, WordCat, FrameLen, PartCat
<1>10. TagLen(p ++ r) = tag
  BY <1>2, <1>3, <1>9 DEF TagLen, IsVLANFrame
<1>11. /\ Word(p ++ r, len(p)) = sno
       /\ Word(p ++ r, len(p) + 2) = Nibble * (10 + side) + lsdu
       /\ Word(p ++ r, len(p) + 4) = PRPSuffix
  BY <1>2, <1>7, WordCat, FrameLen
<1>12. /\ (Nibble * (10 + side) + lsdu) % Nibble = lsdu
       /\ ((Nibble * (10 + side) + lsdu) \div Nibble) % 2 = side
  BY <1>5 DEF Nibble
<1>13. /\ len(p ++ r) - 6 = len(p) /\ len(p ++ r) - 4 = len(p) + 2
       /\ len(p ++ r) - 2 = len(p) + 4 /\ len(p ++ r) >= 20
       /\ lsdu = len(p ++ r) - 14 - tag
  BY <1>2, <1>5, <1>9
<1>14. IsPRPFrame(p ++ r)
  BY <1>10, <1>11, <1>12, <1>13 DEF IsPRPFrame, RCTLen
<1>15. RCTLan(p ++ r) = side /\ RCTSeq(p ++ r) = sno
  BY <1>11, <1>12, <1>13, Zenon DEF RCTLan, RCTSeq
<1>16. WithoutRCT(p ++ r) = p
  BY <1>9, <1>13, Zenon DEF WithoutRCT, RCTLen
<1>. QED
  BY <1>1, <1>8, <1>14, <1>15, <1>16, Zenon

-----------------------------------------------------------------------------
(* The HSR tag. *)

LEMMA PartType ==
    ASSUME NEW f \in Frame, NEW a \in Nat, NEW b \in Nat, a <= b, b <= len(f)
    PROVE  Part(f, a, b) \in Frame /\ len(Part(f, a, b)) = b - a
  BY DEF Part, Frame, len

LEMMA PartAt ==
    ASSUME NEW f \in Frame, NEW a \in Nat, NEW b \in Nat, a <= b, b <= len(f),
           NEW i \in 1..(b - a)
    PROVE  Part(f, a, b)[i] = f[a + i]
  BY DEF Part, Frame, len

(* Two frames of the same length are equal if their octets are. *)
LEMMA FrameEqual ==
    ASSUME NEW f \in Frame, NEW g \in Frame, len(f) = len(g),
           \A i \in 1..len(f) : f[i] = g[i]
    PROVE  f = g
  BY DEF Frame, len

LEMMA PartsJoin ==
    ASSUME NEW f \in Frame, NEW a \in Nat, NEW b \in Nat, NEW c \in Nat,
           a <= b, b <= c, c <= len(f)
    PROVE  Part(f, a, b) ++ Part(f, b, c) = Part(f, a, c)
<1>. DEFINE l == Part(f, a, b)
            r == Part(f, b, c)
            p == Part(f, a, c)
<1>1. /\ l \in Frame /\ len(l) = b - a /\ r \in Frame /\ len(r) = c - b
      /\ p \in Frame /\ len(p) = c - a /\ len(f) \in Nat
  BY PartType, FrameLen
<1>2. l ++ r \in Frame /\ len(l ++ r) = c - a
  <2>. HIDE DEF l, r, p
  <2>. QED BY <1>1, CatLen
<1>3. ASSUME NEW i \in 1..(c - a) PROVE (l ++ r)[i] = p[i]
  <2>1. p[i] = f[a + i]
    BY <1>1, PartAt
  <2>2. CASE i <= b - a
    <3>1. i \in 1..(b - a) /\ i \in 1..len(l)
      BY <1>1, <2>2
    <3>2. l[i] = f[a + i]
      BY <1>1, <3>1, PartAt
    <3>3. (l ++ r)[i] = l[i]
      <4>. HIDE DEF l, r, p
      <4>. QED BY <1>1, <3>1, CatAt, Zenon
    <3>. QED BY <2>1, <3>2, <3>3, Zenon
  <2>3. CASE i > b - a
    <3>1. PICK j \in 1..(c - b) : i = (b - a) + j
      <4>1. i - (b - a) \in 1..(c - b) /\ i = (b - a) + (i - (b - a))
        BY <2>3
      <4>. QED BY <4>1, Zenon
    <3>2. r[j] = f[b + j]
      BY <1>1, <3>1, PartAt, Zenon
    <3>3. (l ++ r)[len(l) + j] = r[j]
      <4>1. j \in 1..len(r)
        BY <1>1, Zenon
      <4>. HIDE DEF l, r, p
      <4>. QED BY <1>1, <4>1, CatAt, Zenon
    <3>4. len(l) + j = i /\ b + j = a + i
      BY <1>1, <3>1
    <3>. QED BY <2>1, <3>2, <3>3, <3>4, Zenon
  <2>. QED BY <2>2, <2>3
<1>. HIDE DEF l, r, p
<1>4. l ++ r = p
  BY <1>1, <1>2, <1>3, FrameEqual, Zenon
<1>. QED
  BY <1>4, Zenon DEF l, r, p

LEMMA WholePart == ASSUME NEW f \in Frame PROVE Part(f, 0, len(f)) = f
  BY DEF Part, Frame, len

LEMMA PartOfCat ==
    ASSUME NEW s \in Frame, NEW t \in Frame, NEW a \in Nat, NEW b \in Nat,
           a <= b, b <= len(t)
    PROVE  Part(s ++ t, len(s) + a, len(s) + b) = Part(t, a, b)
<1>. DEFINE p == Part(s ++ t, len(s) + a, len(s) + b)
            q == Part(t, a, b)
<1>1. len(s) \in Nat /\ len(t) \in Nat /\ s ++ t \in Frame /\ len(s ++ t) = len(s) + len(t)
  BY CatLen, FrameLen, Zenon
<1>2. len(s) + a \in Nat /\ len(s) + b \in Nat /\ len(s) + b <= len(s ++ t)
  BY <1>1
<1>3. /\ p \in Frame /\ len(p) = (len(s) + b) - (len(s) + a)
      /\ q \in Frame /\ len(q) = b - a
  BY <1>1, <1>2, PartType
<1>4. len(p) = b - a
  BY <1>1, <1>3
<1>5. ASSUME NEW i \in 1..(b - a) PROVE p[i] = q[i]
  <2>1. q[i] = t[a + i]
    BY PartAt, Zenon
  <2>2. p[i] = (s ++ t)[(len(s) + a) + i]
    <3>1. i \in 1..((len(s) + b) - (len(s) + a))
      BY <1>1
    <3>. QED BY <1>1, <1>2, <3>1, PartAt
  <2>3. (s ++ t)[len(s) + (a + i)] = t[a + i]
    <3>1. a + i \in 1..len(t)
      BY <1>1
    <3>. QED BY <3>1, CatAt, Zenon
  <2>4. (len(s) + a) + i = len(s) + (a + i)
    BY <1>1
  <2>. QED BY <2>1, <2>2, <2>3, <2>4, Zenon
<1>. HIDE DEF p, q
<1>6. p = q
  BY <1>3, <1>4, <1>5, FrameEqual, Zenon
<1>. QED BY <1>6, Zenon DEF p, q

LEMMA PartOfLeft ==
    ASSUME NEW s \in Frame, NEW t \in Frame, NEW a \in Nat, NEW b \in Nat,
           a <= b, b <= len(s)
    PROVE  Part(s ++ t, a, b) = Part(s, a, b)
<1>. DEFINE p == Part(s ++ t, a, b)
            q == Part(s, a, b)
<1>1. len(s) \in Nat /\ len(t) \in Nat /\ s ++ t \in Frame /\ len(s ++ t) = len(s) + len(t)
  BY CatLen, FrameLen, Zenon
<1>2. b <= len(s ++ t)
  BY <1>1
<1>3. p \in Frame /\ len(p) = b - a /\ q \in Frame /\ len(q) = b - a
  BY <1>1, <1>2, PartType, Zenon
<1>4. ASSUME NEW i \in 1..(b - a) PROVE p[i] = q[i]
  <2>1. q[i] = s[a + i]
    BY PartAt, Zenon
  <2>2. p[i] = (s ++ t)[a + i]
    BY <1>1, <1>2, PartAt, Zenon
  <2>3. (s ++ t)[a + i] = s[a + i]
    <3>1. a + i \in 1..len(s)
      BY <1>1
    <3>. QED BY <3>1, CatAt, Zenon
  <2>. QED BY <2>1, <2>2, <2>3, Zenon
<1>. HIDE DEF p, q
<1>5. p = q
  BY <1>3, <1>4, FrameEqual, Zenon
<1>. QED BY <1>5, Zenon DEF p, q

LEMMA OctetsOfWord ==
    ASSUME NEW f \in Frame, NEW off \in Nat, off + 2 <= len(f)
    PROVE  Word(f, off) \in Number /\ Octets(Word(f, off)) = Part(f, off, off + 2)
<1>1. len(f) \in Nat /\ off + 1 \in 1..len(f) /\ off + 2 \in 1..len(f)
  BY FrameLen
<1>2. PICK x \in Octet, y \in Octet : f[off + 1] = x /\ f[off + 2] = y
  BY <1>1 DEF Frame, len
<1>3. Word(f, off) = 256 * x + y
  BY <1>2, Zenon DEF Word
<1>4. /\ 256 * x + y \in Number
      /\ (256 * x + y) \div 256 = x /\ (256 * x + y) % 256 = y
  BY DEF Octet, Number
<1>5. Octets(Word(f, off)) = <<x, y>>
  BY <1>3, <1>4, Zenon DEF Octets
<1>. DEFINE p == Part(f, off, off + 2)
            q == <<x, y>>
<1>6. p \in Frame /\ len(p) = 2
  BY <1>1, PartType
<1>7. q \in Frame /\ len(q) = 2 /\ q[1] = x /\ q[2] = y
  BY DEF Frame, len
<1>8. p[1] = x /\ p[2] = y
  BY <1>1, <1>2, PartAt
<1>9. \A i \in 1..2 : p[i] = q[i]
  BY <1>7, <1>8
<1>. HIDE DEF p, q
<1>10. p = q
  BY <1>6, <1>7, <1>9, FrameEqual, Zenon
<1>. QED
  BY <1>3, <1>4, <1>5, <1>10, Zenon DEF p, q

LEMMA CatAssoc ==
    ASSUME NEW a \in Frame, NEW b \in Frame, NEW c \in Frame
    PROVE  (a ++ b) ++ c = a ++ (b ++ c)
  BY DEF Frame, ++

(* A frame that carries no second VLAN tag: the word before the place of   *)
(* the HSR tag is its EtherType.                                           *)
LEMMA SingleTagType ==
    ASSUME NEW f \in Frame, len(f) >= hsrTagOffset(f),
           Word(f, hsrTagOffset(f) - 2) \notin TPIDs
    PROVE  GetEtherType(f) = Word(f, hsrTagOffset(f) - 2)
<1>. DEFINE AfterTags(k) == len(f) < 14 + 4 * k \/ Word(f, 12 + 4 * k) \notin TPIDs
            Is(k) == AfterTags(k) /\ \A j \in 0..(k - 1) : ~AfterTags(j)
            tags == CHOOSE k \in 0..len(f) : Is(k)
<1>1. len(f) \in Nat
  BY FrameLen, Zenon
<1>2. PICK t \in {0, 1} : hsrTagOffset(f) = 14 + 4 * t /\ t \in 0..len(f)
                          /\ (t = 1 => Word(f, 12) \in TPIDs)
  <2>1. CASE IsVLANFrame(f)
    <3>1. hsrTagOffset(f) = 18 /\ Word(f, 12) \in TPIDs
      BY <2>1 DEF hsrTagOffset, TagLen, IsVLANFrame
    <3>2. 1 \in {0, 1} /\ 18 = 14 + 4 * 1 /\ 1 \in 0..len(f)
      BY <1>1, <3>1
    <3>. QED BY <3>1, <3>2, Zenon
  <2>2. CASE ~IsVLANFrame(f)
    <3>1. hsrTagOffset(f) = 14
      BY <2>2 DEF hsrTagOffset, TagLen
    <3>2. 0 \in {0, 1} /\ 14 = 14 + 4 * 0 /\ 0 \in 0..len(f)
      BY <1>1
    <3>. QED BY <3>1, <3>2
  <2>. QED BY <2>1, <2>2, Zenon
<1>3. Is(t)
  <2>1. AfterTags(t)
    <3>1. 12 + 4 * t = hsrTagOffset(f) - 2
      BY <1>2
    <3>. QED BY <3>1, Zenon
  <2>2. ASSUME NEW j \in 0..(t - 1) PROVE ~AfterTags(j)
    <3>1. j = 0 /\ t = 1
      BY <1>2
    <3>2. 14 + 4 * j = 14 /\ 12 + 4 * j = 12 /\ ~(len(f) < 14)
      BY <1>1, <1>2, <3>1
    <3>. QED BY <1>2, <3>1, <3>2, Zenon
  <2>. QED BY <2>1, <2>2, Zenon
<1>4. \A k \in 0..len(f) : Is(k) => k = t
  <2>. SUFFICES ASSUME NEW k \in 0..len(f), Is(k), k # t PROVE FALSE
    BY Zenon
  <2>1. k \in Int /\ t \in Int
    BY <1>1, <1>2
  <2>2. CASE k < t
    <3>1. k \in 0..(t - 1)
      BY <1>1, <1>2, <2>1, <2>2
    <3>2. ~AfterTags(k)
      BY <1>3, <3>1, Zenon
    <3>. HIDE DEF AfterTags
    <3>. QED BY <3>2, Zenon
  <2>3. CASE t < k
    <3>1. t \in 0..(k - 1)
      BY <1>1, <1>2, <2>1, <2>3
    <3>2. ~AfterTags(t)
      BY <3>1, Zenon
    <3>3. AfterTags(t)
      BY <1>3, Zenon
    <3>. HIDE DEF AfterTags
    <3>. QED BY <3>2, <3>3, Zenon
  <2>. QED BY <2>1, <2>2, <2>3
<1>5. tags = t
  <2>. HIDE DEF Is
  <2>. QED BY <1>2, <1>3, <1>4, Zenon
<1>6. GetEtherType(f) = IF len(f) < 14 + 4 * tags THEN 0 ELSE Word(f, 12 + 4 * tags)
  BY Zenon DEF GetEtherType
<1>7. ~(len(f) < 14 + 4 * t) /\ 12 + 4 * t = hsrTagOffset(f) - 2
  BY <1>1, <1>2
<1>. HIDE DEF tags
<1>. QED BY <1>5, <1>6, <1>7, Zenon

(* What EncodeHSR puts before the payload. *)
HSRHead(pid, sno, encap, lsdu) ==
    Octets(HSREtherType) ++ Octets(Nibble * pid + lsdu) ++ Octets(sno) ++ Octets(encap)

LEMMA HSRHeadFacts ==
    ASSUME NEW pid \in 0..15, NEW sno \in Number, NEW encap \in Number,
           NEW lsdu \in Nat, lsdu < Nibble
    PROVE  LET t == HSRHead(pid, sno, encap, lsdu)
           IN  /\ t \in Frame /\ len(t) = 8
               /\ Word(t, 0) = HSREtherType /\ Word(t, 2) = Nibble * pid + lsdu
               /\ Word(t, 4) = sno /\ Word(t, 6) = encap
<1>. DEFINE w == Nibble * pid + lsdu
            a == Octets(HSREtherType)
            b == Octets(w)
            c == Octets(sno)
            d == Octets(encap)
<1>1. w \in Number
  BY DEF Number, Nibble
<1>2. HSREtherType \in Number
  BY DEF HSREtherType, Number
<1>3. /\ a \in Frame /\ b \in Frame /\ c \in Frame /\ d \in Frame
      /\ len(a) = 2 /\ len(b) = 2 /\ len(c) = 2 /\ len(d) = 2
      /\ Word(a, 0) = HSREtherType /\ Word(b, 0) = w /\ Word(c, 0) = sno /\ Word(d, 0) = encap
  BY <1>1, <1>2, OctetsType, WordOctets, Zenon
<1>4. HSRHead(pid, sno, encap, lsdu) = ((a ++ b) ++ c) ++ d
  BY Zenon DEF HSRHead
<1>. HIDE DEF w, a, b, c, d
<1>5. /\ a ++ b \in Frame /\ len(a ++ b) = 4
      /\ Word(a ++ b, 0) = HSREtherType /\ Word(a ++ b, 2) = w
  <2>1. a ++ b \in Frame /\ len(a ++ b) = 4
    BY <1>3, CatLen
  <2>2. Word(a ++ b, 0) = HSREtherType /\ Word(a ++ b, 2) = w
    BY <1>3, WordCat
  <2>. QED BY <2>1, <2>2, Zenon
<1>6. /\ (a ++ b) ++ c \in Frame /\ len((a ++ b) ++ c) = 6
      /\ Word((a ++ b) ++ c, 0) = HSREtherType /\ Word((a ++ b) ++ c, 2) = w
      /\ Word((a ++ b) ++ c, 4) = sno
  BY <1>3, <1>5, CatLen, WordCat
<1>7. /\ ((a ++ b) ++ c) ++ d \in Frame /\ len(((a ++ b) ++ c) ++ d) = 8
      /\ Word(((a ++ b) ++ c) ++ d, 0) = HSREtherType /\ Word(((a ++ b) ++ c) ++ d, 2) = w
      /\ Word(((a ++ b) ++ c) ++ d, 4) = sno /\ Word(((a ++ b) ++ c) ++ d, 6) = encap
  BY <1>3, <1>6, CatLen, WordCat
<1>. QED
  BY <1>4, <1>7, Zenon DEF w

(* A frame on the ring: header h, the tag, the payload, and octets z that  *)
(* the wire may have added.                                                *)
OnRing(h, pid, sno, encap, payload, z) ==
    (h ++ (HSRHead(pid, sno, encap, HSRTagLen + len(payload)) ++ payload)) ++ z

(* h is two addresses, or two addresses and one VLAN tag. *)
Header(h) ==
    h \in Frame /\ (len(h) = 12 \/ (len(h) = 16 /\ Word(h, 12) \in TPIDs))

LEMMA OnRingFacts ==
    ASSUME NEW h, Header(h), NEW pid \in 0..15, NEW sno \in Number, NEW encap \in Number,
           NEW payload \in Frame, HSRTagLen + len(payload) < Nibble, NEW z \in Frame
    PROVE  LET g == OnRing(h, pid, sno, encap, payload, z)
           IN  /\ g \in Frame /\ hsrTagOffset(g) = len(h) + 2
               /\ HSRDecodes(g)
               /\ HSRPath(g) = pid /\ HSRSeq(g) = sno /\ HSREncap(g) = encap
               /\ HSRPayload(g) = payload /\ Part(g, 0, len(h)) = h
<1>. DEFINE lsdu == HSRTagLen + len(payload)
            t == HSRHead(pid, sno, encap, lsdu)
            tp == t ++ payload
            b == h ++ tp
            g == b ++ z
<1>1. h \in Frame /\ len(h) \in Nat /\ len(payload) \in Nat /\ len(z) \in Nat
  BY FrameLen, Zenon DEF Header
<1>2. lsdu \in Nat /\ lsdu < Nibble /\ lsdu = 6 + len(payload)
  BY <1>1 DEF HSRTagLen
<1>3. /\ t \in Frame /\ len(t) = 8
      /\ Word(t, 0) = HSREtherType /\ Word(t, 2) = Nibble * pid + lsdu
      /\ Word(t, 4) = sno /\ Word(t, 6) = encap
  <2>. HIDE DEF lsdu
  <2>. QED BY <1>2, HSRHeadFacts
<1>4. OnRing(h, pid, sno, encap, payload, z) = g
  BY Zenon DEF OnRing
<1>. HIDE DEF t, lsdu
<1>5. /\ tp \in Frame /\ len(tp) = 8 + len(payload)
      /\ Word(tp, 0) = HSREtherType /\ Word(tp, 2) = Nibble * pid + lsdu
      /\ Word(tp, 4) = sno /\ Word(tp, 6) = encap
      /\ Part(tp, 8, 8 + len(payload)) = payload
  <2>1. tp \in Frame /\ len(tp) = 8 + len(payload)
    BY <1>3, CatLen, Zenon
  <2>2. /\ Word(tp, 0) = HSREtherType /\ Word(tp, 2) = Nibble * pid + lsdu
        /\ Word(tp, 4) = sno /\ Word(tp, 6) = encap
    BY <1>1, <1>3, WordCat
  <2>3. Part(tp, len(t) + 0, len(t) + len(payload)) = Part(payload, 0, len(payload))
    BY <1>1, <1>3, PartOfCat
  <2>4. Part(payload, 0, len(payload)) = payload
    BY WholePart, Zenon
  <2>5. len(t) + 0 = 8 /\ len(t) + len(payload) = 8 + len(payload)
    BY <1>1, <1>3
  <2>. QED BY <2>1, <2>2, <2>3, <2>4, <2>5, Zenon
<1>. HIDE DEF tp
<1>6. /\ b \in Frame /\ len(b) = len(h) + 8 + len(payload)
      /\ Word(b, len(h)) = HSREtherType /\ Word(b, len(h) + 2) = Nibble * pid + lsdu
      /\ Word(b, len(h) + 4) = sno /\ Word(b, len(h) + 6) = encap
      /\ Part(b, len(h) + 8, len(h) + (8 + len(payload))) = payload
      /\ Part(b, 0, len(h)) = h
      /\ len(h) >= 14 => Word(b, 12) = Word(h, 12)
  <2>1. b \in Frame /\ len(b) = len(h) + 8 + len(payload)
    BY <1>1, <1>5, CatLen
  <2>2. /\ Word(b, len(h)) = HSREtherType /\ Word(b, len(h) + 2) = Nibble * pid + lsdu
        /\ Word(b, len(h) + 4) = sno /\ Word(b, len(h) + 6) = encap
    <3>1. ASSUME NEW k \in {0, 2, 4, 6} PROVE Word(b, len(h) + k) = Word(tp, k)
      <4>1. /\ len(h) + k \in Nat /\ len(h) + k >= len(h) /\ (len(h) + k) - len(h) = k
            /\ len(h) + k + 2 <= len(h) + len(tp)
        BY <1>1, <1>5
      <4>. QED BY <1>1, <1>5, <4>1, WordCat
    <3>2. len(h) + 0 = len(h)
      BY <1>1
    <3>. QED BY <1>5, <3>1, <3>2, Zenon
  <2>3. Part(b, len(h) + 8, len(h) + (8 + len(payload))) = Part(tp, 8, 8 + len(payload))
    BY <1>1, <1>5, PartOfCat
  <2>4. Part(b, 0, len(h)) = h
    BY <1>1, <1>5, PartCat, Zenon
  <2>5. len(h) >= 14 => Word(b, 12) = Word(h, 12)
    BY <1>1, <1>5, WordCat
  <2>. QED BY <1>5, <2>1, <2>2, <2>3, <2>4, <2>5, Zenon
<1>. HIDE DEF b
<1>7. g \in Frame /\ len(g) = len(h) + 8 + len(payload) + len(z)
  BY <1>1, <1>6, CatLen
<1>8. /\ Word(g, len(h)) = HSREtherType /\ Word(g, len(h) + 2) = Nibble * pid + lsdu
      /\ Word(g, len(h) + 4) = sno /\ Word(g, len(h) + 6) = encap
      /\ len(h) >= 14 => Word(g, 12) = Word(h, 12)
  BY <1>1, <1>6, WordCat
<1>9. Part(g, len(h) + 8, len(h) + (8 + len(payload))) = payload
  <2>1. Part(g, len(h) + 8, len(h) + (8 + len(payload)))
          = Part(b, len(h) + 8, len(h) + (8 + len(payload)))
    BY <1>1, <1>6, PartOfLeft
  <2>. QED BY <1>6, <2>1, Zenon
<1>10. Part(g, 0, len(h)) = h
  <2>1. Part(g, 0, len(h)) = Part(b, 0, len(h))
    BY <1>1, <1>6, PartOfLeft
  <2>. QED BY <1>6, <2>1, Zenon
<1>. HIDE DEF g
<1>11. hsrTagOffset(g) = len(h) + 2
  <2>1. CASE len(h) = 12
    <3>1. Word(g, 12) = HSREtherType
      BY <1>8, <2>1, Zenon
    <3>2. HSREtherType \notin TPIDs
      BY DEF HSREtherType, TPIDs, C_VLAN, S_VLAN
    <3>. QED BY <2>1, <3>1, <3>2 DEF hsrTagOffset, TagLen, IsVLANFrame
  <2>2. CASE len(h) = 16 /\ Word(h, 12) \in TPIDs
    <3>1. Word(g, 12) \in TPIDs /\ len(g) >= 14
      BY <1>1, <1>7, <1>8, <2>2
    <3>. QED BY <2>2, <3>1 DEF hsrTagOffset, TagLen, IsVLANFrame
  <2>. QED BY <2>1, <2>2, Zenon DEF Header
<1>12. (Nibble * pid + lsdu) % Nibble = lsdu /\ (Nibble * pid + lsdu) \div Nibble = pid
  BY <1>2 DEF Nibble
<1>13. HSRLsdu(g) = lsdu
  BY <1>8, <1>11, <1>12, Zenon DEF HSRLsdu
<1>14. HSRDecodes(g)
  <2>1. len(g) >= len(h) + 2 + 6 /\ lsdu \in 6..(len(g) - (len(h) + 2))
    BY <1>1, <1>2, <1>7
  <2>2. HasHSRTag(g)
    <3>1. Word(g, hsrTagOffset(g) - 2) = HSREtherType
      <4>1. hsrTagOffset(g) - 2 = len(h)
        BY <1>1, <1>11
      <4>. QED BY <1>8, <4>1, Zenon
    <3>. QED BY <1>1, <1>11, <2>1, <3>1, Zenon DEF HasHSRTag, HSRTagLen
  <2>. QED BY <1>11, <1>13, <2>1, <2>2, Zenon DEF HSRDecodes, HSRTagLen
<1>15. HSRPath(g) = pid
  BY <1>8, <1>11, <1>12, Zenon DEF HSRPath
<1>16. HSRSeq(g) = sno /\ HSREncap(g) = encap
  <2>1. len(h) + 2 + 2 = len(h) + 4 /\ len(h) + 2 + 4 = len(h) + 6
    BY <1>1
  <2>. QED BY <1>8, <1>11, <2>1, Zenon DEF HSRSeq, HSREncap
<1>17. HSRPayload(g) = payload
  <2>1. len(h) + 2 + 6 = len(h) + 8 /\ len(h) + 2 + lsdu = len(h) + (8 + len(payload))
    BY <1>1, <1>2
  <2>. QED BY <1>9, <1>11, <1>13, <2>1, Zenon DEF HSRPayload, HSRTagLen
<1>. QED
  BY <1>4, <1>7, <1>10, <1>11, <1>14, <1>15, <1>16, <1>17, Zenon

LEMMA HeaderOf ==
    ASSUME NEW f \in Frame, len(f) >= hsrTagOffset(f)
    PROVE  LET h == Part(f, 0, hsrTagOffset(f) - 2)
           IN  Header(h) /\ len(h) = hsrTagOffset(f) - 2
<1>. DEFINE off == hsrTagOffset(f) - 2
            h == Part(f, 0, off)
<1>1. /\ len(f) \in Nat /\ off \in Nat /\ off + 2 = hsrTagOffset(f) /\ off <= len(f)
      /\ off = 12 \/ (off = 16 /\ Word(f, 12) \in TPIDs)
  BY FrameLen DEF hsrTagOffset, TagLen, IsVLANFrame
<1>2. h \in Frame /\ len(h) = off
  BY <1>1, PartType
<1>3. ASSUME off = 16 PROVE Word(h, 12) = Word(f, 12)
  <2>1. h[13] = f[13] /\ h[14] = f[14]
    BY <1>1, <1>3, PartAt
  <2>. QED BY <2>1 DEF Word
<1>. QED
  BY <1>1, <1>2, <1>3, Zenon DEF Header

(* handleHSRInterlinkFrame, DecodeHSR and StripHSR: a frame without a      *)
(* second VLAN tag that is put on a ring decodes there with the PathId,    *)
(* the number and the EtherType it was given, and stripping the tag gives  *)
(* the frame back octet for octet, whatever padding z the wire appended.   *)
(* The premise on the word before the payload is needed: of a frame with   *)
(* two VLAN tags GetEtherType skips both, hsrTagOffset only one.           *)
THEOREM HSRRoundTrip ==
    ASSUME NEW f \in Frame, len(f) >= hsrTagOffset(f), len(f) < Nibble,
           Word(f, hsrTagOffset(f) - 2) \notin TPIDs,
           NEW pid \in 0..15, NEW sno \in Number, NEW z \in Frame
    PROVE  LET g == Injected(f, pid, sno) ++ z
           IN  /\ HSRDecodes(g) /\ HSRPath(g) = pid /\ HSRSeq(g) = sno
               /\ HSREncap(g) = GetEtherType(f)
               /\ StripHSR(g) = f
<1>. DEFINE off == hsrTagOffset(f)
            h == Part(f, 0, off - 2)
            e == GetEtherType(f)
            body == Part(f, off, len(f))
            g == Injected(f, pid, sno) ++ z
<1>1. /\ len(f) \in Nat /\ off \in Nat /\ off >= 14 /\ off - 2 \in Nat /\ off <= len(f)
      /\ (off - 2) + 2 = off
  BY FrameLen DEF hsrTagOffset, TagLen
<1>2. Header(h) /\ len(h) = off - 2
  BY HeaderOf, Zenon
<1>3. body \in Frame /\ len(body) = len(f) - off
  BY <1>1, PartType
<1>4. HSRTagLen + len(body) \in Nat /\ HSRTagLen + len(body) < Nibble
  BY <1>1, <1>3 DEF HSRTagLen, Nibble
<1>5. e = Word(f, off - 2)
  BY SingleTagType, Zenon
<1>6. e \in Number /\ Octets(e) = Part(f, off - 2, off)
  <2>1. (off - 2) + 2 <= len(f)
    BY <1>1, Zenon
  <2>2. /\ Word(f, off - 2) \in Number
        /\ Octets(Word(f, off - 2)) = Part(f, off - 2, (off - 2) + 2)
    <3>. HIDE DEF off
    <3>. QED BY <1>1, <2>1, OctetsOfWord, Zenon
  <2>. QED BY <1>1, <1>5, <2>2, Zenon
<1>7. g = OnRing(h, pid, sno, e, body, z)
  <2>1. pid % 16 = pid
    OBVIOUS
  <2>2. (HSRTagLen + len(body)) % Nibble = HSRTagLen + len(body)
    BY <1>4 DEF Nibble
  <2>3. Injected(f, pid, sno) = h ++ EncodeHSR(body, pid, sno, e)
    BY Zenon DEF Injected
  <2>4. EncodeHSR(body, pid, sno, e)
          = HSRHead(pid, sno, e, HSRTagLen + len(body)) ++ body
    <3>. HIDE DEF body, e
    <3>. QED BY <2>1, <2>2, Zenon DEF EncodeHSR, HSRHead
  <2>. QED BY <2>3, <2>4, Zenon DEF OnRing
<1>. HIDE DEF h, e, body, g, off
<1>8. /\ hsrTagOffset(g) = len(h) + 2 /\ HSRDecodes(g)
      /\ HSRPath(g) = pid /\ HSRSeq(g) = sno /\ HSREncap(g) = e
      /\ HSRPayload(g) = body /\ Part(g, 0, len(h)) = h
  BY <1>2, <1>3, <1>4, <1>6, <1>7, OnRingFacts
<1>9. StripHSR(g) = (h ++ Octets(e)) ++ body
  <2>1. hsrTagOffset(g) - 2 = len(h)
    BY <1>1, <1>2, <1>8, Zenon
  <2>. QED BY <1>8, <2>1, Zenon DEF StripHSR
<1>10. (h ++ Octets(e)) ++ body = f
  <2>1. h = Part(f, 0, off - 2) /\ body = Part(f, off, len(f))
    BY Zenon DEF h, body, off
  <2>2. Part(f, 0, off - 2) ++ Part(f, off - 2, off) = Part(f, 0, off)
    BY <1>1, PartsJoin
  <2>3. Part(f, 0, off) ++ Part(f, off, len(f)) = Part(f, 0, len(f))
    BY <1>1, PartsJoin
  <2>4. Part(f, 0, len(f)) = f
    BY WholePart, Zenon
  <2>. QED BY <1>6, <2>1, <2>2, <2>3, <2>4, Zenon
<1>. QED
  BY <1>8, <1>9, <1>10, Zenon DEF g, e

-----------------------------------------------------------------------------
(* What happens to a frame on its way. *)

LEMMA OffsetFacts ==
    ASSUME NEW g \in Frame, HSRDecodes(g)
    PROVE  /\ len(g) \in Nat /\ hsrTagOffset(g) \in {14, 18}
           /\ hsrTagOffset(g) + HSRTagLen <= len(g)
           /\ HSRLsdu(g) \in Nat /\ HSRLsdu(g) >= HSRTagLen
           /\ hsrTagOffset(g) + HSRLsdu(g) <= len(g)
<1>1. len(g) \in Nat
  BY FrameLen, Zenon
<1>2. hsrTagOffset(g) \in {14, 18}
  BY DEF hsrTagOffset, TagLen
<1>. QED
  BY <1>1, <1>2 DEF HSRDecodes, HasHSRTag, HSRTagLen

(* The fields and the payload of two frames with the same offset, the same *)
(* words in the tag and the same octets up to the end of the payload.      *)
LEMMA PaddedOnRing ==
    ASSUME NEW g \in Frame, HSRDecodes(g), NEW z \in Frame
    PROVE  /\ HSRDecodes(g ++ z)
           /\ HSRPath(g ++ z) = HSRPath(g) /\ HSRSeq(g ++ z) = HSRSeq(g)
           /\ StripHSR(g ++ z) = StripHSR(g)
<1>. DEFINE off == hsrTagOffset(g)
            lsdu == HSRLsdu(g)
            gz == g ++ z
<1>1. /\ len(g) \in Nat /\ off \in {14, 18} /\ off + 6 <= len(g)
      /\ lsdu \in Nat /\ lsdu >= 6 /\ off + lsdu <= len(g) /\ len(z) \in Nat
      /\ gz \in Frame /\ len(gz) = len(g) + len(z)
  BY OffsetFacts, FrameLen, CatLen, Zenon DEF HSRTagLen
<1>. HIDE DEF lsdu, gz
<1>2. \A at \in Nat : at + 2 <= len(g) => Word(gz, at) = Word(g, at)
  BY WordCat, Zenon DEF gz
<1>3. hsrTagOffset(gz) = off
  <2>1. Word(gz, 12) = Word(g, 12) /\ len(g) >= 14 /\ len(gz) >= 14
    BY <1>1, <1>2
  <2>. QED BY <2>1, Zenon DEF hsrTagOffset, TagLen, IsVLANFrame
<1>4. off - 2 \in Nat /\ off \in Nat /\ off + 2 \in Nat /\ off + 4 \in Nat
  BY <1>1
<1>. HIDE DEF off
<1>5. /\ Word(gz, off - 2) = Word(g, off - 2) /\ Word(gz, off) = Word(g, off)
      /\ Word(gz, off + 2) = Word(g, off + 2) /\ Word(gz, off + 4) = Word(g, off + 4)
  BY <1>1, <1>2, <1>4
<1>6. HSRLsdu(gz) = lsdu
  BY <1>3, <1>5, Zenon DEF HSRLsdu, lsdu, off
<1>7. HSRPath(gz) = HSRPath(g) /\ HSRSeq(gz) = HSRSeq(g) /\ HSREncap(gz) = HSREncap(g)
  BY <1>3, <1>5, Zenon DEF HSRPath, HSRSeq, HSREncap, off
<1>8. Word(g, off - 2) = HSREtherType
  BY Zenon DEF HSRDecodes, HasHSRTag, off
<1>9. HSRDecodes(gz)
  <2>1. len(gz) >= off + 6 /\ lsdu \in 6..(len(gz) - off)
    BY <1>1
  <2>2. HasHSRTag(gz)
    BY <1>3, <1>5, <1>8, <2>1, Zenon DEF HasHSRTag, HSRTagLen
  <2>. QED BY <1>3, <1>6, <2>1, <2>2, Zenon DEF HSRDecodes, HSRTagLen
<1>10. /\ Part(gz, off + 6, off + lsdu) = Part(g, off + 6, off + lsdu)
       /\ Part(gz, 0, off - 2) = Part(g, 0, off - 2)
  BY <1>1, <1>4, PartOfLeft DEF gz
<1>11. HSRPayload(gz) = HSRPayload(g)
  BY <1>3, <1>6, <1>10, Zenon DEF HSRPayload, HSRTagLen, off, lsdu
<1>12. StripHSR(gz) = StripHSR(g)
  BY <1>3, <1>7, <1>10, <1>11, Zenon DEF StripHSR, off
<1>. QED
  BY <1>7, <1>9, <1>12, Zenon DEF gz

Set(f, k, v) == [f EXCEPT ![k] = v]

LEMMA SetFacts ==
    ASSUME NEW f \in Frame, NEW k \in 1..len(f), NEW v \in Octet
    PROVE  /\ Set(f, k, v) \in Frame /\ len(Set(f, k, v)) = len(f)
           /\ Set(f, k, v)[k] = v
           /\ \A i \in 1..len(f) : i # k => Set(f, k, v)[i] = f[i]
  BY ExceptSeq DEF Set, Frame, len

(* Setting the upper octet of the path word, with the same low nibble. *)
LEMMA PathOctet ==
    ASSUME NEW g \in Frame, HSRDecodes(g), NEW p \in 0..15,
           NEW r, r = Set(g, hsrTagOffset(g) + 1, 16 * p + (g[hsrTagOffset(g) + 1] % 16))
    PROVE  /\ r \in Frame /\ len(r) = len(g) /\ HSRDecodes(r)
           /\ HSRPath(r) = p /\ HSRSeq(r) = HSRSeq(g)
           /\ StripHSR(r) = StripHSR(g)
<1>. DEFINE off == hsrTagOffset(g)
            lsdu == HSRLsdu(g)
<1>1. /\ len(g) \in Nat /\ off \in {14, 18} /\ off + 6 <= len(g)
      /\ lsdu \in Nat /\ lsdu >= 6 /\ off + lsdu <= len(g)
  BY OffsetFacts, Zenon DEF HSRTagLen
<1>. HIDE DEF off, lsdu
<1>2. off + 1 \in 1..len(g) /\ off + 2 \in 1..len(g)
  BY <1>1
<1>3. PICK x \in Octet, y \in Octet : g[off + 1] = x /\ g[off + 2] = y
  BY <1>2 DEF Frame, len
<1>4. x % 16 \in 0..15 /\ 16 * p + (x % 16) \in Octet
  BY DEF Octet
<1>5. /\ r \in Frame /\ len(r) = len(g) /\ r[off + 1] = 16 * p + (x % 16)
      /\ \A i \in 1..len(g) : i # off + 1 => r[i] = g[i]
  <2>. DEFINE k == off + 1
              v == 16 * p + (x % 16)
  <2>1. k \in 1..len(g) /\ v \in Octet
    BY <1>2, <1>4, Zenon
  <2>2. r = Set(g, k, v)
    BY <1>3, Zenon DEF off
  <2>. HIDE DEF k, v
  <2>3. r \in Frame /\ len(r) = len(g) /\ r[k] = v
    BY <2>1, <2>2, SetFacts
  <2>4. \A i \in 1..len(g) : i # k => Set(g, k, v)[i] = g[i]
    BY <2>1, SetFacts, Zenon
  <2>. QED BY <2>2, <2>3, <2>4, Zenon DEF k, v
<1>6. \A at \in Nat : at + 2 <= len(g) /\ at # off /\ at + 1 # off => Word(r, at) = Word(g, at)
  <2>. SUFFICES ASSUME NEW at \in Nat, at + 2 <= len(g), at # off, at + 1 # off
                PROVE  Word(r, at) = Word(g, at)
    BY Zenon
  <2>1. at + 1 \in 1..len(g) /\ at + 2 \in 1..len(g) /\ at + 1 # off + 1 /\ at + 2 # off + 1
    BY <1>1
  <2>. QED BY <1>5, <2>1, Zenon DEF Word
<1>7. Word(r, off) = 256 * (16 * p + (x % 16)) + y /\ Word(g, off) = 256 * x + y
  <2>1. r[off + 2] = y
    <3>1. off + 2 # off + 1
      BY <1>1
    <3>. QED BY <1>2, <1>3, <1>5, <3>1, Zenon
  <2>. QED BY <1>3, <1>5, <2>1, Zenon DEF Word
<1>8. /\ (256 * (16 * p + (x % 16)) + y) \div Nibble = p
      /\ (256 * (16 * p + (x % 16)) + y) % Nibble = (256 * x + y) % Nibble
  BY <1>4 DEF Nibble, Octet
<1>9. hsrTagOffset(r) = off
  <2>1. 12 \in Nat /\ 12 + 2 <= len(g) /\ 12 # off /\ 12 + 1 # off
    BY <1>1
  <2>2. Word(r, 12) = Word(g, 12)
    BY <1>6, <2>1, Zenon
  <2>3. len(g) >= 14 /\ len(r) >= 14
    BY <1>1, <1>5
  <2>. QED BY <2>2, <2>3, Zenon DEF hsrTagOffset, TagLen, IsVLANFrame, off
<1>10. /\ Word(r, off - 2) = Word(g, off - 2)
       /\ Word(r, off + 2) = Word(g, off + 2) /\ Word(r, off + 4) = Word(g, off + 4)
  <2>1. off - 2 \in Nat /\ (off - 2) + 2 <= len(g) /\ off - 2 # off /\ (off - 2) + 1 # off
    BY <1>1
  <2>2. off + 2 \in Nat /\ (off + 2) + 2 <= len(g) /\ off + 2 # off /\ (off + 2) + 1 # off
    BY <1>1
  <2>3. off + 4 \in Nat /\ (off + 4) + 2 <= len(g) /\ off + 4 # off /\ (off + 4) + 1 # off
    BY <1>1
  <2>. QED BY <1>6, <2>1, <2>2, <2>3, Zenon
<1>11. HSRLsdu(r) = lsdu /\ HSRPath(r) = p
  BY <1>7, <1>8, <1>9, Zenon DEF HSRLsdu, HSRPath, lsdu, off
<1>12. HSRSeq(r) = HSRSeq(g) /\ HSREncap(r) = HSREncap(g)
  BY <1>9, <1>10, Zenon DEF HSRSeq, HSREncap, off
<1>13. HSRDecodes(r)
  <2>1. Word(g, off - 2) = HSREtherType
    BY Zenon DEF HSRDecodes, HasHSRTag, off
  <2>2. len(r) >= off + 6 /\ lsdu \in 6..(len(r) - off)
    BY <1>1, <1>5
  <2>3. HasHSRTag(r)
    BY <1>9, <1>10, <2>1, <2>2, Zenon DEF HasHSRTag, HSRTagLen
  <2>. QED BY <1>9, <1>11, <2>2, <2>3, Zenon DEF HSRDecodes, HSRTagLen
<1>14. ASSUME NEW a \in Nat, NEW b \in Nat, a <= b, b <= len(g), b <= off \/ a > off
       PROVE  Part(r, a, b) = Part(g, a, b)
  <2>1. /\ Part(r, a, b) \in Frame /\ len(Part(r, a, b)) = b - a
        /\ Part(g, a, b) \in Frame /\ len(Part(g, a, b)) = b - a
    BY <1>5, <1>14, PartType, Zenon
  <2>2. ASSUME NEW i \in 1..(b - a) PROVE Part(r, a, b)[i] = Part(g, a, b)[i]
    <3>1. Part(r, a, b)[i] = r[a + i] /\ Part(g, a, b)[i] = g[a + i]
      BY <1>5, <1>14, PartAt, Zenon
    <3>2. a + i \in 1..len(g) /\ a + i # off + 1
      BY <1>1, <1>14
    <3>. QED BY <1>5, <3>1, <3>2, Zenon
  <2>. QED BY <2>1, <2>2, FrameEqual, Zenon
<1>15. /\ Part(r, off + 6, off + lsdu) = Part(g, off + 6, off + lsdu)
       /\ Part(r, 0, off - 2) = Part(g, 0, off - 2)
  <2>1. /\ off + 6 \in Nat /\ off + lsdu \in Nat /\ off + 6 <= off + lsdu
        /\ off + lsdu <= len(g) /\ off + 6 > off
    BY <1>1
  <2>2. 0 \in Nat /\ off - 2 \in Nat /\ 0 <= off - 2 /\ off - 2 <= len(g) /\ off - 2 <= off
    BY <1>1
  <2>. QED BY <1>14, <2>1, <2>2, Zenon
<1>16. HSRPayload(r) = HSRPayload(g)
  BY <1>9, <1>11, <1>15, Zenon DEF HSRPayload, HSRTagLen, off, lsdu
<1>17. StripHSR(r) = StripHSR(g)
  BY <1>9, <1>12, <1>15, <1>16, Zenon DEF StripHSR, off
<1>. QED
  BY <1>5, <1>11, <1>12, <1>13, <1>17, Zenon

(* What RewriteHSRPath and RewriteHSRPathLane do to the tag, and leave     *)
(* alone.                                                                  *)
LEMMA PathRewrite ==
    ASSUME NEW g \in Frame, HSRDecodes(g), NEW p \in 0..15
    PROVE  LET r == RewriteHSRPath(g, p)
           IN  /\ r \in Frame /\ len(r) = len(g) /\ HSRDecodes(r)
               /\ HSRPath(r) = p /\ HSRSeq(r) = HSRSeq(g)
               /\ StripHSR(r) = StripHSR(g)
<1>1. p % 16 = p
  OBVIOUS
<1>. QED
  BY <1>1, PathOctet DEF RewriteHSRPath, Set

LEMMA LaneRewrite ==
    ASSUME NEW g \in Frame, HSRDecodes(g), NEW lane \in {0, 1}
    PROVE  LET r == RewriteHSRPathLane(g, lane)
           IN  /\ r \in Frame /\ len(r) = len(g) /\ HSRDecodes(r)
               /\ HSRPath(r) = 2 * (HSRPath(g) \div 2) + lane /\ HSRSeq(r) = HSRSeq(g)
               /\ StripHSR(r) = StripHSR(g)
<1>. DEFINE off == hsrTagOffset(g)
            p == 2 * (HSRPath(g) \div 2) + lane
<1>1. len(g) \in Nat /\ off \in {14, 18} /\ off + 6 <= len(g)
  BY OffsetFacts, Zenon DEF HSRTagLen
<1>2. off + 1 \in 1..len(g) /\ off + 2 \in 1..len(g)
  BY <1>1
<1>. HIDE DEF off
<1>3. PICK x \in Octet, y \in Octet : g[off + 1] = x /\ g[off + 2] = y
  BY <1>2 DEF Frame, len
<1>4. HSRPath(g) = x \div 16
  <2>1. HSRPath(g) = (256 * x + y) \div Nibble
    BY <1>3, Zenon DEF HSRPath, Word, off
  <2>. QED BY <2>1 DEF Nibble, Octet
<1>5. p \in 0..15 /\ 32 * (x \div 32) + 16 * lane + (x % 16) = 16 * p + (x % 16)
  BY <1>4 DEF Octet
<1>. HIDE DEF p
<1>6. RewriteHSRPathLane(g, lane) = Set(g, off + 1, 16 * p + (g[off + 1] % 16))
  <2>1. RewriteHSRPathLane(g, lane) = Set(g, off + 1, 32 * (x \div 32) + 16 * lane + (x % 16))
    BY <1>3, Zenon DEF RewriteHSRPathLane, Set, off
  <2>. QED BY <1>3, <1>5, <2>1, Zenon
<1>. QED
  BY <1>5, <1>6, PathOctet, Zenon DEF off, p

(* Read puts back the VLAN tag a kernel took out, if the buffer has room. *)
LEMMA TagRestored ==
    ASSUME NEW f \in Frame, IsVLANFrame(f), len(f) >= 18, len(f) <= BufLen,
           NEW taken, taken = {[tpid |-> Word(f, 12), tci |-> Word(f, 14)]}
    PROVE  Read(Part(f, 0, 12) ++ Part(f, 16, len(f)), taken) = f
<1>. DEFINE a == Part(f, 0, 12)
            b == Part(f, 16, len(f))
            g == a ++ b
<1>1. /\ len(f) \in Nat /\ a \in Frame /\ len(a) = 12 /\ b \in Frame /\ len(b) = len(f) - 16
      /\ g \in Frame /\ len(g) = len(f) - 4
  <2>1. len(f) \in Nat
    BY FrameLen, Zenon
  <2>2. a \in Frame /\ len(a) = 12 /\ b \in Frame /\ len(b) = len(f) - 16
    BY <2>1, PartType
  <2>. QED BY <2>1, <2>2, CatLen
<1>. HIDE DEF g
<1>2. Part(g, 0, 12) = a
  BY <1>1, PartCat, Zenon DEF g
<1>3. Part(g, 12, len(g)) = b
  <2>1. Part(g, 12 + 0, 12 + len(b)) = Part(b, 0, len(b))
    <3>1. 0 \in Nat /\ len(b) \in Nat /\ 0 <= len(b)
      BY <1>1, FrameLen
    <3>. HIDE DEF a, b
    <3>. QED BY <1>1, <3>1, PartOfCat DEF g
  <2>2. 12 + 0 = 12 /\ 12 + len(b) = len(g)
    BY <1>1
  <2>. HIDE DEF b
  <2>. QED BY <1>1, <2>1, <2>2, WholePart, Zenon
<1>. HIDE DEF a, b
<1>4. /\ Octets(Word(f, 12)) = Part(f, 12, 14) /\ Octets(Word(f, 14)) = Part(f, 14, 16)
  <2>1. 12 \in Nat /\ 14 \in Nat /\ 12 + 2 = 14 /\ 14 + 2 = 16 /\ 14 <= len(f) /\ 16 <= len(f)
    BY <1>1
  <2>. QED BY <2>1, OctetsOfWord, Zenon
<1>5. Word(f, 12) # 0
  BY DEF IsVLANFrame, TPIDs, C_VLAN, S_VLAN
<1>6. Read(g, taken) = a ++ Part(f, 12, 14) ++ Part(f, 14, 16) ++ b
  <2>. DEFINE tag == [tpid |-> Word(f, 12), tci |-> Word(f, 14)]
  <2>1. taken # {} /\ (CHOOSE t \in taken : TRUE) = tag
    BY Zenon
  <2>2. ~(len(g) < 12) /\ ~(BufLen < len(g) + 4)
    BY <1>1, FramesAssumption
  <2>3. tag.tpid = Word(f, 12) /\ tag.tci = Word(f, 14)
    BY Zenon
  <2>. HIDE DEF tag
  <2>. QED BY <1>2, <1>3, <1>4, <1>5, <2>1, <2>2, <2>3, Zenon DEF Read
<1>7. a ++ Part(f, 12, 14) = Part(f, 0, 14)
  BY <1>1, PartsJoin DEF a
<1>8. Part(f, 0, 14) ++ Part(f, 14, 16) = Part(f, 0, 16)
  BY <1>1, PartsJoin
<1>9. Part(f, 0, 16) ++ b = Part(f, 0, len(f))
  BY <1>1, PartsJoin DEF b
<1>. QED
  BY <1>6, <1>7, <1>8, <1>9, WholePart, Zenon DEF g, a, b

-----------------------------------------------------------------------------
(* The way of a frame.                                                     *)

(* Room for s with the trailers it may collect: below the 12 bits of the   *)
(* LSDU fields, and in the buffer of readLoop.                             *)
Top(s) == IF len(s) < 64 THEN 64 ELSE len(s)
Room(s) == Top(s) + 6 * (MaxHops + 1) < Nibble /\ Top(s) + 6 * (MaxHops + 1) <= BufLen

(* A frame with a whole header, at most one VLAN tag, and that room. *)
Fits(s) ==
    /\ s \in Frame
    /\ len(s) >= hsrTagOffset(s) /\ Word(s, hsrTagOffset(s) - 2) \notin TPIDs
    /\ Room(s)

(* f is s, then padding, then n trailers. *)
CarriesWithTrailers(f, s, n) ==
    /\ len(f) >= len(s) + n * RCTLen
    /\ \A i \in 1..len(s) : f[i] = s[i]
    /\ \A i \in (len(s) + 1)..(len(f) - n * RCTLen) : f[i] = 0
    /\ \A k \in 0..(n - 1) : Word(f, len(f) - k * RCTLen - 2) = PRPSuffix

(* f is what is left of s and n trailers when its own mark is taken off. *)
Base(f, s, n) ==
    /\ f \in Frame
    /\ CarriesWithTrailers(f, s, n)
    /\ len(f) <= Top(s) + 6 * n
    /\ n > 0 => len(f) >= 64

OnLan(g, s, n, nr, l) ==
    /\ g \in Frame /\ len(g) >= 66
    /\ IsPRPFrame(g) /\ RCTLan(g) = l /\ RCTSeq(g) = nr
    /\ Base(WithoutRCT(g), s, n)

InRing(g, s, n, nr, p) ==
    /\ g \in Frame /\ len(g) <= Top(s) + 6 * (n + 1)
    /\ HSRDecodes(g) /\ HSRPath(g) = p /\ HSRSeq(g) = nr
    /\ Base(StripHSR(g), s, n)

Announcement(g) == g \in Frame /\ len(g) = 60 /\ Word(g, 12) = PRPSuffix

-----------------------------------------------------------------------------
LEMMA RoomFacts ==
    ASSUME NEW s, Fits(s), NEW n \in Nat, n <= MaxHops
    PROVE  /\ len(s) \in Nat /\ len(s) >= 14 /\ Top(s) \in Nat /\ Top(s) >= 64 /\ Top(s) >= len(s)
           /\ Top(s) + 6 * (n + 1) < Nibble /\ Top(s) + 6 * (n + 1) <= BufLen
<1>1. len(s) \in Nat
  BY FrameLen, Zenon DEF Fits
<1>2. len(s) >= 14
  BY <1>1 DEF Fits, hsrTagOffset, TagLen
<1>. QED
  BY <1>1, <1>2, FramePathAssumption, FramesAssumption DEF Fits, Room, Top, Nibble

(* Such a frame has the header of s. *)
LEMMA BaseHeader ==
    ASSUME NEW s, Fits(s), NEW n \in Nat, n <= MaxHops, NEW f, Base(f, s, n)
    PROVE  /\ len(f) \in Nat /\ len(f) >= len(s) /\ len(f) >= 14
           /\ len(f) + 6 < Nibble /\ len(f) + 6 <= Top(s) + 6 * (n + 1)
           /\ hsrTagOffset(f) = hsrTagOffset(s) /\ len(f) >= hsrTagOffset(f)
           /\ Word(f, hsrTagOffset(f) - 2) = Word(s, hsrTagOffset(s) - 2)
<1>1. /\ len(s) \in Nat /\ len(s) >= 14 /\ Top(s) \in Nat /\ Top(s) + 6 * (n + 1) < Nibble
  BY RoomFacts, Zenon
<1>2. /\ len(f) \in Nat /\ len(f) >= len(s) + n * 6 /\ len(f) <= Top(s) + 6 * n
      /\ \A i \in 1..len(s) : f[i] = s[i]
  BY FrameLen, Zenon DEF Base, CarriesWithTrailers, RCTLen
<1>3. len(f) >= len(s)
  BY <1>1, <1>2
<1>4. \A at \in Nat : at + 2 <= len(s) => Word(f, at) = Word(s, at)
  <2>. SUFFICES ASSUME NEW at \in Nat, at + 2 <= len(s) PROVE Word(f, at) = Word(s, at)
    BY Zenon
  <2>1. at + 1 \in 1..len(s) /\ at + 2 \in 1..len(s)
    BY <1>1
  <2>. QED BY <1>2, <2>1, Zenon DEF Word
<1>5. hsrTagOffset(f) = hsrTagOffset(s)
  <2>1. Word(f, 12) = Word(s, 12) /\ len(f) >= 14
    BY <1>1, <1>2, <1>3, <1>4
  <2>. QED BY <1>1, <2>1, Zenon DEF hsrTagOffset, TagLen, IsVLANFrame
<1>6. hsrTagOffset(s) \in {14, 18} /\ len(s) >= hsrTagOffset(s)
  BY DEF Fits, hsrTagOffset, TagLen
<1>7. Word(f, hsrTagOffset(f) - 2) = Word(s, hsrTagOffset(s) - 2)
  <2>1. hsrTagOffset(s) - 2 \in Nat /\ (hsrTagOffset(s) - 2) + 2 <= len(s)
    BY <1>1, <1>6
  <2>. QED BY <1>4, <1>5, <2>1, Zenon
<1>8. len(f) + 6 < Nibble /\ len(f) + 6 <= Top(s) + 6 * (n + 1)
  BY <1>1, <1>2 DEF Nibble
<1>. QED
  BY <1>1, <1>2, <1>3, <1>5, <1>6, <1>7, <1>8

(* Padding leaves it such a frame. *)
LEMMA BaseExtended ==
    ASSUME NEW s, Fits(s), NEW n \in Nat, n <= MaxHops, NEW f, Base(f, s, n),
           NEW m \in Nat, m <= 64
    PROVE  Base(Extended(f, m), s, n)
<1>. DEFINE e == Extended(f, m)
<1>1. /\ len(s) \in Nat /\ len(s) >= 14 /\ Top(s) \in Nat /\ Top(s) >= 64
  BY RoomFacts, Zenon
<1>2. f \in Frame /\ len(f) \in Nat
  BY BaseHeader, Zenon DEF Base
<1>3. /\ e \in Frame /\ len(e) = IF len(f) < m THEN m ELSE len(f)
      /\ \A i \in 1..len(f) : e[i] = f[i]
      /\ \A i \in (len(f) + 1)..len(e) : e[i] = 0
  BY <1>2, ExtendedFacts, Zenon
<1>4. CASE len(f) < m
  <2>1. n = 0
    BY <1>2, <1>4 DEF Base
  <2>2. len(e) = m
    BY <1>3, <1>4, Zenon
  <2>. HIDE DEF e
  <2>3. /\ len(f) >= len(s) /\ \A i \in 1..len(s) : f[i] = s[i]
        /\ \A i \in (len(s) + 1)..len(f) : f[i] = 0
    BY <1>1, <1>2, <2>1 DEF Base, CarriesWithTrailers, RCTLen
  <2>4. \A i \in 1..len(s) : e[i] = s[i]
    BY <1>1, <1>2, <1>3, <2>3
  <2>5. \A i \in (len(s) + 1)..len(e) : e[i] = 0
    <3>. SUFFICES ASSUME NEW i \in (len(s) + 1)..len(e) PROVE e[i] = 0
      BY Zenon
    <3>1. CASE i <= len(f)
      <4>1. i \in 1..len(f) /\ i \in (len(s) + 1)..len(f)
        BY <1>1, <1>2, <2>2, <3>1
      <4>. QED BY <1>3, <2>3, <4>1
    <3>2. CASE ~(i <= len(f))
      <4>1. i \in (len(f) + 1)..len(e)
        BY <1>1, <1>2, <2>2, <3>2
      <4>. QED BY <1>3, <4>1, Zenon
    <3>. QED BY <3>1, <3>2, Zenon
  <2>6. CarriesWithTrailers(e, s, 0)
    BY <1>1, <1>2, <1>4, <2>2, <2>3, <2>4, <2>5 DEF CarriesWithTrailers, RCTLen
  <2>. QED BY <1>1, <1>3, <2>1, <2>2, <2>6 DEF Base, e
<1>5. CASE ~(len(f) < m)
  BY <1>5, Zenon DEF Extended
<1>. QED
  BY <1>4, <1>5, Zenon

(* And a trailer that is taken into a ring adds one. *)
LEMMA BaseTunnelled ==
    ASSUME NEW s, Fits(s), NEW n \in Nat, n + 1 <= MaxHops,
           NEW g, NEW nr, NEW l, OnLan(g, s, n, nr, l)
    PROVE  Base(g, s, n + 1)
<1>. DEFINE f == WithoutRCT(g)
<1>1. /\ len(s) \in Nat /\ len(s) >= 14 /\ Top(s) \in Nat /\ n <= MaxHops
  BY RoomFacts, FramePathAssumption
<1>2. g \in Frame /\ len(g) \in Nat /\ len(g) >= 66
  BY FrameLen, Zenon DEF OnLan
<1>3. f \in Frame /\ len(f) = len(g) - 6 /\ \A i \in 1..len(f) : f[i] = g[i]
  <2>1. len(g) - 6 \in Nat /\ len(g) - 6 <= len(g) /\ 0 <= len(g) - 6
    BY <1>2
  <2>2. f = Part(g, 0, len(g) - 6)
    BY Zenon DEF WithoutRCT, RCTLen
  <2>. HIDE DEF f
  <2>3. f \in Frame /\ len(f) = len(g) - 6
    BY <1>2, <2>1, <2>2, PartType
  <2>4. ASSUME NEW i \in 1..len(f) PROVE f[i] = g[i]
    <3>1. i \in 1..((len(g) - 6) - 0) /\ 0 + i = i
      BY <2>1, <2>3
    <3>. QED BY <1>2, <2>1, <2>2, <3>1, PartAt
  <2>. QED BY <2>3, <2>4, Zenon
<1>4. Base(f, s, n) /\ Word(g, len(g) - 2) = PRPSuffix
  BY Zenon DEF OnLan, IsPRPFrame
<1>. HIDE DEF f
<1>5. /\ len(f) >= len(s) + n * 6 /\ len(f) <= Top(s) + 6 * n
      /\ \A i \in 1..len(s) : f[i] = s[i]
      /\ \A i \in (len(s) + 1)..(len(f) - n * 6) : f[i] = 0
      /\ \A k \in 0..(n - 1) : Word(f, len(f) - k * 6 - 2) = PRPSuffix
  BY <1>4, Zenon DEF Base, CarriesWithTrailers, RCTLen
<1>6. len(g) >= len(s) + (n + 1) * 6 /\ len(g) <= Top(s) + 6 * (n + 1)
  BY <1>1, <1>2, <1>3, <1>5
<1>7. \A i \in 1..len(s) : g[i] = s[i]
  <2>1. 1..len(s) \subseteq 1..len(f)
    BY <1>1, <1>2, <1>3, <1>5
  <2>. QED BY <1>3, <1>5, <2>1, Zenon
<1>8. \A i \in (len(s) + 1)..(len(g) - (n + 1) * 6) : g[i] = 0
  <2>. SUFFICES ASSUME NEW i \in (len(s) + 1)..(len(g) - (n + 1) * 6) PROVE g[i] = 0
    BY Zenon
  <2>1. i \in 1..len(f) /\ i \in (len(s) + 1)..(len(f) - n * 6)
    BY <1>1, <1>2, <1>3
  <2>. QED BY <1>3, <1>5, <2>1
<1>9. \A k \in 0..((n + 1) - 1) : Word(g, len(g) - k * 6 - 2) = PRPSuffix
  <2>. SUFFICES ASSUME NEW k \in 0..((n + 1) - 1)
                PROVE  Word(g, len(g) - k * 6 - 2) = PRPSuffix
    BY Zenon
  <2>1. CASE k = 0
    <3>1. len(g) - k * 6 - 2 = len(g) - 2
      BY <1>2, <2>1
    <3>. QED BY <1>4, <3>1, Zenon
  <2>2. CASE k # 0
    <3>. DEFINE at == len(f) - (k - 1) * 6 - 2
    <3>1. k - 1 \in 0..(n - 1) /\ at = len(g) - k * 6 - 2
      BY <1>2, <1>3, <2>2
    <3>2. Word(f, at) = PRPSuffix
      BY <1>5, <3>1, Zenon
    <3>3. at + 1 \in 1..len(f) /\ at + 2 \in 1..len(f)
      BY <1>1, <1>2, <1>3, <1>5, <2>2
    <3>. HIDE DEF at
    <3>4. Word(g, at) = Word(f, at)
      BY <1>3, <3>3, Zenon DEF Word
    <3>. QED BY <3>1, <3>2, <3>4, Zenon
  <2>. QED BY <2>1, <2>2, Zenon
<1>10. CarriesWithTrailers(g, s, n + 1)
  BY <1>6, <1>7, <1>8, <1>9, Zenon DEF CarriesWithTrailers, RCTLen
<1>. QED
  BY <1>2, <1>6, <1>10 DEF Base

LEMMA BaseSelf == ASSUME NEW s, Fits(s) PROVE Base(s, s, 0)
<1>1. len(s) \in Nat /\ Top(s) >= len(s) /\ Top(s) \in Nat
  BY RoomFacts, FramePathAssumption
<1>2. CarriesWithTrailers(s, s, 0)
  BY <1>1 DEF CarriesWithTrailers, RCTLen
<1>. QED
  BY <1>1, <1>2 DEF Base, Fits

-----------------------------------------------------------------------------
(* What the nodes write. *)

LEMMA LanWritten ==
    ASSUME NEW s, Fits(s), NEW n \in Nat, n <= MaxHops, NEW f, Base(f, s, n),
           NEW nr \in Number, NEW l \in Lans
    PROVE  OnLan(EncodeRCT(f, nr, l), s, n, nr, l)
<1>. DEFINE p == Padded(f)
            lsdu == len(p) + RCTLen - 14 - TagLen(f)
            g == EncodeRCT(f, nr, l)
<1>1. f \in Frame /\ len(f) \in Nat /\ len(f) >= 14 /\ len(f) + 6 < Nibble
  BY BaseHeader, Zenon DEF Base
<1>2. p \in Frame /\ len(p) \in Nat /\ len(p) >= 60 /\ len(p) < Nibble - 6
  <2>1. /\ p \in Frame /\ len(p) \in Nat /\ len(p) >= 60
        /\ len(f) >= 64 => p = f
        /\ len(f) < 64 => len(p) <= 64
    BY <1>1, PaddedFacts, Zenon
  <2>. QED BY <1>1, <2>1 DEF Nibble
<1>3. l \in {0, 1} /\ lsdu \in Nat /\ lsdu < Nibble
  BY <1>2 DEF TagLen, RCTLen, Lans, Nibble
<1>4. g \in Frame /\ len(g) = len(p) + 6
  <2>1. g = p ++ RCT(nr, l, lsdu)
    BY Zenon DEF EncodeRCT
  <2>. HIDE DEF g, p, lsdu
  <2>2. RCT(nr, l, lsdu) \in Frame /\ len(RCT(nr, l, lsdu)) = 6
    BY <1>3, RCTFacts, Zenon
  <2>. QED BY <1>2, <2>1, <2>2, CatLen, Zenon
<1>5. IsPRPFrame(g) /\ RCTLan(g) = l /\ RCTSeq(g) = nr /\ WithoutRCT(g) = p
  <2>1. len(f) < Nibble
    BY <1>1 DEF Nibble
  <2>. QED BY <1>1, <1>3, <2>1, RCTRoundTrip, Zenon
<1>6. Base(p, s, n)
  BY BaseExtended DEF Padded
<1>. QED
  BY <1>2, <1>4, <1>5, <1>6 DEF OnLan

LEMMA InjectedFrame ==
    ASSUME NEW f \in Frame, len(f) >= hsrTagOffset(f), len(f) + 6 < Nibble,
           Word(f, hsrTagOffset(f) - 2) \notin TPIDs,
           NEW p \in 0..15, NEW nr \in Number
    PROVE  Injected(f, p, nr) \in Frame /\ len(Injected(f, p, nr)) = len(f) + 6
<1>. DEFINE off == hsrTagOffset(f)
            h == Part(f, 0, off - 2)
            d == Part(f, off, len(f))
            w == Nibble * (p % 16) + ((HSRTagLen + len(d)) % Nibble)
            e == GetEtherType(f)
<1>1. len(f) \in Nat /\ off \in {14, 18} /\ off <= len(f)
  BY FrameLen DEF hsrTagOffset, TagLen
<1>2. e \in Number
  <2>1. off - 2 \in Nat /\ (off - 2) + 2 <= len(f)
    BY <1>1
  <2>. HIDE DEF off
  <2>2. Word(f, off - 2) \in Number
    BY <2>1, OctetsOfWord, Zenon
  <2>. QED BY <2>2, SingleTagType, Zenon DEF off
<1>. HIDE DEF off, e
<1>3. h \in Frame /\ len(h) = off - 2 /\ d \in Frame /\ len(d) = len(f) - off
  <2>1. 0 \in Nat /\ off - 2 \in Nat /\ 0 <= off - 2 /\ off - 2 <= len(f) /\ off \in Nat
    BY <1>1
  <2>. QED BY <1>1, <2>1, PartType
<1>. HIDE DEF h, d
<1>4. w \in Number
  <2>. DEFINE m == HSRTagLen + len(d)
  <2>1. p % 16 = p /\ m \in Nat /\ m < Nibble
    BY <1>1, <1>3 DEF HSRTagLen, Nibble
  <2>2. w = Nibble * (p % 16) + (m % Nibble)
    BY Zenon
  <2>. HIDE DEF m, w
  <2>3. m % Nibble = m
    BY <2>1 DEF Nibble
  <2>4. w = Nibble * p + m
    BY <2>1, <2>2, <2>3, Zenon
  <2>. QED BY <2>1, <2>4 DEF Number, Nibble
<1>. HIDE DEF w
<1>5. HSREtherType \in Number
  BY DEF HSREtherType, Number
<1>6. /\ Octets(HSREtherType) \in Frame /\ len(Octets(HSREtherType)) = 2
      /\ Octets(w) \in Frame /\ len(Octets(w)) = 2
      /\ Octets(nr) \in Frame /\ len(Octets(nr)) = 2
      /\ Octets(e) \in Frame /\ len(Octets(e)) = 2
  BY <1>2, <1>4, <1>5, OctetsType, Zenon
<1>. DEFINE a == Octets(HSREtherType) ++ Octets(w)
            b == a ++ Octets(nr)
            c == b ++ Octets(e)
            t == c ++ d
<1>7. a \in Frame /\ len(a) = 4
  BY <1>6, CatLen
<1>. HIDE DEF a
<1>8. b \in Frame /\ len(b) = 6
  BY <1>6, <1>7, CatLen
<1>. HIDE DEF b
<1>9. c \in Frame /\ len(c) = 8
  BY <1>6, <1>8, CatLen
<1>. HIDE DEF c
<1>10. t \in Frame /\ len(t) = 8 + (len(f) - off)
  BY <1>3, <1>9, CatLen, Zenon
<1>. HIDE DEF t
<1>11. Injected(f, p, nr) = h ++ t
  BY Zenon DEF Injected, EncodeHSR, h, d, w, e, a, b, c, t, off
<1>12. h ++ t \in Frame /\ len(h ++ t) = len(f) + 6
  BY <1>1, <1>3, <1>10, CatLen
<1>. QED
  BY <1>11, <1>12, Zenon

LEMMA CatEmpty == ASSUME NEW g \in Frame PROVE <<>> \in Frame /\ g ++ <<>> = g
  BY DEF Frame, ++

LEMMA RingWritten ==
    ASSUME NEW s, Fits(s), NEW n \in Nat, n <= MaxHops, NEW f, Base(f, s, n),
           NEW nr \in Number, NEW p \in 0..15
    PROVE  InRing(Injected(f, p, nr), s, n, nr, p)
<1>. DEFINE g == Injected(f, p, nr)
<1>1. /\ f \in Frame /\ len(f) \in Nat /\ len(f) + 6 < Nibble /\ len(f) >= hsrTagOffset(f)
      /\ len(f) + 6 <= Top(s) + 6 * (n + 1)
      /\ Word(f, hsrTagOffset(f) - 2) \notin TPIDs
  BY BaseHeader, Zenon DEF Base, Fits
<1>2. g \in Frame /\ len(g) = len(f) + 6
  BY <1>1, InjectedFrame, Zenon
<1>3. len(f) < Nibble
  BY <1>1 DEF Nibble
<1>4. PICK z \in Frame : g ++ z = g
  BY <1>2, CatEmpty, Zenon
<1>5. HSRDecodes(g) /\ HSRPath(g) = p /\ HSRSeq(g) = nr /\ StripHSR(g) = f
  <2>1. /\ HSRDecodes(g ++ z) /\ HSRPath(g ++ z) = p /\ HSRSeq(g ++ z) = nr
        /\ StripHSR(g ++ z) = f
    BY <1>1, <1>3, HSRRoundTrip
  <2>. QED BY <1>4, <2>1, Zenon
<1>. QED
  BY <1>1, <1>2, <1>5, Zenon DEF InRing

LEMMA RingExtended ==
    ASSUME NEW s, Fits(s), NEW n \in Nat, n <= MaxHops,
           NEW g, NEW nr, NEW p, InRing(g, s, n, nr, p), len(g) < 60
    PROVE  InRing(Extended(g, 60), s, n, nr, p)
<1>. DEFINE z == Zeros(60 - len(g))
<1>1. g \in Frame /\ len(g) \in Nat /\ HSRDecodes(g)
  BY FrameLen, Zenon DEF InRing
<1>2. z \in Frame
  <2>1. 60 - len(g) \in Nat
    BY <1>1
  <2>. QED BY <2>1 DEF Zeros, Frame, Octet
<1>3. Extended(g, 60) = g ++ z
  BY Zenon DEF Extended
<1>4. Extended(g, 60) \in Frame /\ len(Extended(g, 60)) = 60
  BY <1>1, ExtendedFacts, Zenon
<1>5. 60 <= Top(s) + 6 * (n + 1)
  BY RoomFacts
<1>. HIDE DEF z
<1>6. /\ HSRDecodes(g ++ z) /\ HSRPath(g ++ z) = HSRPath(g) /\ HSRSeq(g ++ z) = HSRSeq(g)
      /\ StripHSR(g ++ z) = StripHSR(g)
  BY <1>1, <1>2, PaddedOnRing, Zenon
<1>. QED
  BY <1>3, <1>4, <1>5, <1>6, Zenon DEF InRing

LEMMA SupFrame ==
    ASSUME NEW word \in Number, NEW nr \in Number, NEW tlv \in Octet
    PROVE  Announcement(SupBody(NodeMac, word, nr, tlv))
<1>1. /\ SuperMulticastMAC \in Frame /\ len(SuperMulticastMAC) = 6
  BY DEF SuperMulticastMAC, Frame, len, Octet
<1>2. NodeMac \in Frame /\ len(NodeMac) = 6
  BY FramePathAssumption, Zenon
<1>3. PRPSuffix \in Number
  BY DEF PRPSuffix, Number
<1>4. /\ Octets(PRPSuffix) \in Frame /\ len(Octets(PRPSuffix)) = 2
      /\ Octets(word) \in Frame /\ len(Octets(word)) = 2
      /\ Octets(nr) \in Frame /\ len(Octets(nr)) = 2
  BY <1>3, OctetsType, Zenon
<1>5. <<tlv, 6>> \in Frame /\ len(<<tlv, 6>>) = 2
  BY DEF Frame, len, Octet
<1>. DEFINE a == SuperMulticastMAC ++ NodeMac
            b == a ++ Octets(PRPSuffix)
            c == b ++ Octets(word)
            d == c ++ Octets(nr)
            e == d ++ <<tlv, 6>>
            g == e ++ NodeMac
<1>6. a \in Frame /\ len(a) = 12
  BY <1>1, <1>2, CatLen
<1>. HIDE DEF a
<1>7. b \in Frame /\ len(b) = 14 /\ Word(b, 12) = PRPSuffix
  <2>1. b \in Frame /\ len(b) = 14
    BY <1>4, <1>6, CatLen
  <2>2. Word(b, 12) = Word(Octets(PRPSuffix), 12 - 12)
    BY <1>4, <1>6, WordCat
  <2>. QED BY <1>3, <2>1, <2>2, WordOctets
<1>. HIDE DEF b
<1>8. c \in Frame /\ len(c) = 16 /\ Word(c, 12) = PRPSuffix
  BY <1>4, <1>7, CatLen, WordCat
<1>. HIDE DEF c
<1>9. d \in Frame /\ len(d) = 18 /\ Word(d, 12) = PRPSuffix
  BY <1>4, <1>8, CatLen, WordCat
<1>. HIDE DEF d
<1>10. e \in Frame /\ len(e) = 20 /\ Word(e, 12) = PRPSuffix
  BY <1>5, <1>9, CatLen, WordCat
<1>. HIDE DEF e
<1>11. g \in Frame /\ len(g) = 26 /\ Word(g, 12) = PRPSuffix
  BY <1>2, <1>10, CatLen, WordCat
<1>12. SupBody(NodeMac, word, nr, tlv) = Extended(g, 60)
  BY Zenon DEF SupBody, a, b, c, d, e
<1>. HIDE DEF g
<1>13. /\ Extended(g, 60) \in Frame /\ len(Extended(g, 60)) = 60
       /\ Extended(g, 60)[13] = g[13] /\ Extended(g, 60)[14] = g[14]
  <2>1. /\ Extended(g, 60) \in Frame /\ len(Extended(g, 60)) = IF len(g) < 60 THEN 60 ELSE len(g)
        /\ \A i \in 1..len(g) : Extended(g, 60)[i] = g[i]
    <3>1. PICK m \in Nat : m = 60
      BY Zenon
    <3>2. /\ Extended(g, m) \in Frame /\ len(Extended(g, m)) = IF len(g) < m THEN m ELSE len(g)
          /\ \A i \in 1..len(g) : Extended(g, m)[i] = g[i]
      BY <1>11, ExtendedFacts, Zenon
    <3>. QED BY <3>1, <3>2, Zenon
  <2>2. 13 \in 1..len(g) /\ 14 \in 1..len(g)
    BY <1>11
  <2>. QED BY <1>11, <2>1, <2>2
<1>. QED
  BY <1>11, <1>12, <1>13 DEF Announcement, Word

(* The premise of the theorems: no station frame with two VLAN tags, and   *)
(* none so long that the marks it gets overflow a length field or the      *)
(* buffer of readLoop.                                                     *)
StationFramesFit ==
    /\ \A f \in StationFrames : Fits(f)
    /\ 64 + 6 * (MaxHops + 1) < Nibble /\ 64 + 6 * (MaxHops + 1) <= BufLen

LEMMA AnnouncementFits ==
    ASSUME StationFramesFit, NEW s, Announcement(s)
    PROVE  /\ Fits(s) /\ ~IsVLANFrame(s) /\ GetEtherType(s) = PRPSuffix
<1>1. PRPSuffix \notin TPIDs
  BY DEF PRPSuffix, TPIDs, C_VLAN, S_VLAN
<1>2. s \in Frame /\ len(s) = 60 /\ ~IsVLANFrame(s) /\ Word(s, 12) = PRPSuffix
  BY <1>1, Zenon DEF Announcement, IsVLANFrame
<1>3. hsrTagOffset(s) = 14 /\ hsrTagOffset(s) - 2 = 12
  BY <1>2 DEF hsrTagOffset, TagLen
<1>4. Room(s)
  BY <1>2 DEF StationFramesFit, Room, Top
<1>5. Fits(s)
  BY <1>1, <1>2, <1>3, <1>4 DEF Fits
<1>6. GetEtherType(s) = Word(s, 12)
  BY <1>1, <1>2, <1>3, SingleTagType
<1>. QED
  BY <1>2, <1>5, <1>6, Zenon

LEMMA RCTedIsEncoded ==
    ASSUME NEW nr \in Number, NEW l
    PROVE  BuildRCTed(NodeMac, nr, l) = EncodeRCT(Build(NodeMac, nr), nr, l)
<1>. DEFINE f == Build(NodeMac, nr)
<1>1. Announcement(f)
  <2>1. SupVersion \in Number /\ LifeCheckDD \in Octet
    BY DEF SupVersion, LifeCheckDD, Number, Octet
  <2>. QED BY <2>1, SupFrame, Zenon DEF Build
<1>. HIDE DEF f
<1>2. len(f) = 60 /\ ~IsVLANFrame(f)
  BY <1>1 DEF Announcement, IsVLANFrame, PRPSuffix, TPIDs, C_VLAN, S_VLAN
<1>3. Padded(f) = f /\ TagLen(f) = 0
  BY <1>2 DEF Padded, Extended, TagLen
<1>4. len(f) + RCTLen - 14 - 0 = supLSDUSize
  BY <1>2 DEF RCTLen, supLSDUSize
<1>. QED
  BY <1>3, <1>4, Zenon DEF BuildRCTed, EncodeRCT, f

-----------------------------------------------------------------------------
(* What is on a wire: an unmarked frame that carries sent, a frame with a  *)
(* RedBox's trailer, or one with a RedBox's tag or announcement in a ring. *)
OnWire(g, at, m, s, n, nr, l, p) ==
    \/ /\ m = FALSE /\ n = 0 /\ Base(g, s, 0)
       /\ at = "ring" => Word(s, hsrTagOffset(s) - 2) # HSREtherType
    \/ m = TRUE /\ at = "lan" /\ OnLan(g, s, n, nr, l)
    \/ m = TRUE /\ at = "ring" /\ (InRing(g, s, n, nr, p) \/ (g = s /\ Announcement(g)))

(* The inductive invariant. *)
FrameInv ==
    /\ Fits(sent) /\ seq \in Number /\ lan \in Lans /\ path \in 0..15
    /\ trailers \in Nat /\ hops \in Nat /\ trailers <= hops /\ hops <= MaxHops
    /\ place \in Wires => OnWire(Received, place, marked, sent, trailers, seq, lan, path)
    /\ place = "station" /\ marked = TRUE => Base(frame, sent, trailers)

LEMMA OnWireFrame ==
    ASSUME NEW s, Fits(s), NEW n \in Nat, n <= MaxHops, NEW at, NEW m, NEW nr, NEW l, NEW p,
           NEW g, OnWire(g, at, m, s, n, nr, l, p)
    PROVE  g \in Frame /\ len(g) \in Nat /\ len(g) >= 14 /\ len(g) <= BufLen
<1>1. /\ Top(s) \in Nat /\ Top(s) >= 64 /\ Top(s) + 6 * (n + 1) <= BufLen
  BY RoomFacts, Zenon
<1>2. CASE n = 0 /\ Base(g, s, 0)
  <2>1. g \in Frame /\ len(g) \in Nat /\ len(g) >= 14 /\ len(g) <= Top(s) + 6 * 0
    BY <1>2, BaseHeader, Zenon DEF Base
  <2>. QED BY <1>1, <2>1, FramesAssumption
<1>3. CASE OnLan(g, s, n, nr, l)
  <2>1. g \in Frame /\ len(g) \in Nat /\ len(g) >= 66
    BY <1>3, FrameLen, Zenon DEF OnLan
  <2>2. len(WithoutRCT(g)) = len(g) - 6
    <3>1. 0 \in Nat /\ len(g) - 6 \in Nat /\ 0 <= len(g) - 6 /\ len(g) - 6 <= len(g)
      BY <2>1
    <3>. QED BY <2>1, <3>1, PartType DEF WithoutRCT, RCTLen
  <2>3. len(WithoutRCT(g)) <= Top(s) + 6 * n
    BY <1>3, Zenon DEF OnLan, Base
  <2>. QED BY <1>1, <2>1, <2>2, <2>3, FramesAssumption
<1>4. CASE InRing(g, s, n, nr, p)
  <2>1. g \in Frame /\ len(g) \in Nat /\ len(g) <= Top(s) + 6 * (n + 1) /\ HSRDecodes(g)
    BY <1>4, FrameLen, Zenon DEF InRing
  <2>2. len(g) >= 14
    BY <2>1, OffsetFacts DEF HSRTagLen
  <2>. QED BY <1>1, <2>1, <2>2, FramesAssumption
<1>5. CASE Announcement(g)
  BY <1>1, <1>5, FramesAssumption DEF Announcement
<1>. QED
  BY <1>2, <1>3, <1>4, <1>5, Zenon DEF OnWire

LEMMA InitInv == ASSUME StationFramesFit PROVE Init => FrameInv
<1>. SUFFICES ASSUME Init PROVE FrameInv
  BY Zenon
<1>1. aux = {} /\ trailers = 0 /\ hops = 0 /\ 0 <= MaxHops /\ Received = frame
  BY FramePathAssumption DEF Init, Received, Read
<1>2. CASE StationSends
  <2>1. /\ Fits(sent) /\ place \in Wires /\ frame = sent /\ marked = FALSE
        /\ lan \in Lans /\ path \in 0..15 /\ seq \in Number
    BY <1>2, FramePathAssumption DEF StationSends, StationFramesFit, Lans
  <2>2. Base(frame, sent, 0)
    BY <2>1, BaseSelf, Zenon
  <2>3. ASSUME place = "ring" PROVE Word(sent, hsrTagOffset(sent) - 2) # HSREtherType
    <3>1. GetEtherType(sent) = Word(sent, hsrTagOffset(sent) - 2)
      BY <2>1, SingleTagType, Zenon DEF Fits
    <3>. QED BY <1>2, <2>3, <3>1, Zenon DEF StationSends
  <2>. QED BY <1>1, <2>1, <2>2, <2>3 DEF FrameInv, OnWire, Wires
<1>3. CASE SendSupervisionFrame
  <2>1. seq \in Number /\ marked = TRUE
    BY <1>3, FramePathAssumption, Zenon DEF SendSupervisionFrame
  <2>2. CASE /\ sent = Build(NodeMac, seq) /\ lan \in Lans /\ path = 0
             /\ place = "lan" /\ frame = BuildRCTed(NodeMac, seq, lan)
    <3>1. SupVersion \in Number /\ LifeCheckDD \in Octet
      BY DEF SupVersion, LifeCheckDD, Number, Octet
    <3>2. Announcement(sent)
      BY <2>1, <2>2, <3>1, SupFrame, Zenon DEF Build
    <3>3. Fits(sent) /\ Base(sent, sent, 0)
      BY <3>2, AnnouncementFits, BaseSelf, Zenon
    <3>4. frame = EncodeRCT(sent, seq, lan)
      BY <2>1, <2>2, RCTedIsEncoded, Zenon
    <3>5. OnLan(frame, sent, 0, seq, lan)
      BY <1>1, <2>1, <2>2, <3>3, <3>4, LanWritten, Zenon
    <3>. QED BY <1>1, <2>1, <2>2, <3>3, <3>5 DEF FrameInv, OnWire
  <2>3. CASE /\ lan \in Lans /\ path \in {0} \cup {2 * n + lan : n \in NetIds}
             /\ sent = BuildHSR(NodeMac, seq, path) /\ place = "ring" /\ frame = sent
    <3>1. path \in 0..15
      BY <2>3, FramePathAssumption DEF Lans
    <3>2. Nibble * (path % 16) + SupVersion \in Number /\ HSRLifeCheck \in Octet
      BY <3>1 DEF SupVersion, HSRLifeCheck, Number, Octet, Nibble
    <3>3. Announcement(sent)
      BY <2>1, <2>3, <3>2, SupFrame, Zenon DEF BuildHSR
    <3>4. Fits(sent)
      BY <3>3, AnnouncementFits, Zenon
    <3>. QED BY <1>1, <2>1, <2>3, <3>1, <3>3, <3>4 DEF FrameInv, OnWire
  <2>. QED BY <1>3, <2>2, <2>3, Zenon DEF SendSupervisionFrame
<1>. QED
  BY <1>2, <1>3, Zenon DEF Init

(* A node's write to a wire, and a frame that leaves the wires. *)
LEMMA WriteStep ==
    ASSUME FrameInv, sent' = sent, aux' = {}, place' \in Wires,
           seq' \in Number, lan' \in Lans, path' \in 0..15,
           trailers' \in Nat, hops' \in Nat, trailers' <= hops', hops' <= MaxHops,
           OnWire(frame', place', marked', sent, trailers', seq', lan', path')
    PROVE  FrameInv'
<1>1. Received' = frame'
  BY Zenon DEF Received, Read
<1>. QED
  BY <1>1, Zenon DEF FrameInv, Wires

LEMMA LeaveStep ==
    ASSUME FrameInv, sent' = sent, place' \in Fates,
           UNCHANGED <<seq, lan, path, trailers, hops>>,
           place' = "station" /\ marked' = TRUE => Base(frame', sent, trailers)
    PROVE  FrameInv'
  BY Zenon DEF FrameInv, Wires, Fates

(* A frame that fits has the header that handleHSRInterlinkFrame slices. *)
LEMMA WholeHeader == ASSUME FrameInv, place = "interlink" PROVE ~InjectPanics(Received)
<1>1. PICK g : g = Received
  BY Zenon
<1>2. Fits(sent) /\ 0 \in Nat /\ 0 <= MaxHops /\ Base(g, sent, 0)
  BY <1>1, FramePathAssumption DEF FrameInv, OnWire, Wires
<1>3. len(g) \in Nat /\ len(g) >= hsrTagOffset(g)
  BY <1>2, BaseHeader, Zenon
<1>. QED
  BY <1>1, <1>3 DEF InjectPanics, hsrTagOffset, TagLen

LEMMA NextInv == ASSUME StationFramesFit PROVE FrameInv /\ [Next]_vars => FrameInv'
<1>. SUFFICES ASSUME FrameInv, [Next]_vars PROVE FrameInv'
  BY Zenon
<1>. DEFINE g == Received
<1>1. /\ Fits(sent) /\ seq \in Number /\ lan \in Lans /\ path \in 0..15
      /\ trailers \in Nat /\ hops \in Nat /\ trailers <= hops /\ hops <= MaxHops
      /\ trailers <= MaxHops /\ MaxHops \in Nat
  BY FramePathAssumption DEF FrameInv
<1>2. ASSUME place \in Wires
      PROVE  /\ OnWire(g, place, marked, sent, trailers, seq, lan, path)
             /\ g \in Frame /\ len(g) \in Nat /\ len(g) >= 14 /\ len(g) <= BufLen
  <2>1. OnWire(g, place, marked, sent, trailers, seq, lan, path)
    BY <1>2, Zenon DEF FrameInv
  <2>. HIDE DEF g
  <2>. QED BY <1>1, <2>1, OnWireFrame, Zenon
<1>3. /\ place = "interlink" => marked = FALSE /\ trailers = 0 /\ Base(g, sent, 0)
      /\ place = "lan" /\ marked # TRUE => marked = FALSE /\ trailers = 0 /\ Base(g, sent, 0)
      /\ place = "lan" /\ marked = TRUE => OnLan(g, sent, trailers, seq, lan)
  BY <1>2, Zenon DEF OnWire, Wires
<1>4. ASSUME place = "ring", ~Supervision, HSRDecodes(g)
      PROVE  marked = TRUE /\ InRing(g, sent, trailers, seq, path)
  <2>1. CASE Announcement(g)
    BY <1>4, <2>1, AnnouncementFits, Zenon DEF Supervision
  <2>2. CASE Base(g, sent, 0) /\ Word(sent, hsrTagOffset(sent) - 2) # HSREtherType
    <3>1. Word(g, hsrTagOffset(g) - 2) = Word(sent, hsrTagOffset(sent) - 2)
      BY <1>1, <2>2, BaseHeader
    <3>. QED BY <1>4, <2>2, <3>1, Zenon DEF HSRDecodes, HasHSRTag
  <2>. QED BY <1>2, <1>4, <2>1, <2>2, Zenon DEF OnWire, Wires
<1>5. CASE WirePads
  <2>1. /\ place \in Wires /\ aux = {} /\ len(frame) < 60 /\ frame' = Extended(frame, 60)
        /\ UNCHANGED <<sent, place, aux, seq, lan, path, marked, trailers, hops>>
    BY <1>5, Zenon DEF WirePads
  <2>2. g = frame
    BY <2>1, Zenon DEF Received, Read
  <2>3. Base(g, sent, 0) => Base(frame', sent, 0)
    BY <1>1, <2>1, <2>2, BaseExtended
  <2>4. InRing(g, sent, trailers, seq, path) => InRing(frame', sent, trailers, seq, path)
    BY <1>1, <2>1, <2>2, RingExtended, Zenon
  <2>5. ~OnLan(g, sent, trailers, seq, lan) /\ ~Announcement(g)
    BY <1>2, <2>1, <2>2 DEF OnLan, Announcement
  <2>6. OnWire(frame', place', marked', sent, trailers', seq', lan', path')
    BY <1>2, <2>1, <2>2, <2>3, <2>4, <2>5, Zenon DEF OnWire
  <2>. QED BY <1>1, <2>1, <2>6, WriteStep, Zenon
<1>6. CASE KernelTakesTag
  <2>1. /\ place \in Wires /\ aux = {} /\ IsVLANFrame(frame) /\ len(frame) >= 18
        /\ aux' = {[tpid |-> Word(frame, 12), tci |-> Word(frame, 14)]}
        /\ frame' = Part(frame, 0, 12) ++ Part(frame, 16, len(frame))
        /\ UNCHANGED <<sent, place, seq, lan, path, marked, trailers, hops>>
    BY <1>6, Zenon DEF KernelTakesTag
  <2>2. g = frame
    BY <2>1, Zenon DEF Received, Read
  <2>3. Read(frame', aux') = frame
    BY <1>2, <2>1, <2>2, TagRestored, Zenon
  <2>4. Received' = g
    BY <2>2, <2>3, Zenon DEF Received
  <2>. QED BY <1>2, <2>1, <2>4, Zenon DEF FrameInv, Wires
<1>7. CASE handleSupervisionFrame
  BY <1>7, LeaveStep, Zenon DEF handleSupervisionFrame, Panics, Ends, Writes, Fates
<1>8. ASSUME Drops PROVE FrameInv'
  BY <1>8, LeaveStep, Zenon DEF Drops, Ends, Writes, Fates
<1>9. CASE handleInterlinkFrame
  <2>1. /\ place = "interlink" /\ sent' = sent /\ aux' = {} /\ place' = "lan"
        /\ UNCHANGED <<seq, path, trailers, hops>>
    BY <1>9, Zenon DEF handleInterlinkFrame, Writes
  <2>2. CASE \E l \in Lans : frame' = EncodeRCT(g, seq, l) /\ lan' = l /\ marked' = TRUE
    <3>1. lan' \in Lans /\ OnLan(frame', sent, 0, seq, lan')
      BY <1>1, <1>3, <2>1, <2>2, LanWritten, Zenon
    <3>2. OnWire(frame', place', marked', sent, trailers', seq', lan', path')
      BY <1>3, <2>1, <2>2, <3>1, Zenon DEF OnWire
    <3>. QED BY <1>1, <2>1, <3>1, <3>2, WriteStep, Zenon DEF Wires
  <2>3. CASE frame' = g /\ UNCHANGED <<lan, marked>>
    <3>1. OnWire(frame', place', marked', sent, trailers', seq', lan', path')
      BY <1>3, <2>1, <2>3, Zenon DEF OnWire
    <3>. QED BY <1>1, <2>1, <2>3, <3>1, WriteStep, Zenon DEF Wires
  <2>. QED BY <1>9, <2>2, <2>3, Zenon DEF handleInterlinkFrame, Writes
<1>10. CASE handleIncomingPRPFrame
  <2>1. CASE Drops
    BY <1>8, <2>1, Zenon
  <2>2. CASE /\ place = "lan" /\ Writes(WithoutRCT(g), "station")
             /\ UNCHANGED <<seq, lan, path, marked, trailers, hops>>
    <3>1. marked' = TRUE => Base(frame', sent, trailers)
      BY <1>3, <2>2, Zenon DEF Writes, OnLan
    <3>. QED BY <2>2, <3>1, LeaveStep, Zenon DEF Writes, Fates
  <2>. QED BY <1>10, <2>1, <2>2, Zenon DEF handleIncomingPRPFrame
<1>11. CASE handleHSRInterlinkFrame
  <2>0. ~InjectPanics(g)
    BY <1>11, WholeHeader, Zenon DEF handleHSRInterlinkFrame
  <2>1. /\ place = "interlink" /\ sent' = sent /\ aux' = {} /\ place' = "ring"
        /\ frame' = Injected(g, 0, seq) /\ path' = 0 /\ marked' = TRUE
        /\ UNCHANGED <<seq, lan, trailers, hops>>
    BY <1>11, <2>0, Zenon DEF handleHSRInterlinkFrame, Writes
  <2>2. 0 \in 0..15 /\ InRing(frame', sent, 0, seq, 0)
    BY <1>1, <1>3, <2>1, RingWritten
  <2>3. OnWire(frame', place', marked', sent, trailers', seq', lan', path')
    BY <1>3, <2>1, <2>2, Zenon DEF OnWire
  <2>. QED BY <1>1, <2>1, <2>2, <2>3, WriteStep, Zenon DEF Wires
<1>12. CASE handleCoupledLanFrame
  <2>1. CASE Drops
    BY <1>8, <2>1, Zenon
  <2>2. CASE ~Drops
    <3>1. place = "lan" /\ hops < MaxHops /\ IsPRPFrame(g)
      BY <1>12, <2>2, Zenon DEF handleCoupledLanFrame
    <3>2. PICK k \in NetIds, l \in Lans :
              /\ Writes(Injected(g, 2 * k + l, RCTSeq(g)), "ring")
              /\ path' = 2 * k + l /\ seq' = RCTSeq(g)
              /\ trailers' = IF marked THEN trailers + 1 ELSE trailers
              /\ marked' = TRUE /\ hops' = hops + 1 /\ UNCHANGED lan
      BY <1>12, <3>1, Zenon DEF handleCoupledLanFrame
    <3>3. path' \in 0..15
      BY <3>2, FramePathAssumption DEF Lans
    <3>4. seq' \in Number
      <4>1. len(g) - 6 \in Nat /\ (len(g) - 6) + 2 <= len(g)
        BY <1>2, <3>1 DEF Wires
      <4>. HIDE DEF g
      <4>. QED BY <1>2, <3>1, <3>2, <4>1, OctetsOfWord, Zenon DEF RCTSeq, Wires
    <3>5. /\ trailers' \in Nat /\ hops' \in Nat /\ trailers' <= hops' /\ hops' <= MaxHops
          /\ trailers' <= MaxHops
      BY <1>1, <3>1, <3>2
    <3>6. Base(g, sent, trailers')
      <4>1. CASE marked = TRUE
        <5>1. trailers' = trailers + 1 /\ OnLan(g, sent, trailers, seq, lan)
          BY <1>3, <3>1, <3>2, <4>1, Zenon
        <5>. QED BY <1>1, <3>5, <5>1, BaseTunnelled, Zenon
      <4>2. CASE marked # TRUE
        BY <1>3, <3>1, <3>2, <4>2, Zenon
      <4>. QED BY <4>1, <4>2, Zenon
    <3>7. frame' = Injected(g, path', seq') /\ place' = "ring" /\ sent' = sent /\ aux' = {}
      BY <3>2, Zenon DEF Writes
    <3>8. InRing(frame', sent, trailers', seq', path')
      BY <1>1, <3>3, <3>4, <3>5, <3>6, <3>7, RingWritten, Zenon
    <3>9. OnWire(frame', place', marked', sent, trailers', seq', lan', path')
      BY <3>2, <3>7, <3>8, Zenon DEF OnWire
    <3>. QED BY <1>1, <3>2, <3>3, <3>4, <3>5, <3>7, <3>9, WriteStep, Zenon DEF Wires
  <2>. QED BY <2>1, <2>2, Zenon
<1>13. CASE ForwardOnRing
  <2>1. CASE Drops
    BY <1>8, <2>1, Zenon
  <2>2. CASE ~Drops
    <3>1. place = "ring" /\ ~Supervision /\ hops < MaxHops /\ HSRDecodes(g)
      BY <1>13, <2>2, Zenon DEF ForwardOnRing
    <3>2. PICK lane \in Lans :
              /\ Writes(RewriteHSRPathLane(g, lane), "ring")
              /\ path' = 2 * (path \div 2) + lane /\ hops' = hops + 1
              /\ UNCHANGED <<seq, lan, marked, trailers>>
      BY <1>13, <3>1, Zenon DEF ForwardOnRing
    <3>3. marked = TRUE /\ InRing(g, sent, trailers, seq, path)
      BY <1>4, <3>1, Zenon
    <3>4. path' \in 0..15 /\ hops' \in Nat /\ trailers <= hops' /\ hops' <= MaxHops
      BY <1>1, <3>1, <3>2 DEF Lans
    <3>5. InRing(RewriteHSRPathLane(g, lane), sent, trailers, seq, path')
      <4>1. g \in Frame /\ lane \in {0, 1} /\ HSRPath(g) = path
        BY <3>3, Zenon DEF InRing, Lans
      <4>. HIDE DEF g
      <4>. QED BY <3>1, <3>2, <3>3, <4>1, LaneRewrite, Zenon DEF InRing
    <3>6. OnWire(frame', place', marked', sent, trailers', seq', lan', path')
      BY <3>2, <3>3, <3>5, Zenon DEF OnWire, Writes
    <3>. QED BY <1>1, <3>2, <3>4, <3>6, WriteStep, Zenon DEF Wires, Writes
  <2>. QED BY <2>1, <2>2, Zenon
<1>14. CASE handleOtherRingFrame
  <2>1. /\ place = "ring" /\ ~Supervision /\ hops < MaxHops /\ HSRDecodes(g)
        /\ Writes(RewriteHSRPath(g, 0), "ring") /\ path' = 0 /\ hops' = hops + 1
        /\ UNCHANGED <<seq, lan, marked, trailers>>
    BY <1>14, Zenon DEF handleOtherRingFrame
  <2>2. marked = TRUE /\ InRing(g, sent, trailers, seq, path)
    BY <1>4, <2>1, Zenon
  <2>3. path' \in 0..15 /\ hops' \in Nat /\ trailers <= hops' /\ hops' <= MaxHops
    BY <1>1, <2>1
  <2>4. InRing(RewriteHSRPath(g, 0), sent, trailers, seq, 0)
    <3>1. g \in Frame /\ 0 \in 0..15
      BY <2>2 DEF InRing
    <3>. HIDE DEF g
    <3>. QED BY <2>1, <2>2, <3>1, PathRewrite, Zenon DEF InRing
  <2>5. OnWire(frame', place', marked', sent, trailers', seq', lan', path')
    BY <2>1, <2>2, <2>4, Zenon DEF OnWire, Writes
  <2>. QED BY <1>1, <2>1, <2>3, <2>5, WriteStep, Zenon DEF Wires, Writes
<1>15. CASE DeliverFromRing
  <2>1. /\ place = "ring" /\ ~Supervision /\ HSRDecodes(g) /\ Writes(StripHSR(g), "station")
        /\ UNCHANGED <<seq, lan, path, marked, trailers, hops>>
    BY <1>15, Zenon DEF DeliverFromRing
  <2>2. Base(frame', sent, trailers)
    BY <1>4, <2>1, Zenon DEF InRing, Writes
  <2>. QED BY <2>1, <2>2, LeaveStep, Zenon DEF Writes, Fates
<1>16. CASE couplingToPRP
  <2>1. CASE Drops
    BY <1>8, <2>1, Zenon
  <2>2. CASE ~Drops
    <3>1. place = "ring" /\ ~Supervision /\ HSRDecodes(g)
      BY <1>16, Zenon DEF couplingToPRP
    <3>2. PICK l \in Lans :
              /\ Writes(EncodeRCT(StripHSR(g), HSRSeq(g), l), "lan") /\ lan' = l
              /\ UNCHANGED <<seq, path, marked, trailers, hops>>
      BY <1>16, <2>2, Zenon DEF couplingToPRP
    <3>3. /\ marked = TRUE /\ Base(StripHSR(g), sent, trailers) /\ HSRSeq(g) = seq
      BY <1>4, <3>1, Zenon DEF InRing
    <3>4. OnLan(EncodeRCT(StripHSR(g), seq, l), sent, trailers, seq, l)
      BY <1>1, <3>3, LanWritten, Zenon
    <3>5. OnWire(frame', place', marked', sent, trailers', seq', lan', path')
      BY <3>2, <3>3, <3>4, Zenon DEF OnWire, Writes
    <3>. QED BY <1>1, <3>2, <3>5, WriteStep, Zenon DEF Wires, Writes
  <2>. QED BY <2>1, <2>2, Zenon
<1>17. CASE UNCHANGED vars
  BY <1>17, Zenon DEF vars, FrameInv, Received
<1>. QED
  BY <1>5, <1>6, <1>7, <1>9, <1>10, <1>11, <1>12, <1>13, <1>14, <1>15, <1>16, <1>17, Zenon DEF Next

(* Every frame a RedBox put on a LAN or a ring reads there as it was       *)
(* written (EncodeRCT, EncodeHSR, RewriteHSRPath, RewriteHSRPathLane,      *)
(* Read), for all station frames that fit.                                 *)
THEOREM AllReadAsWritten == ASSUME StationFramesFit PROVE Spec => []ReadsAsWritten
<1>1. FrameInv => ReadsAsWritten
  <2>. SUFFICES ASSUME FrameInv, marked = TRUE, place \in {"lan", "ring"} PROVE ReadsAsWritten
    BY Zenon DEF ReadsAsWritten
  <2>1. OnWire(Received, place, marked, sent, trailers, seq, lan, path)
    BY Zenon DEF FrameInv, Wires
  <2>2. Announcement(Received) => Supervision
    BY AnnouncementFits, Zenon DEF Supervision
  <2>. QED BY <2>1, <2>2, Zenon DEF ReadsAsWritten, OnWire, OnLan, InRing
<1>. QED
  BY <1>1, InitInv, NextInv, PTL DEF Spec

(* What a station gets begins with the octets the sender sent, and only    *)
(* padding follows unless a coupling took the frame into a ring (DecodeRCT,*)
(* StripHSR, handleHSRInterlinkFrame), for all station frames that fit.    *)
THEOREM AllGetWhatWasSent == ASSUME StationFramesFit PROVE Spec => []StationGetsWhatWasSent
<1>1. ASSUME FrameInv, place = "station", marked = TRUE
      PROVE  /\ len(frame) >= len(sent) /\ \A i \in 1..len(sent) : frame[i] = sent[i]
             /\ trailers = 0 => PaddedOnly(frame, sent)
  <2>1. /\ frame \in Frame /\ sent \in Frame /\ trailers \in Nat /\ CarriesWithTrailers(frame, sent, trailers)
    BY <1>1, Zenon DEF FrameInv, Base, Fits
  <2>2. len(frame) \in Nat /\ len(sent) \in Nat
    BY <2>1, FrameLen, Zenon
  <2>3. len(frame) >= len(sent)
    BY <2>1, <2>2 DEF CarriesWithTrailers, RCTLen
  <2>4. ASSUME trailers = 0 PROVE PaddedOnly(frame, sent)
    <3>1. len(frame) - 0 * RCTLen = len(frame)
      BY <2>2 DEF RCTLen
    <3>. QED BY <2>1, <2>4, <3>1, Zenon DEF CarriesWithTrailers, PaddedOnly
  <2>. QED BY <2>1, <2>3, <2>4, Zenon DEF CarriesWithTrailers
<1>2. FrameInv => StationGetsWhatWasSent
  BY <1>1, Zenon DEF StationGetsWhatWasSent
<1>. QED
  BY <1>2, InitInv, NextInv, PTL DEF Spec

-----------------------------------------------------------------------------
(* Announcements. *)

LEMMA Joined ==
    ASSUME NEW s \in Frame, NEW t \in Frame, NEW f, f = s ++ t,
           NEW m \in Nat, NEW k \in Nat, len(s) = m, len(t) = k
    PROVE  /\ f \in Frame /\ len(f) = m + k
           /\ \A i \in 1..m : f[i] = s[i]
           /\ \A i \in 1..k : f[m + i] = t[i]
  BY CatLen, CatAt, Zenon

LEMMA SupOctets ==
    ASSUME NEW word \in Number, NEW nr \in Number, NEW tlv \in Octet,
           NEW f, f = SupBody(NodeMac, word, nr, tlv)
    PROVE  /\ f \in Frame /\ len(f) = 60
           /\ \A i \in 1..6 : f[i] = SuperMulticastMAC[i] /\ f[6 + i] = NodeMac[i] /\ f[20 + i] = NodeMac[i]
           /\ Word(f, 12) = PRPSuffix /\ Word(f, 14) = word /\ Word(f, 16) = nr /\ f[19] = tlv
<1>1. /\ SuperMulticastMAC \in Frame /\ len(SuperMulticastMAC) = 6
  BY DEF SuperMulticastMAC, Frame, len, Octet
<1>2. NodeMac \in Frame /\ len(NodeMac) = 6
  BY FramePathAssumption, Zenon
<1>3. PRPSuffix \in Number
  BY DEF PRPSuffix, Number
<1>4. /\ Octets(PRPSuffix) \in Frame /\ len(Octets(PRPSuffix)) = 2
      /\ Octets(word) \in Frame /\ len(Octets(word)) = 2
      /\ Octets(nr) \in Frame /\ len(Octets(nr)) = 2
  BY <1>3, OctetsType, Zenon
<1>5. PICK t : t = <<tlv, 6>>
  BY Zenon
<1>6. t \in Frame /\ len(t) = 2 /\ t[1] = tlv
  BY <1>5 DEF Frame, len, Octet
<1>7. PICK a : a = SuperMulticastMAC ++ NodeMac
  BY Zenon
<1>8. a \in Frame /\ len(a) = 12 /\ \A i \in 1..6 : a[i] = SuperMulticastMAC[i] /\ a[6 + i] = NodeMac[i]
  BY <1>1, <1>2, <1>7, Joined
<1>9. PICK b : b = a ++ Octets(PRPSuffix)
  BY Zenon
<1>10. b \in Frame /\ len(b) = 14 /\ \A i \in 1..12 : b[i] = a[i]
  BY <1>4, <1>8, <1>9, Joined
<1>11. PICK c : c = b ++ Octets(word)
  BY Zenon
<1>12. c \in Frame /\ len(c) = 16 /\ (\A i \in 1..14 : c[i] = b[i]) /\ Word(c, 14) = word
  <2>1. c \in Frame /\ len(c) = 16 /\ \A i \in 1..14 : c[i] = b[i]
    BY <1>4, <1>10, <1>11, Joined
  <2>2. Word(c, 14) = Word(Octets(word), 14 - 14)
    BY <1>4, <1>10, <1>11, WordCat
  <2>. QED BY <2>1, <2>2, WordOctets
<1>13. PICK d : d = c ++ Octets(nr)
  BY Zenon
<1>14. d \in Frame /\ len(d) = 18 /\ (\A i \in 1..16 : d[i] = c[i]) /\ Word(d, 16) = nr
  <2>1. d \in Frame /\ len(d) = 18 /\ \A i \in 1..16 : d[i] = c[i]
    BY <1>4, <1>12, <1>13, Joined
  <2>2. Word(d, 16) = Word(Octets(nr), 16 - 16)
    BY <1>4, <1>12, <1>13, WordCat
  <2>. QED BY <2>1, <2>2, WordOctets
<1>15. PICK e : e = d ++ t
  BY Zenon
<1>16. e \in Frame /\ len(e) = 20 /\ (\A i \in 1..18 : e[i] = d[i]) /\ e[19] = tlv
  <2>1. e \in Frame /\ len(e) = 20 /\ \A i \in 1..18 : e[i] = d[i]
    BY <1>6, <1>14, <1>15, Joined
  <2>2. e[len(d) + 1] = t[1]
    BY <1>6, <1>14, <1>15, CatAt
  <2>. QED BY <1>6, <1>14, <2>1, <2>2
<1>17. PICK g : g = e ++ NodeMac
  BY Zenon
<1>18. /\ g \in Frame /\ len(g) = 26 /\ \A i \in 1..20 : g[i] = e[i]
       /\ \A i \in 1..6 : g[20 + i] = NodeMac[i]
  BY <1>2, <1>16, <1>17, Joined
<1>19. f = Extended(g, 60)
  BY <1>5, <1>7, <1>9, <1>11, <1>13, <1>15, <1>17, Zenon DEF SupBody
<1>20. f \in Frame /\ len(f) = 60 /\ \A i \in 1..26 : f[i] = g[i]
  <2>1. PICK m \in Nat : m = 60
    BY Zenon
  <2>2. /\ Extended(g, m) \in Frame /\ len(Extended(g, m)) = IF len(g) < m THEN m ELSE len(g)
        /\ \A i \in 1..len(g) : Extended(g, m)[i] = g[i]
    BY <1>18, ExtendedFacts, Zenon
  <2>. QED BY <1>18, <1>19, <2>1, <2>2
<1>21. /\ \A i \in 1..18 : f[i] = d[i]
       /\ f[19] = tlv /\ \A i \in 1..6 : f[20 + i] = NodeMac[i]
  BY <1>16, <1>18, <1>20
<1>22. \A i \in 1..12 : f[i] = a[i]
  BY <1>10, <1>12, <1>14, <1>21
<1>23. \A i \in 1..6 : f[i] = SuperMulticastMAC[i] /\ f[6 + i] = NodeMac[i]
  BY <1>8, <1>22
<1>24. Word(f, 14) = word /\ Word(f, 16) = nr
  BY <1>12, <1>14, <1>21 DEF Word
<1>25. Word(f, 12) = PRPSuffix
  BY SupFrame, Zenon DEF Announcement
<1>. QED
  BY <1>20, <1>21, <1>23, <1>24, <1>25, Zenon

LEMMA PartEqual ==
    ASSUME NEW f \in Frame, NEW a \in Nat, NEW m \in Frame, len(m) = 6, a + 6 <= len(f),
           \A i \in 1..6 : f[a + i] = m[i]
    PROVE  Part(f, a, a + 6) = m
<1>1. PICK p : p = Part(f, a, a + 6)
  BY Zenon
<1>2. p \in Frame /\ len(p) = 6
  BY <1>1, PartType
<1>3. \A i \in 1..6 : p[i] = f[a + i]
  BY <1>1, PartAt
<1>. QED
  BY <1>1, <1>2, <1>3, FrameEqual

(* What Parse reads in a frame that begins as an announcement. *)
LEMMA ParseSup ==
    ASSUME NEW word \in Number, NEW nr \in Number, NEW tlv \in Octet,
           NEW f, f = SupBody(NodeMac, word, nr, tlv),
           NEW g \in Frame, len(g) >= 60, \A i \in 1..60 : g[i] = f[i]
    PROVE  /\ ~ParsePanics(g)
           /\ Parse(g) = {[mac |-> NodeMac, seq |-> nr, path |-> word \div Nibble, tlv |-> tlv, macA |-> NodeMac]}
<1>1. /\ \A i \in 1..6 : f[i] = SuperMulticastMAC[i] /\ f[6 + i] = NodeMac[i] /\ f[20 + i] = NodeMac[i]
      /\ Word(f, 12) = PRPSuffix /\ Word(f, 14) = word /\ Word(f, 16) = nr /\ f[19] = tlv
  BY SupOctets
<1>2. \A i \in 1..6 : g[0 + i] = SuperMulticastMAC[i] /\ g[6 + i] = NodeMac[i] /\ g[20 + i] = NodeMac[i]
  BY <1>1
<1>3. /\ SuperMulticastMAC \in Frame /\ len(SuperMulticastMAC) = 6
      /\ NodeMac \in Frame /\ len(NodeMac) = 6 /\ len(g) \in Nat
  BY FramePathAssumption, FrameLen DEF SuperMulticastMAC, Frame, len, Octet
<1>4. Part(g, 0, 0 + 6) = SuperMulticastMAC
  BY <1>2, <1>3, PartEqual
<1>5. Part(g, 6, 6 + 6) = NodeMac
  BY <1>2, <1>3, PartEqual
<1>6. Part(g, 20, 20 + 6) = NodeMac
  BY <1>2, <1>3, PartEqual
<1>7. Word(g, 12) = PRPSuffix /\ Word(g, 14) = word /\ Word(g, 16) = nr /\ g[19] = tlv
  BY <1>1 DEF Word
<1>8. 0 + 6 = 6 /\ 6 + 6 = 12 /\ 20 + 6 = 26 /\ len(g) >= 20 /\ ~(len(g) < 26)
  BY <1>3
<1>. QED
  BY <1>4, <1>5, <1>6, <1>7, <1>8, Zenon DEF Parse, ParsePanics, IsSupFrame, GetSrcMAC

(* A frame read as supervision begins with the octets of sent, and sent    *)
(* has the EtherType of supervision: a frame with an HSR tag has not.      *)
LEMMA Carried ==
    ASSUME NEW s, Fits(s), NEW n \in Nat, n <= MaxHops, NEW at, NEW m, NEW nr, NEW l, NEW p,
           NEW g, OnWire(g, at, m, s, n, nr, l, p), GetEtherType(g) = PRPSuffix
    PROVE  /\ g \in Frame /\ len(s) \in Nat /\ len(g) >= len(s)
           /\ \A i \in 1..len(s) : g[i] = s[i]
           /\ GetEtherType(s) = PRPSuffix
<1>1. /\ s \in Frame /\ len(s) \in Nat /\ len(s) >= 14 /\ len(s) >= hsrTagOffset(s)
      /\ hsrTagOffset(s) \in {14, 18} /\ Word(s, hsrTagOffset(s) - 2) \notin TPIDs
  BY RoomFacts DEF Fits, hsrTagOffset, TagLen
<1>2. g \in Frame /\ len(g) \in Nat /\ len(g) >= 14
  BY OnWireFrame, Zenon
<1>3. GetEtherType(s) = Word(s, hsrTagOffset(s) - 2)
  BY <1>1, SingleTagType, Zenon
<1>4. ASSUME len(g) >= len(s), \A i \in 1..len(s) : g[i] = s[i]
      PROVE  GetEtherType(g) = GetEtherType(s)
  <2>1. \A k \in Nat : k + 2 <= len(s) => Word(g, k) = Word(s, k)
    <3>. SUFFICES ASSUME NEW k \in Nat, k + 2 <= len(s) PROVE Word(g, k) = Word(s, k)
      BY Zenon
    <3>1. k + 1 \in 1..len(s) /\ k + 2 \in 1..len(s)
      BY <1>1
    <3>. QED BY <1>4, <3>1, Zenon DEF Word
  <2>2. hsrTagOffset(g) = hsrTagOffset(s)
    <3>1. Word(g, 12) = Word(s, 12)
      BY <1>1, <2>1
    <3>. QED BY <1>1, <1>2, <3>1, Zenon DEF hsrTagOffset, TagLen, IsVLANFrame
  <2>3. Word(g, hsrTagOffset(g) - 2) = Word(s, hsrTagOffset(s) - 2)
    BY <1>1, <2>1, <2>2
  <2>4. len(g) >= hsrTagOffset(g)
    BY <1>1, <1>2, <1>4, <2>2
  <2>. QED BY <1>1, <1>2, <1>3, <2>3, <2>4, SingleTagType, Zenon
<1>5. CASE Base(g, s, 0)
  <2>1. len(g) >= len(s) /\ \A i \in 1..len(s) : g[i] = s[i]
    BY <1>5, <1>1, <1>2 DEF Base, CarriesWithTrailers, RCTLen
  <2>. QED BY <1>1, <1>2, <1>4, <2>1, Zenon
<1>6. CASE OnLan(g, s, n, nr, l)
  <2>1. PICK f : f = WithoutRCT(g)
    BY Zenon
  <2>2. Base(f, s, n) /\ len(g) >= 66
    BY <1>6, <2>1, Zenon DEF OnLan
  <2>3. len(f) \in Nat /\ len(f) >= len(s)
    BY <2>2, BaseHeader, Zenon
  <2>4. \A i \in 1..len(s) : f[i] = s[i]
    BY <2>2, Zenon DEF Base, CarriesWithTrailers
  <2>5. len(f) = len(g) - 6 /\ \A i \in 1..(len(g) - 6) : f[i] = g[i]
    <3>1. 0 \in Nat /\ len(g) - 6 \in Nat /\ 0 <= len(g) - 6 /\ len(g) - 6 <= len(g)
      BY <1>2, <2>2
    <3>2. f = Part(g, 0, len(g) - 6)
      BY <2>1, Zenon DEF WithoutRCT, RCTLen
    <3>3. len(f) = (len(g) - 6) - 0 /\ \A i \in 1..((len(g) - 6) - 0) : f[i] = g[0 + i]
      BY <1>2, <3>1, <3>2, PartType, PartAt, Zenon
    <3>. QED BY <1>2, <3>1, <3>3
  <2>6. len(g) >= len(s) /\ \A i \in 1..len(s) : g[i] = s[i]
    BY <1>1, <1>2, <2>3, <2>4, <2>5
  <2>. QED BY <1>1, <1>2, <1>4, <2>6, Zenon
<1>7. CASE InRing(g, s, n, nr, p)
  <2>1. HasHSRTag(g)
    BY <1>7, Zenon DEF InRing, HSRDecodes
  <2>2. Word(g, hsrTagOffset(g) - 2) = HSREtherType /\ len(g) >= hsrTagOffset(g)
    BY <1>2, <2>1 DEF HasHSRTag, HSRTagLen, hsrTagOffset, TagLen
  <2>3. HSREtherType \notin TPIDs /\ HSREtherType # PRPSuffix
    BY DEF HSREtherType, TPIDs, C_VLAN, S_VLAN, PRPSuffix
  <2>4. GetEtherType(g) = HSREtherType
    BY <1>2, <2>2, <2>3, SingleTagType, Zenon
  <2>. QED BY <2>3, <2>4, Zenon
<1>8. CASE g = s
  BY <1>1, <1>8
<1>. QED
  BY <1>5, <1>6, <1>7, <1>8, Zenon DEF OnWire

(* Where sent comes from. An announcement keeps its number on a LAN, and   *)
(* the one of a ring is as it was sent until a node reads it.              *)
Origin ==
    \/ sent \in StationFrames
    \/ sent = Build(NodeMac, seq) /\ marked = TRUE
    \/ /\ sent = BuildHSR(NodeMac, seq, path) /\ place \in {"ring", "consumed", "crashed"}
       /\ place = "ring" => Received = sent

LEMMA Announced ==
    ASSUME NEW nr \in Number, NEW p \in 0..15
    PROVE  /\ Announcement(Build(NodeMac, nr)) /\ Announcement(BuildHSR(NodeMac, nr, p))
           /\ SupVersion \in Number /\ LifeCheckDD \in Octet /\ HSRLifeCheck \in Octet
           /\ Nibble * (p % 16) + SupVersion \in Number
           /\ (Nibble * (p % 16) + SupVersion) \div Nibble = p
<1>1. SupVersion \in Number /\ LifeCheckDD \in Octet /\ HSRLifeCheck \in Octet
  BY DEF SupVersion, LifeCheckDD, HSRLifeCheck, Number, Octet
<1>2. p % 16 = p
  OBVIOUS
<1>3. /\ Nibble * (p % 16) + SupVersion \in Number
      /\ (Nibble * (p % 16) + SupVersion) \div Nibble = p
  BY <1>2 DEF SupVersion, Number, Nibble
<1>. QED
  BY <1>1, <1>3, SupFrame, Zenon DEF Build, BuildHSR

LEMMA InitOrigin == ASSUME StationFramesFit PROVE Init => Origin /\ AnnouncementsUnderstood
<1>. SUFFICES ASSUME Init PROVE Origin /\ AnnouncementsUnderstood
  BY Zenon
<1>1. aux = {} /\ Received = frame
  BY Zenon DEF Init, Received, Read
<1>. QED
  BY <1>1, Zenon DEF Init, StationSends, SendSupervisionFrame, Origin, AnnouncementsUnderstood, Wires

LEMMA NextOrigin ==
    ASSUME StationFramesFit, FrameInv, Origin, [Next]_vars
    PROVE  Origin'
<1>1. CASE sent \in StationFrames
  BY <1>1, Zenon DEF Origin, Next, vars, WirePads, KernelTakesTag, handleSupervisionFrame, handleInterlinkFrame,
     handleIncomingPRPFrame, handleHSRInterlinkFrame, handleCoupledLanFrame, ForwardOnRing,
     handleOtherRingFrame, DeliverFromRing, couplingToPRP, Drops, Panics, Ends, Writes
<1>2. CASE sent = Build(NodeMac, seq) /\ marked = TRUE
  <2>1. place = "lan" => RCTSeq(Received) = seq
    BY <1>2, Zenon DEF FrameInv, OnWire, OnLan, Wires
  <2>2. sent' = sent /\ seq' = seq /\ marked' = TRUE
    BY <1>2, <2>1, Zenon DEF Next, vars, WirePads, KernelTakesTag, handleSupervisionFrame, handleInterlinkFrame,
       handleIncomingPRPFrame, handleHSRInterlinkFrame, handleCoupledLanFrame, ForwardOnRing,
       handleOtherRingFrame, DeliverFromRing, couplingToPRP, Drops, Panics, Ends, Writes
  <2>. QED BY <1>2, <2>2, Zenon DEF Origin
<1>3. CASE /\ sent = BuildHSR(NodeMac, seq, path) /\ place \in {"ring", "consumed", "crashed"}
           /\ place = "ring" => Received = sent
  <2>1. CASE UNCHANGED vars
    BY <1>3, <2>1, Zenon DEF vars, Origin, Received
  <2>2. CASE handleSupervisionFrame
    BY <1>3, <2>2, Zenon DEF handleSupervisionFrame, Origin, Panics, Ends, Writes
  <2>3. Announcement(sent)
    BY <1>3, Announced, Zenon DEF FrameInv
  <2>4. place = "ring" => Supervision
    BY <1>3, <2>3, AnnouncementFits, Zenon DEF Supervision
  <2>5. ~WirePads /\ ~KernelTakesTag
    <3>1. place \in Wires /\ aux = {} => frame = sent
      BY <1>3, Zenon DEF Received, Read, Wires
    <3>. QED BY <2>3, <3>1, AnnouncementFits DEF WirePads, KernelTakesTag, Announcement
  <2>. QED
    BY <1>3, <2>1, <2>2, <2>4, <2>5, Zenon DEF Next, handleInterlinkFrame,
       handleIncomingPRPFrame, handleHSRInterlinkFrame, handleCoupledLanFrame, ForwardOnRing,
       handleOtherRingFrame, DeliverFromRing, couplingToPRP
<1>. QED
  BY <1>1, <1>2, <1>3, Zenon DEF Origin

LEMMA AnnouncementRead ==
    ASSUME StationFramesFit, FrameInv, Origin, handleSupervisionFrame
    PROVE  AnnouncementsUnderstood'
<1>1. /\ place \in Wires /\ GetEtherType(Received) = PRPSuffix
      /\ sent' = sent /\ seq' = seq /\ path' = path
  BY Zenon DEF handleSupervisionFrame, Supervision, Wires, Panics, Ends, Writes
<1>2. PICK g : g = Received
  BY Zenon
<1>3. /\ Fits(sent) /\ seq \in Number /\ path \in 0..15
      /\ trailers \in Nat /\ trailers <= MaxHops
      /\ OnWire(g, place, marked, sent, trailers, seq, lan, path)
  BY <1>1, <1>2, FramePathAssumption DEF FrameInv
<1>4. /\ g \in Frame /\ len(sent) \in Nat /\ len(g) >= len(sent)
      /\ \A i \in 1..len(sent) : g[i] = sent[i]
      /\ GetEtherType(sent) = PRPSuffix
  BY <1>1, <1>2, <1>3, Carried
<1>5. \/ ParsePanics(g) /\ place' = "crashed"
      \/ ~ParsePanics(g) /\ place' = "consumed" /\ heard' = Parse(g)
  BY <1>2, Zenon DEF handleSupervisionFrame, Panics, Ends, Writes
<1>6. ASSUME sent \notin StationFrames
      PROVE  /\ ~ParsePanics(g)
             /\ \E h \in Parse(g) : /\ h.mac = NodeMac /\ h.macA = NodeMac /\ h.seq = seq
                                    /\ h.tlv = HSRLifeCheck => h.path = path
  <2>1. ASSUME NEW word \in Number, NEW tlv \in Octet, sent = SupBody(NodeMac, word, seq, tlv),
               tlv = HSRLifeCheck => word \div Nibble = path
        PROVE  /\ ~ParsePanics(g)
               /\ \E h \in Parse(g) : /\ h.mac = NodeMac /\ h.macA = NodeMac /\ h.seq = seq
                                      /\ h.tlv = HSRLifeCheck => h.path = path
    <3>1. len(sent) = 60
      BY <1>3, <2>1, SupOctets
    <3>2. /\ ~ParsePanics(g)
          /\ Parse(g) = {[mac |-> NodeMac, seq |-> seq, path |-> word \div Nibble, tlv |-> tlv, macA |-> NodeMac]}
      BY <1>3, <1>4, <2>1, <3>1, ParseSup
    <3>3. PICK h : h = [mac |-> NodeMac, seq |-> seq, path |-> word \div Nibble, tlv |-> tlv, macA |-> NodeMac]
      BY Zenon
    <3>4. /\ h \in Parse(g) /\ h.mac = NodeMac /\ h.macA = NodeMac /\ h.seq = seq
          /\ h.tlv = HSRLifeCheck => h.path = path
      BY <2>1, <3>2, <3>3, Zenon
    <3>. QED BY <3>2, <3>4, Zenon
  <2>2. CASE sent = Build(NodeMac, seq)
    <3>1. LifeCheckDD # HSRLifeCheck
      BY DEF LifeCheckDD, HSRLifeCheck
    <3>. QED BY <1>3, <2>1, <2>2, <3>1, Announced, Zenon DEF Build
  <2>3. CASE sent = BuildHSR(NodeMac, seq, path)
    <3>1. PICK word : word = Nibble * (path % 16) + SupVersion
      BY Zenon
    <3>. QED BY <1>3, <2>1, <2>3, <3>1, Announced, Zenon DEF BuildHSR
  <2>. QED BY <1>6, <2>2, <2>3, Zenon DEF Origin
<1>7. Part(g, 0, 6) = Part(sent, 0, 6)
  <2>1. sent \in Frame /\ len(sent) >= 14 /\ len(g) \in Nat
    BY <1>3, <1>4, RoomFacts, FrameLen, Zenon DEF Fits
  <2>2. PICK m : m = Part(sent, 0, 6)
    BY Zenon
  <2>3. m \in Frame /\ len(m) = 6 /\ \A i \in 1..6 : m[i] = sent[0 + i]
    <3>1. 0 \in Nat /\ 6 \in Nat /\ 0 <= 6 /\ 6 <= len(sent)
      BY <1>4, <2>1
    <3>2. m \in Frame /\ len(m) = 6 - 0 /\ \A i \in 1..(6 - 0) : m[i] = sent[0 + i]
      BY <2>1, <2>2, <3>1, PartType, PartAt, Zenon
    <3>. QED BY <3>2
  <2>4. \A i \in 1..6 : g[0 + i] = m[i]
    BY <1>4, <2>1, <2>3
  <2>5. Part(g, 0, 0 + 6) = m
    BY <1>4, <2>1, <2>3, <2>4, PartEqual
  <2>. QED BY <2>2, <2>5
<1>8. ASSUME ParsePanics(g)
      PROVE  sent \in StationFrames /\ Part(sent, 0, 6) = SuperMulticastMAC /\ len(sent) < 26
  <2>1. sent \in StationFrames /\ Part(sent, 0, 6) = SuperMulticastMAC /\ len(g) < 26
    BY <1>6, <1>7, <1>8, Zenon DEF ParsePanics, IsSupFrame
  <2>2. len(g) \in Nat
    BY <1>4, FrameLen, Zenon
  <2>. QED BY <1>4, <2>1, <2>2
<1>9. Part(sent, 0, 6) # SuperMulticastMAC => Parse(g) = {}
  BY <1>7, Zenon DEF Parse, IsSupFrame
<1>10. CASE ParsePanics(g)
  <2>1. place' = "crashed" /\ place' # "consumed"
    BY <1>5, <1>10
  <2>. QED BY <1>1, <1>8, <1>10, <2>1, Zenon DEF AnnouncementsUnderstood
<1>11. CASE ~ParsePanics(g)
  <2>1. place' = "consumed" /\ place' # "crashed" /\ heard' = Parse(g)
    BY <1>5, <1>11
  <2>. QED BY <1>1, <1>4, <1>6, <1>9, <2>1, Zenon DEF AnnouncementsUnderstood
<1>. QED
  BY <1>10, <1>11, Zenon

(* A RedBox reads in an announcement the sender's MAC address, number and  *)
(* PathId, whatever the announcement passed on the way, learns nothing     *)
(* from a frame to another address, and panics on none but a station's     *)
(* frame to that address that is too short for what Parse slices           *)
(* (handleFrame, Build, BuildHSR, Parse).                                  *)
THEOREM AllAnnouncementsUnderstood ==
    ASSUME StationFramesFit PROVE Spec => []AnnouncementsUnderstood
<1>1. Init => FrameInv /\ Origin /\ AnnouncementsUnderstood
  BY InitInv, InitOrigin, Zenon
<1>2. FrameInv /\ Origin /\ AnnouncementsUnderstood /\ [Next]_vars
          => FrameInv' /\ Origin' /\ AnnouncementsUnderstood'
  <2>. SUFFICES ASSUME FrameInv, Origin, AnnouncementsUnderstood, [Next]_vars
                PROVE  FrameInv' /\ Origin' /\ AnnouncementsUnderstood'
    BY Zenon
  <2>1. ASSUME handleSupervisionFrame PROVE AnnouncementsUnderstood'
    BY <2>1, AnnouncementRead, Zenon
  <2>2. ASSUME UNCHANGED vars PROVE AnnouncementsUnderstood'
    BY <2>2, Zenon DEF vars, AnnouncementsUnderstood
  <2>3. handleHSRInterlinkFrame => ~InjectPanics(Received)
    BY WholeHeader, Zenon DEF handleHSRInterlinkFrame
  <2>4. ASSUME ~handleSupervisionFrame, ~UNCHANGED vars PROVE place' \notin {"consumed", "crashed"}
    BY <2>3, <2>4, Zenon DEF Next, WirePads, KernelTakesTag, handleInterlinkFrame,
       handleIncomingPRPFrame, handleHSRInterlinkFrame, handleCoupledLanFrame, ForwardOnRing,
       handleOtherRingFrame, DeliverFromRing, couplingToPRP, Drops, Ends, Writes, Wires
  <2>5. AnnouncementsUnderstood'
    BY <2>1, <2>2, <2>4, Zenon DEF AnnouncementsUnderstood
  <2>. QED BY <2>5, NextInv, NextOrigin, Zenon
<1>. QED
  BY <1>1, <1>2, PTL DEF Spec
=============================================================================
