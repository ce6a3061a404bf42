-------------------------- MODULE IpModifierProofs --------------------------
(***************************************************************************)
(* Proofs about IpModifier, for every set of frames, every address and     *)
(* every length of the buffer.                                             *)
(***************************************************************************)
EXTENDS IpModifier, SequenceTheorems, WellFoundedInduction, TLAPS

(* Sequences whose elements have no known type: a checksum is one.         *)
Elements(s) == {s[i] : i \in 1..Len(s)}
IsSequence(s) == s \in Seq(Elements(s))

ModifierInv ==
  /\ IsSequence(buffer) /\ Len(buffer) = BufferLen
  /\ IsSequence(sent) /\ NothingElseChanges /\ ReaddressedValidly
-----------------------------------------------------------------------------
(* What is a sequence of anything is a sequence of its elements.           *)
LEMMA SequenceOf ==
  ASSUME NEW S, NEW s \in Seq(S)
  PROVE  IsSequence(s)
<1>1. Len(s) \in Nat /\ s \in [1..Len(s) -> S]
  BY LenProperties
<1>2. s \in [1..Len(s) -> Elements(s)]
  BY <1>1 DEF Elements
<1>3. s \in Seq(Elements(s))
  BY <1>1, <1>2
<1> QED
  BY <1>3 DEF IsSequence

(* The buffer behind the frame is what it was, and its beginning is the    *)
(* frame.                                                                  *)
LEMMA FilledIs ==
  ASSUME IsSequence(buffer), Len(buffer) = BufferLen, NEW f \in Captured
  PROVE  /\ IsSequence(Filled(f)) /\ Len(Filled(f)) = BufferLen
         /\ Len(f) \in 7..BufferLen
         /\ \A n \in 1..Len(f) : Filled(f)[n] = f[n] /\ f[n] \in Word
<1>1. f \in Seq(Word) /\ Len(f) \in 7..BufferLen /\ BufferLen \in Nat
  BY IpModifierAssumption DEF IpModifierAssumption
<1> DEFINE S == Word \cup Elements(buffer)
           rest == SubSeq(buffer, Len(f) + 1, BufferLen)
<1>2. f \in Seq(S) /\ \A n \in 1..Len(f) : f[n] \in Word
  BY <1>1, LenProperties, ElementOfSeq, SeqMonotonic
<1>3. \A i \in (Len(f) + 1)..BufferLen : buffer[i] \in S
  BY <1>1 DEF Elements
<1> HIDE DEF S
<1>4. rest \in Seq(S) /\ Len(rest) = BufferLen - Len(f)
  BY <1>1, <1>3, SubSeqProperties
<1> HIDE DEF rest
<1>5. /\ f \o rest \in Seq(S) /\ Len(f \o rest) = BufferLen
      /\ \A n \in 1..Len(f) : (f \o rest)[n] = f[n]
  BY <1>1, <1>2, <1>4, ConcatProperties
<1>6. Filled(f) = f \o rest
  BY DEF Filled, rest
<1> QED
  BY <1>1, <1>2, <1>5, <1>6, SequenceOf

(* Words are the numbers of two bytes.                                     *)
LEMMA WordIs ==
  ASSUME NEW w
  PROVE  w \in Word <=> w \in Nat /\ w <= 65535
<1>1. w \in Word <=> w \in Nat /\ w <= UINT16_MAX
  <2>1. UINT16_MAX \in Int
    BY DEF UINT16_MAX
  <2> QED
    BY <2>1 DEF Word
<1> QED
  BY <1>1 DEF UINT16_MAX

(* A word read as a signed value is 0x0800 if it is that, and never 0x8100. *)
LEMMA ShortOf ==
  ASSUME NEW w \in Word
  PROVE  Short(w) # ETH_P_8021Q /\ (Short(w) = ETH_P_IP <=> w = ETH_P_IP)
<1>1. w \in Int /\ 0 <= w /\ w < 65536
  BY WordIs
<1>2. CASE w < 32768
  <2>1. Short(w) = w
    BY <1>2 DEF Short
  <2> QED
    BY <1>1, <1>2, <2>1 DEF ETH_P_8021Q, ETH_P_IP
<1>3. CASE ~(w < 32768)
  <2>1. Short(w) = w - 65536
    BY <1>3 DEF Short
  <2> QED
    BY <1>1, <1>3, <2>1 DEF ETH_P_8021Q, ETH_P_IP
<1> QED
  BY <1>2, <1>3

(* So a frame counts as IPv4 if it is untagged IPv4, and the node looks    *)
(* for its header where that of an untagged frame begins.                  *)
LEMMA TypeIsSigned ==
  ASSUME NEW b, b[7] \in Word
  PROVE  /\ is_ip_packet(b) <=> b[7] = ETH_P_IP
         /\ ip_offset(b) = 14
<1>1. type_field(b) = Short(b[7])
  <2>1. 12 \div 2 + 1 = 7
    OBVIOUS
  <2> QED
    BY <2>1 DEF type_field, At
<1> QED
  BY <1>1, ShortOf DEF is_ip_packet, ip_offset

(* Writing a word into the buffer.                                         *)
Written(b, k, w) == [b EXCEPT ![k] = w]

(* It changes this word only.                                              *)
LEMMA WordWritten ==
  ASSUME NEW b, IsSequence(b), NEW k \in 1..Len(b), NEW w
  PROVE  /\ IsSequence(Written(b, k, w)) /\ Len(Written(b, k, w)) = Len(b)
         /\ \A n \in 1..Len(b) : n # k => Written(b, k, w)[n] = b[n]
         /\ Written(b, k, w)[k] = w
<1>1. PICK c : c = [b EXCEPT ![k] = w]
  OBVIOUS
<1>2. Len(b) \in Nat /\ b \in [1..Len(b) -> Elements(b)]
  BY LenProperties DEF IsSequence
<1>3. c \in [1..Len(b) -> Elements(b) \cup {w}]
  BY <1>1, <1>2
<1>4. c \in Seq(Elements(b) \cup {w}) /\ Len(c) = Len(b)
  BY <1>2, <1>3
<1>5. IsSequence(c)
  BY <1>4, SequenceOf
<1>6. c[k] = w /\ \A n \in 1..Len(b) : n # k => c[n] = b[n]
  BY <1>1, <1>2
<1> QED
  BY <1>1, <1>4, <1>5, <1>6 DEF Written

(* Readdressing writes the address, clears the checksum, and writes the    *)
(* checksum of what it then has.                                           *)
Cleared(b, c) ==
  /\ IsSequence(c) /\ Len(c) = Len(b)
  /\ c[13] = 0 /\ c[16] = NewIp[1] /\ c[17] = NewIp[2]
  /\ \A n \in 1..Len(b) : n \notin {13, 16, 17} => c[n] = b[n]

LEMMA ModifiesInTwoSteps ==
  ASSUME NEW b, IsSequence(b), Len(b) \in Nat, Len(b) >= 23, b[7] \in Word
  PROVE  \E c : /\ Cleared(b, c)
                /\ modify_destination_ip(b) = Written(c, 13, Checksum(Header(c, 14)))
<1>0. {13, 16, 17} \subseteq 1..Len(b)
  OBVIOUS
<1>1. ip_offset(b) = 14
  BY TypeIsSigned
<1>2. PICK b1 : b1 = Written(b, 16, NewIp[1])
  OBVIOUS
<1>3. PICK b2 : b2 = Written(b1, 17, NewIp[2])
  OBVIOUS
<1>4. PICK b3 : b3 = Written(b2, 13, 0)
  OBVIOUS
<1>5. modify_destination_ip(b) = Written(b3, 13, Checksum(Header(b3, 14)))
  BY <1>1, <1>2, <1>3, <1>4 DEF modify_destination_ip, Written
<1>6. /\ IsSequence(b1) /\ Len(b1) = Len(b) /\ b1[16] = NewIp[1]
      /\ \A n \in 1..Len(b) : n # 16 => b1[n] = b[n]
  BY <1>0, <1>2, WordWritten
<1>7. /\ IsSequence(b2) /\ Len(b2) = Len(b) /\ b2[17] = NewIp[2]
      /\ \A n \in 1..Len(b) : n # 17 => b2[n] = b1[n]
  BY <1>0, <1>3, <1>6, WordWritten
<1>8. /\ IsSequence(b3) /\ Len(b3) = Len(b) /\ b3[13] = 0
      /\ \A n \in 1..Len(b) : n # 13 => b3[n] = b2[n]
  BY <1>0, <1>4, <1>7, WordWritten
<1>9. b3[16] = NewIp[1] /\ b3[17] = NewIp[2]
  BY <1>0, <1>6, <1>7, <1>8
<1>10. Cleared(b, b3)
  BY <1>6, <1>7, <1>8, <1>9 DEF Cleared
<1> QED
  BY <1>5, <1>10

(* So it changes the checksum and the two words of the address at most.    *)
LEMMA ModifiesThreeWords ==
  ASSUME NEW b, IsSequence(b), Len(b) \in Nat, Len(b) >= 23, b[7] \in Word
  PROVE  /\ IsSequence(modify_destination_ip(b))
         /\ Len(modify_destination_ip(b)) = Len(b)
         /\ \A n \in 1..Len(b) :
              n \notin {13, 16, 17} => modify_destination_ip(b)[n] = b[n]
<1>1. PICK c : /\ Cleared(b, c)
               /\ modify_destination_ip(b) = Written(c, 13, Checksum(Header(c, 14)))
  BY ModifiesInTwoSteps
<1>2. PICK x : x = Checksum(Header(c, 14))
  OBVIOUS
<1>3. 13 \in 1..Len(c) /\ IsSequence(c) /\ Len(c) = Len(b)
  BY <1>1 DEF Cleared
<1>4. /\ IsSequence(Written(c, 13, x)) /\ Len(Written(c, 13, x)) = Len(b)
      /\ \A n \in 1..Len(b) : n # 13 => Written(c, 13, x)[n] = c[n]
  BY <1>3, WordWritten
<1> QED
  BY <1>1, <1>2, <1>4 DEF Cleared
-----------------------------------------------------------------------------
(* Induction over the natural numbers, for sets of them: the library's     *)
(* theorem takes an operator, but that the order is well-founded does not. *)
Less == {p \in Nat \X Nat : p[1] < p[2]}

(* No set of naturals descends for ever.                                   *)
LEMMA LessWF == IsWellFoundedOn(Less, Nat)
  BY NatLessThanWellFounded DEF OpToRel, Less

(* A set of naturals that is not empty has a least element.                *)
LEMMA Least ==
  ASSUME NEW T \in SUBSET Nat, T # {}
  PROVE  \E n \in T : \A m \in T : n <= m
<1>1. PICK n \in T : \A m \in T : <<m, n>> \notin Less
  BY LessWF, WFMin
<1>2. ASSUME NEW m \in T PROVE n <= m
  <2>1. ~(m < n)
    <3> SUFFICES ASSUME m < n PROVE FALSE
      OBVIOUS
    <3>1. PICK p : p = <<m, n>>
      OBVIOUS
    <3>2. p \in Nat \X Nat /\ p[1] < p[2]
      BY <3>1
    <3> QED
      BY <1>1, <3>1, <3>2 DEF Less
  <2> QED
    BY <2>1
<1> QED
  BY <1>2

(* A set that contains 0 and with each number the next contains all.       *)
LEMMA Induct ==
  ASSUME NEW T, 0 \in T, \A n \in Nat : n \in T => n + 1 \in T
  PROVE  Nat \subseteq T
<1> SUFFICES ASSUME Nat \ T # {} PROVE FALSE
  OBVIOUS
<1>1. PICK n \in Nat \ T : \A m \in Nat \ T : n <= m
  BY Least
<1>2. n # 0 /\ n - 1 \in Nat
  BY <1>1
<1>3. n - 1 \in T
  BY <1>1, <1>2
<1> QED
  BY <1>1, <1>2, <1>3
-----------------------------------------------------------------------------
(* The sums of the first words, as the loop forms them.                    *)
IsSums(s, w, n) ==
  s = [m \in 0..n |-> IF m = 0 THEN 0 ELSE s[m - 1] + w[m]]

LEMMA SumsExist ==
  ASSUME NEW w, NEW n \in Nat
  PROVE  \E s : IsSums(s, w, n)
<1> DEFINE T == {k \in Nat : \E s : IsSums(s, w, k)}
<1>1. 0 \in T
  <2>1. PICK s : s = [m \in 0..0 |-> 0]
    OBVIOUS
  <2>2. s = [m \in 0..0 |-> IF m = 0 THEN 0 ELSE s[m - 1] + w[m]]
    BY <2>1
  <2> QED
    BY <2>2 DEF IsSums
<1>2. ASSUME NEW k \in Nat, k \in T PROVE k + 1 \in T
  <2>1. PICK s : IsSums(s, w, k)
    BY <1>2
  <2>2. PICK t : t = [m \in 0..(k + 1) |-> IF m = k + 1 THEN s[k] + w[k + 1] ELSE s[m]]
    OBVIOUS
  <2>3. ASSUME NEW m \in 0..(k + 1)
        PROVE  t[m] = IF m = 0 THEN 0 ELSE t[m - 1] + w[m]
    <3>1. CASE m = k + 1
      <4>1. t[m] = s[k] + w[m] /\ m - 1 = k /\ m # 0 /\ t[k] = s[k]
        BY <2>2, <3>1
      <4> QED
        BY <4>1
    <3>2. CASE m # k + 1
      <4>1. m \in 0..k /\ t[m] = s[m]
        BY <2>2, <3>2
      <4>2. s[m] = IF m = 0 THEN 0 ELSE s[m - 1] + w[m]
        BY <2>1, <4>1 DEF IsSums
      <4>3. m # 0 => t[m - 1] = s[m - 1]
        BY <2>2, <4>1
      <4> QED
        BY <4>1, <4>2, <4>3
    <3> QED
      BY <3>1, <3>2
  <2>4. IsSums(t, w, k + 1)
    BY <2>2, <2>3 DEF IsSums
  <2> QED
    BY <2>4
<1> HIDE DEF T
<1>3. Nat \subseteq T
  BY <1>1, <1>2, Induct
<1> QED
  BY <1>3 DEF T

(* What the definition of Sum means.                                       *)
LEMMA SumIs ==
  ASSUME NEW w, Len(w) \in Nat
  PROVE  \E s : IsSums(s, w, Len(w)) /\ Sum(w) = s[Len(w)]
<1> DEFINE s == CHOOSE s : IsSums(s, w, Len(w))
<1>1. IsSums(s, w, Len(w))
  BY SumsExist, Zenon
<1>2. Sum(w) = s[Len(w)]
  BY Zenon DEF Sum, IsSums
<1> QED
  BY <1>1, <1>2

(* Word by word.                                                           *)
LEMMA SumsStep ==
  ASSUME NEW w, NEW n \in Nat, NEW s, IsSums(s, w, n)
  PROVE  s[0] = 0 /\ \A m \in 1..n : s[m] = s[m - 1] + w[m]
<1>1. \A m \in 0..n : s[m] = IF m = 0 THEN 0 ELSE s[m - 1] + w[m]
  BY DEF IsSums
<1>2. s[0] = 0
  BY <1>1
<1>3. \A m \in 1..n : m \in 0..n /\ m # 0
  OBVIOUS
<1> QED
  BY <1>1, <1>2, <1>3

(* A sum of words is a number that its last carries bound, and not less    *)
(* than the first word.                                                    *)
LEMMA SumBound ==
  ASSUME NEW w, Len(w) \in Nat, \A i \in 1..Len(w) : w[i] \in Word
  PROVE  /\ Sum(w) \in Nat /\ Sum(w) <= 65535 * Len(w)
         /\ Len(w) # 0 => Sum(w) >= w[1]
<1>1. PICK s : IsSums(s, w, Len(w)) /\ Sum(w) = s[Len(w)]
  BY SumIs
<1>2. s[0] = 0 /\ \A m \in 1..Len(w) : s[m] = s[m - 1] + w[m]
  BY <1>1, SumsStep
<1> DEFINE T == {n \in Nat : n <= Len(w) =>
                   /\ s[n] \in Nat /\ s[n] <= 65535 * n
                   /\ n # 0 => s[n] >= w[1]}
<1>3. 0 \in T
  BY <1>2
<1>4. ASSUME NEW n \in Nat, n \in T PROVE n + 1 \in T
  <2> SUFFICES ASSUME n + 1 <= Len(w)
               PROVE  /\ s[n + 1] \in Nat /\ s[n + 1] <= 65535 * (n + 1)
                      /\ s[n + 1] >= w[1]
    OBVIOUS
  <2>1. /\ s[n] \in Nat /\ s[n] <= 65535 * n /\ (n # 0 => s[n] >= w[1])
    BY <1>4
  <2>2. n + 1 \in 1..Len(w) /\ (n + 1) - 1 = n
    OBVIOUS
  <2>3. s[n + 1] = s[n] + w[n + 1]
    BY <1>2, <2>2
  <2>4. PICK a, x, y : a = s[n] /\ x = w[n + 1] /\ y = w[1]
    OBVIOUS
  <2>5. x \in Nat /\ x <= 65535 /\ y \in Nat
    BY <2>2, <2>4, WordIs
  <2>6. s[n + 1] = a + x /\ a \in Nat /\ a <= 65535 * n
    BY <2>1, <2>3, <2>4
  <2>7. a + x >= y
    <3>1. CASE n = 0
      BY <1>2, <2>4, <2>5, <3>1
    <3>2. CASE n # 0
      BY <2>1, <2>4, <2>5, <2>6, <3>2
    <3> QED
      BY <3>1, <3>2
  <2> QED
    BY <2>4, <2>5, <2>6, <2>7
<1> HIDE DEF T
<1>5. Len(w) \in T
  BY <1>3, <1>4, Induct
<1> QED
  BY <1>1, <1>5 DEF T

(* A word that is larger makes the sum larger.                             *)
LEMMA SumOfOneMore ==
  ASSUME NEW v, NEW w, Len(v) \in Nat, Len(w) = Len(v),
         \A i \in 1..Len(v) : v[i] \in Word,
         NEW k \in 1..Len(v), NEW c \in Nat, v[k] = 0, w[k] = c,
         \A i \in 1..Len(v) : i # k => w[i] = v[i]
  PROVE  Sum(w) = Sum(v) + c
<1>1. PICK s : IsSums(s, v, Len(v)) /\ Sum(v) = s[Len(v)]
  BY SumIs
<1>2. PICK t : IsSums(t, w, Len(v)) /\ Sum(w) = t[Len(v)]
  BY SumIs
<1>3. s[0] = 0 /\ \A m \in 1..Len(v) : s[m] = s[m - 1] + v[m]
  BY <1>1, SumsStep
<1>4. t[0] = 0 /\ \A m \in 1..Len(v) : t[m] = t[m - 1] + w[m]
  BY <1>2, SumsStep
<1> DEFINE T == {n \in Nat : n <= Len(v) =>
                   s[n] \in Nat /\ t[n] = IF n < k THEN s[n] ELSE s[n] + c}
<1>5. 0 \in T
  BY <1>3, <1>4
<1>6. ASSUME NEW n \in Nat, n \in T PROVE n + 1 \in T
  <2> SUFFICES ASSUME n + 1 <= Len(v)
               PROVE  /\ s[n + 1] \in Nat
                      /\ t[n + 1] = IF n + 1 < k THEN s[n + 1] ELSE s[n + 1] + c
    OBVIOUS
  <2>1. s[n] \in Nat /\ t[n] = IF n < k THEN s[n] ELSE s[n] + c
    BY <1>6
  <2>2. n + 1 \in 1..Len(v) /\ (n + 1) - 1 = n
    OBVIOUS
  <2>3. s[n + 1] = s[n] + v[n + 1] /\ t[n + 1] = t[n] + w[n + 1]
    BY <1>3, <1>4, <2>2
  <2>4. PICK x, y : x = v[n + 1] /\ y = w[n + 1]
    OBVIOUS
  <2>5. x \in Nat
    BY <2>2, <2>4, WordIs
  <2>6. IF n + 1 = k THEN x = 0 /\ y = c ELSE y = x
    BY <2>2, <2>4
  <2> QED
    BY <2>1, <2>3, <2>4, <2>5, <2>6
<1> HIDE DEF T
<1>7. Len(v) \in T
  BY <1>5, <1>6, Induct
<1> QED
  BY <1>1, <1>2, <1>7 DEF T
-----------------------------------------------------------------------------
(* The sums that folding takes another sum to.                             *)
IsFold(g) == g = [s \in Nat |-> IF s <= UINT16_MAX THEN s ELSE g[Carried(s)]]

(* Multiples of the modulus do not count.                                  *)
LEMMA ModShift ==
  ASSUME NEW u \in Nat, NEW v \in Nat, NEW q \in Nat, v = u + 65535 * q
  PROVE  v % 65535 = u % 65535
BY SMT

(* A sum of two words or more loses a multiple of 65535.                   *)
LEMMA CarriedIs ==
  ASSUME NEW s \in Nat, ~(s <= UINT16_MAX)
  PROVE  \E q \in Nat : /\ s = Carried(s) + UINT16_MAX * q
                        /\ Carried(s) \in Nat \ {0} /\ Carried(s) < s
<1>1. PICK q, r : q = s \div 65536 /\ r = s % 65536
  OBVIOUS
<1>2. ~(s <= 65535)
  BY SMT DEF UINT16_MAX
<1>3. q \in Nat /\ r \in Nat /\ s = 65536 * q + r /\ q # 0
  BY <1>1, <1>2, SMT
<1>4. PICK c : c = r + q
  OBVIOUS
<1>5. Carried(s) = c
  BY <1>1, <1>4, SMT DEF Carried
<1>6. s = c + 65535 * q /\ c \in Nat \ {0} /\ c < s
  BY <1>3, <1>4, SMT
<1>7. s = c + UINT16_MAX * q
  BY <1>6, SMT DEF UINT16_MAX
<1>8. q \in Nat
  BY <1>3
<1> WITNESS q \in Nat
<1> QED
  BY <1>5, <1>6, <1>7, SMT

(* One number less, it is the remainder of the number that the sum is one  *)
(* less, which defines what folding comes to.                              *)
LEMMA FoldExists == \E g : IsFold(g)
<1>1. PICK g : g = [s \in Nat |-> IF s = 0 THEN 0 ELSE ((s - 1) % UINT16_MAX) + 1]
  OBVIOUS
<1>2. ASSUME NEW s \in Nat
      PROVE  g[s] = IF s <= UINT16_MAX THEN s ELSE g[Carried(s)]
  <2>1. g[s] = IF s = 0 THEN 0 ELSE ((s - 1) % UINT16_MAX) + 1
    BY <1>1
  <2>2. CASE s <= UINT16_MAX
    <3>1. s # 0 => (s - 1) % UINT16_MAX = s - 1
      BY <2>2, SMT DEF UINT16_MAX
    <3> QED
      BY <2>1, <2>2, <3>1
  <2>3. CASE ~(s <= UINT16_MAX)
    <3>1. PICK q \in Nat : /\ s = Carried(s) + UINT16_MAX * q
                           /\ Carried(s) \in Nat \ {0} /\ Carried(s) < s
      BY <2>3, CarriedIs
    <3>2. PICK t \in Nat \ {0} : t = Carried(s)
      BY <3>1
    <3>3. g[t] = ((t - 1) % UINT16_MAX) + 1
      BY <1>1, <3>2
    <3>4. (s - 1) % UINT16_MAX = (t - 1) % UINT16_MAX
      <4>1. PICK u \in Nat, v \in Nat : u = t - 1 /\ v = s - 1
        BY <3>1, <3>2, SMT
      <4>2. v = u + 65535 * q
        BY <3>1, <3>2, <4>1, SMT DEF UINT16_MAX
      <4>3. v % 65535 = u % 65535
        BY ONLY <4>2, ModShift
      <4> QED
        BY <4>1, <4>3, SMT DEF UINT16_MAX
    <3>5. s # 0
      BY <3>1
    <3> QED
      BY <2>1, <2>3, <3>2, <3>3, <3>4, <3>5
  <2> QED
    BY <2>2, <2>3
<1> HIDE DEF IsFold
<1>3. g = [s \in Nat |-> IF s <= UINT16_MAX THEN s ELSE g[Carried(s)]]
  <2>1. g = [s \in Nat |-> g[s]]
    BY <1>1
  <2> QED
    BY <1>2, <2>1
<1> QED
  BY <1>3 DEF IsFold

(* What the definition of Folded means.                                    *)
LEMMA FoldedUnfolds ==
  \E g : IsFold(g) /\ \A s : Folded(s) = g[s]
<1> DEFINE g == CHOOSE g : IsFold(g)
<1>1. IsFold(g)
  BY FoldExists, Zenon
<1>2. ASSUME NEW s PROVE Folded(s) = g[s]
  BY Zenon DEF Folded, IsFold
<1> QED
  BY <1>1, <1>2

(* The folded sum is one word, and equal to the sum modulo 65535.          *)
LEMMA FoldedIs ==
  ASSUME NEW s \in Nat
  PROVE  /\ Folded(s) \in Nat /\ Folded(s) <= UINT16_MAX
         /\ \E q \in Nat : s = Folded(s) + UINT16_MAX * q
<1>1. PICK g : IsFold(g) /\ \A x : Folded(x) = g[x]
  BY FoldedUnfolds
<1> DEFINE Good(x) == /\ g[x] \in Nat /\ g[x] <= UINT16_MAX
                      /\ \E q \in Nat : x = g[x] + UINT16_MAX * q
           Bad == {x \in Nat : ~Good(x)}
<1>2. ASSUME NEW x \in Nat, \A y \in Nat : y < x => Good(y) PROVE Good(x)
  <2>1. g[x] = IF x <= UINT16_MAX THEN x ELSE g[Carried(x)]
    BY <1>1 DEF IsFold
  <2>2. CASE x <= UINT16_MAX
    <3>1. g[x] = x
      BY <2>1, <2>2
    <3>2. x = x + UINT16_MAX * 0 /\ 0 \in Nat
      BY SMT DEF UINT16_MAX
    <3> QED
      BY <2>2, <3>1, <3>2
  <2>3. CASE ~(x <= UINT16_MAX)
    <3>1. PICK q \in Nat : /\ x = Carried(x) + UINT16_MAX * q
                           /\ Carried(x) \in Nat \ {0} /\ Carried(x) < x
      BY <2>3, CarriedIs
    <3>2. PICK t : t = Carried(x)
      OBVIOUS
    <3>3. Good(t)
      BY <1>2, <3>1, <3>2
    <3>4. PICK p \in Nat : t = g[t] + UINT16_MAX * p
      BY <3>3
    <3>5. g[x] = g[t]
      BY <2>1, <2>3, <3>2
    <3>6. PICK u \in Nat : u = g[t]
      BY <3>3
    <3>7. x = u + UINT16_MAX * (p + q) /\ p + q \in Nat
      BY <3>1, <3>2, <3>4, <3>6, SMT DEF UINT16_MAX
    <3> QED
      BY <3>3, <3>5, <3>6, <3>7
  <2> QED
    BY <2>2, <2>3
<1>3. Bad = {}
  <2> SUFFICES ASSUME Bad # {} PROVE FALSE
    OBVIOUS
  <2>1. Bad \in SUBSET Nat /\ \A y \in Nat : y \notin Bad => Good(y)
    OBVIOUS
  <2>2. PICK x \in Bad : \A y \in Bad : x <= y
    <3> HIDE DEF Bad
    <3> QED
      BY <2>1, Least
  <2>3. x \in Nat /\ ~Good(x)
    OBVIOUS
  <2> HIDE DEF Good, Bad
  <2>4. \A y \in Nat : y < x => Good(y)
    BY <2>1, <2>2, <2>3
  <2> QED
    BY <1>2, <2>3, <2>4
<1>4. Good(s)
  BY <1>3
<1> QED
  BY <1>1, <1>4

(* A checksum is one word, and makes up for the sum modulo 65535.          *)
LEMMA ChecksumIs ==
  ASSUME NEW w, Sum(w) \in Nat
  PROVE  /\ Checksum(w) \in Nat /\ Checksum(w) <= 65535
         /\ (Sum(w) + Checksum(w)) % 65535 = 0
<1>1. PICK s \in Nat : s = Sum(w)
  OBVIOUS
<1>2. PICK f \in Nat : f = Folded(s) /\ f <= UINT16_MAX
  BY FoldedIs
<1>3. PICK q \in Nat : s = f + UINT16_MAX * q
  BY <1>2, FoldedIs
<1>4. PICK c : c = 65535 - f
  OBVIOUS
<1>5. c \in Nat /\ c <= 65535 /\ c % 65536 = c
  BY <1>2, <1>4, SMT DEF UINT16_MAX
<1>6. s + c = 65535 * (q + 1)
  BY <1>3, <1>4, SMT DEF UINT16_MAX
<1>7. (65535 * (q + 1)) % 65535 = 0
  BY SMT
<1>8. Checksum(w) = c
  BY <1>1, <1>2, <1>4, <1>5, SMT DEF Checksum
<1> QED
  BY <1>1, <1>5, <1>6, <1>7, <1>8, SMT
-----------------------------------------------------------------------------
(* The property of one of the frames that were passed on.                  *)
HasNewAddress(f, out) ==
  At(f, 12) = ETH_P_IP =>
    /\ <<At(out, 30), At(out, 32)>> = NewIp
    /\ WholeHeader(f) => ValidHeader(Header(out, 14))

(* The header of an untagged frame begins with its eighth word, and its    *)
(* length is twice the field that word contains.                           *)
HeaderWords(b) == (b[8] \div 256) % 16

LEMMA HeaderIs ==
  ASSUME NEW b, b[8] \in Word
  PROVE  /\ HeaderWords(b) \in Nat /\ (HeaderWords(b) # 0 => b[8] # 0)
         /\ Header(b, 14) = SubSeq(b, 8, 7 + 2 * HeaderWords(b))
         /\ WholeHeader(b) <=> /\ HeaderWords(b) >= 5
                               /\ 14 + 4 * HeaderWords(b) <= 2 * Len(b)
<1>1. PICK h, x : h = HeaderWords(b) /\ x = b[8]
  OBVIOUS
<1>2. x \in Nat
  BY <1>1, WordIs
<1>3. h = (x \div 256) % 16
  BY <1>1 DEF HeaderWords
<1>4. h \in Nat /\ (h # 0 => x # 0)
  BY <1>2, <1>3, SMT
<1>5. 14 \div 2 + 1 = 8 /\ At(b, 14) = x
  BY <1>1, SMT DEF At
<1>6. (14 + 4 * h) \div 2 = 7 + 2 * h
  BY <1>4, SMT
<1>7. Header(b, 14) = SubSeq(b, 8, 7 + 2 * h)
  <2>1. Header(b, 14) = SubSeq(b, 14 \div 2 + 1, (14 + 4 * h) \div 2)
    BY <1>3, <1>5, Zenon DEF Header
  <2> QED
    BY <1>5, <1>6, <2>1
<1>8. WholeHeader(b) <=> h >= 5 /\ 14 + 4 * h <= 2 * Len(b)
  <2>1. WholeHeader(b) <=> 4 * h >= 20 /\ 14 + 4 * h <= 2 * Len(b)
    BY <1>3, <1>5, Zenon DEF WholeHeader, Size
  <2>2. 4 * h >= 20 <=> h >= 5
    BY <1>4, SMT
  <2> QED
    BY <2>1, <2>2
<1> QED
  BY <1>1, <1>4, <1>7, <1>8

(* The words of a part of a sequence.                                      *)
LEMMA PartOf ==
  ASSUME NEW b, IsSequence(b), NEW e \in Nat, e >= 7, e <= Len(b)
  PROVE  /\ Len(SubSeq(b, 8, e)) = e - 7
         /\ \A i \in 1..(e - 7) : SubSeq(b, 8, e)[i] = b[7 + i]
<1>1. Len(b) \in Nat
  BY LenProperties DEF IsSequence
<1>2. \A i \in 8..e : b[i] \in Elements(b)
  BY <1>1 DEF Elements
<1>3. /\ Len(SubSeq(b, 8, e)) = e - 7
      /\ \A i \in 1..(e - 7) : SubSeq(b, 8, e)[i] = b[8 + i - 1]
  BY <1>2, SubSeqProperties
<1>4. \A i \in 1..(e - 7) : 8 + i - 1 = 7 + i
  OBVIOUS
<1> QED
  BY <1>3, <1>4

(* modify_destination_ip(): the new address, and a checksum that is valid  *)
(* for the header if the frame contains all of it.                         *)
LEMMA AddressIsNew ==
  ASSUME NEW f \in Captured, NEW b, IsSequence(b), Len(b) = BufferLen,
         Len(f) \in 23..BufferLen,
         \A n \in 1..Len(f) : b[n] = f[n] /\ f[n] \in Word,
         NEW out, IsSequence(out), Len(out) = Len(f),
         \A n \in 1..Len(f) : out[n] = modify_destination_ip(b)[n]
  PROVE  HasNewAddress(f, out)
<1>1. BufferLen \in Nat /\ Len(f) \in Nat /\ NewIp \in Word \X Word
  BY IpModifierAssumption DEF IpModifierAssumption
<1>2. b[7] \in Word
  BY <1>1
<1>3. PICK c : /\ Cleared(b, c)
               /\ modify_destination_ip(b) = Written(c, 13, Checksum(Header(c, 14)))
  BY <1>1, <1>2, ModifiesInTwoSteps
<1>4. PICK x : x = Checksum(Header(c, 14))
  OBVIOUS
<1>5. /\ IsSequence(c) /\ Len(c) = BufferLen
      /\ c[13] = 0 /\ c[16] = NewIp[1] /\ c[17] = NewIp[2]
      /\ \A n \in 1..Len(f) : n \notin {13, 16, 17} => c[n] = f[n]
  BY <1>1, <1>3 DEF Cleared
<1>6. /\ \A n \in 1..Len(f) : n # 13 => out[n] = c[n]
      /\ out[13] = x
  <2>1. 13 \in 1..Len(c) /\ 13 \in 1..Len(f)
    BY <1>1, <1>5
  <2>2. /\ \A n \in 1..Len(c) : n # 13 => Written(c, 13, x)[n] = c[n]
        /\ Written(c, 13, x)[13] = x
    BY <1>5, <2>1, WordWritten
  <2>3. \A n \in 1..Len(f) : n \in 1..Len(c) /\ out[n] = Written(c, 13, x)[n]
    BY <1>1, <1>3, <1>4, <1>5
  <2> QED
    BY <2>1, <2>2, <2>3
<1>7. <<At(out, 30), At(out, 32)>> = NewIp
  <2>1. 30 \div 2 + 1 = 16 /\ 32 \div 2 + 1 = 17
    BY SMT
  <2>2. At(out, 30) = out[16] /\ At(out, 32) = out[17]
    BY <2>1 DEF At
  <2>3. out[16] = NewIp[1] /\ out[17] = NewIp[2]
    BY <1>1, <1>5, <1>6
  <2> QED
    BY <1>1, <2>2, <2>3
<1>8. ASSUME WholeHeader(f) PROVE ValidHeader(Header(out, 14))
  <2>1. 8 \in 1..Len(f) /\ f[8] \in Word /\ c[8] = f[8] /\ out[8] = f[8]
    BY <1>1, <1>5, <1>6
  <2>2. PICK h \in Nat : h = HeaderWords(f)
    BY <2>1, HeaderIs
  <2>3. HeaderWords(c) = h /\ HeaderWords(out) = h
    BY <2>1, <2>2 DEF HeaderWords
  <2>4. h >= 5 /\ 14 + 4 * h <= 2 * Len(f) /\ f[8] # 0
    BY <1>8, <2>1, <2>2, HeaderIs
  <2>5. PICK e \in Nat : e = 7 + 2 * h
    OBVIOUS
  <2>6. e >= 17 /\ e <= Len(f) /\ e <= BufferLen
    BY <1>1, <2>4, <2>5, SMT
  <2>7. PICK v, w : v = SubSeq(c, 8, e) /\ w = SubSeq(out, 8, e)
    OBVIOUS
  <2>8. Header(c, 14) = v /\ Header(out, 14) = w
    BY <2>1, <2>3, <2>5, <2>7, HeaderIs
  <2>9. /\ Len(v) = e - 7 /\ Len(w) = e - 7
        /\ \A i \in 1..(e - 7) : v[i] = c[7 + i] /\ w[i] = out[7 + i]
    BY <1>5, <2>6, <2>7, PartOf
  <2>10. \A i \in 1..(e - 7) : 7 + i \in 1..Len(f) /\ (i # 6 => 7 + i # 13)
    BY <1>1, <2>6
  <2>11. \A n \in 1..Len(f) : c[n] \in Word
    <3>1. 0 \in Word
      <4>1. 0 \in Nat /\ 0 <= 65535
        BY ONLY SMT
      <4> QED
        BY ONLY <4>1, WordIs
    <3> QED
      BY <1>1, <1>5, <3>1
  <2>12. \A i \in 1..Len(v) : v[i] \in Word
    BY <2>9, <2>10, <2>11
  <2>13. \A i \in 1..Len(v) : i # 6 => w[i] = v[i]
    <3> SUFFICES ASSUME NEW i \in 1..Len(v), i # 6 PROVE w[i] = v[i]
      OBVIOUS
    <3>1. i \in 1..(e - 7)
      BY <2>9
    <3>2. PICK n : n = 7 + i
      OBVIOUS
    <3>3. n \in 1..Len(f) /\ n # 13
      BY <2>10, <3>1, <3>2
    <3>4. out[n] = c[n]
      BY <1>6, <3>3
    <3> QED
      BY <2>9, <3>1, <3>2, <3>4
  <2>14. 6 \in 1..Len(v) /\ v[6] = 0 /\ w[6] = x /\ Len(v) \in Nat /\ Len(v) # 0
    BY <1>5, <1>6, <2>6, <2>9
  <2>15. Sum(v) \in Nat /\ Sum(v) >= v[1]
    BY <2>12, <2>14, SumBound
  <2>16. x \in Nat /\ (Sum(v) + x) % 65535 = 0
    BY <1>4, <2>8, <2>15, ChecksumIs
  <2>17. Sum(w) = Sum(v) + x
    <3>1. Len(w) = Len(v)
      BY <2>9
    <3> QED
      BY ONLY <2>12, <2>13, <2>14, <2>16, <3>1, SumOfOneMore
  <2>18. v[1] \in Nat /\ v[1] # 0
    <3>1. v[1] = c[8]
      BY <2>6, <2>9
    <3> QED
      BY <2>1, <2>4, <3>1, WordIs
  <2>19. Sum(w) > 0 /\ Sum(w) % 65535 = 0
    BY <2>15, <2>16, <2>17, <2>18, SMT
  <2> QED
    BY <2>8, <2>19 DEF ValidHeader
<1> QED
  BY <1>7, <1>8 DEF HasNewAddress
-----------------------------------------------------------------------------
(* The condition on one of the frames that were passed on.                 *)
OnlyReaddressed(f, out) ==
  /\ Len(out) = Len(f)
  /\ \A n \in 1..Len(f) :
       out[n] # f[n] =>
         /\ At(f, IpAt(f) - 2) = ETH_P_IP
         /\ 2 * (n - 1) \in {IpAt(f) + 10, IpAt(f) + 16, IpAt(f) + 18}

(* An iteration of the loop.                                               *)
LEMMA ModifyKeeps ==
  ASSUME ModifierInv, NEW f \in Captured, Modify(f)
  PROVE  ModifierInv'
<1>1. PICK b : b = Filled(f)
  OBVIOUS
<1>2. /\ IsSequence(b) /\ Len(b) = BufferLen /\ Len(f) \in 7..BufferLen
      /\ \A n \in 1..Len(f) : b[n] = f[n] /\ f[n] \in Word
  BY <1>1, FilledIs DEF ModifierInv
<1>3. BufferLen \in Nat
  BY IpModifierAssumption DEF IpModifierAssumption
<1>4. Len(f) >= 23 /\ Len(f) \in Nat
  BY <1>2, <1>3 DEF Modify, Size
<1>5. buffer' = IF is_ip_packet(b) THEN modify_destination_ip(b) ELSE b
  BY <1>1 DEF Modify
<1>6. b[7] = f[7] /\ b[7] \in Word
  BY <1>2, <1>4
<1>7. /\ IsSequence(buffer') /\ Len(buffer') = BufferLen
      /\ \A n \in 1..Len(f) :
           buffer'[n] # f[n] => f[7] = ETH_P_IP /\ n \in {13, 16, 17}
  <2>1. CASE is_ip_packet(b)
    BY <1>2, <1>3, <1>4, <1>5, <1>6, <2>1, TypeIsSigned, ModifiesThreeWords
  <2>2. CASE ~is_ip_packet(b)
    BY <1>2, <1>5, <2>2
  <2> QED
    BY <2>1, <2>2
<1>8. PICK out : out = SubSeq(buffer', 1, Len(f))
  OBVIOUS
<1>9. /\ IsSequence(out) /\ Len(out) = Len(f)
      /\ \A n \in 1..Len(f) : out[n] = buffer'[n]
  <2>1. \A i \in 1..Len(f) : buffer'[i] \in Elements(buffer')
    BY <1>2, <1>3, <1>7 DEF Elements
  <2>2. 1 \in Int /\ Len(f) \in Int
    BY <1>4
  <2>3. /\ out \in Seq(Elements(buffer')) /\ Len(out) = Len(f)
        /\ \A n \in 1..Len(f) : out[n] = buffer'[n]
    BY <1>4, <1>8, <2>1, <2>2, SubSeqProperties
  <2> QED
    BY <2>3, SequenceOf
<1>10. OnlyReaddressed(f, out)
  <2>1. f[7] = ETH_P_IP => IpAt(f) = 14 /\ At(f, IpAt(f) - 2) = ETH_P_IP
    BY DEF IpAt, At, ETH_P_IP, ETH_P_8021Q
  <2> QED
    BY <1>7, <1>9, <2>1 DEF OnlyReaddressed
<1>11. PICK new : new = [in |-> f, out |-> out]
  OBVIOUS
<1>12. new.in = f /\ new.out = out /\ sent' = Append(sent, new)
  BY <1>8, <1>11 DEF Modify
<1>13. /\ IsSequence(sent') /\ Len(sent') = Len(sent) + 1 /\ Len(sent) \in Nat
       /\ \A i \in 1..Len(sent) : sent'[i] = sent[i]
       /\ sent'[Len(sent) + 1] = new
  <2>1. PICK S : S = Elements(sent) \cup {new}
    OBVIOUS
  <2>2. sent \in Seq(S) /\ new \in S
    BY <2>1, SeqMonotonic DEF ModifierInv, IsSequence
  <2>3. Append(sent, new) \in Seq(S)
    BY <2>2, AppendProperties
  <2>4. IsSequence(sent')
    BY <1>12, <2>3, SequenceOf
  <2> QED
    BY <1>12, <2>2, <2>4, AppendProperties, LenProperties
<1>14. NothingElseChanges'
  <2> SUFFICES ASSUME NEW i \in 1..Len(sent')
               PROVE  OnlyReaddressed(sent'[i].in, sent'[i].out)
    BY DEF NothingElseChanges, OnlyReaddressed
  <2>1. CASE i = Len(sent) + 1
    BY <1>10, <1>12, <1>13, <2>1
  <2>2. CASE i # Len(sent) + 1
    <3>1. i \in 1..Len(sent) /\ sent'[i] = sent[i]
      BY <1>13, <2>2
    <3> QED
      BY <3>1 DEF ModifierInv, NothingElseChanges, OnlyReaddressed
  <2> QED
    BY <2>1, <2>2
<1>15. HasNewAddress(f, out)
  <2>1. At(f, 12) = f[7]
    <3>1. 12 \div 2 + 1 = 7
      BY SMT
    <3> QED
      BY <3>1 DEF At
  <2>2. CASE f[7] = ETH_P_IP
    <3>1. is_ip_packet(b) /\ buffer' = modify_destination_ip(b)
      BY <1>5, <1>6, <2>2, TypeIsSigned
    <3>2. \A n \in 1..Len(f) : out[n] = modify_destination_ip(b)[n]
      BY <1>9, <3>1
    <3>3. IsSequence(out) /\ Len(f) \in 23..BufferLen
      BY <1>2, <1>4, <1>9
    <3> QED
      BY <1>2, <1>9, <3>2, <3>3, AddressIsNew
  <2>3. CASE f[7] # ETH_P_IP
    BY <2>1, <2>3 DEF HasNewAddress
  <2> QED
    BY <2>2, <2>3
<1>16. ReaddressedValidly'
  <2> SUFFICES ASSUME NEW i \in 1..Len(sent')
               PROVE  HasNewAddress(sent'[i].in, sent'[i].out)
    BY DEF ReaddressedValidly, HasNewAddress
  <2>1. CASE i = Len(sent) + 1
    BY <1>12, <1>13, <1>15, <2>1
  <2>2. CASE i # Len(sent) + 1
    <3>1. i \in 1..Len(sent) /\ sent'[i] = sent[i]
      BY <1>13, <2>2
    <3> QED
      BY <3>1 DEF ModifierInv, ReaddressedValidly, HasNewAddress
  <2> QED
    BY <2>1, <2>2
<1> QED
  BY <1>7, <1>13, <1>14, <1>16 DEF ModifierInv

(* The invariant: what was sent has the new address and a valid checksum,  *)
(* differs from what was taken in these at most, and the buffer is as long *)
(* as it was.                                                              *)
THEOREM ModifierInvariant == Spec => []ModifierInv
<1>1. Init => ModifierInv
  <2> SUFFICES ASSUME Init PROVE ModifierInv
    OBVIOUS
  <2>1. BufferLen \in Nat
    BY IpModifierAssumption DEF IpModifierAssumption
  <2>2. buffer \in Seq({0}) /\ Len(buffer) = BufferLen
    BY <2>1 DEF Init
  <2>3. sent = <<>> /\ sent \in Seq({}) /\ Len(sent) = 0
    BY EmptySeq DEF Init
  <2>4. NothingElseChanges /\ ReaddressedValidly
    BY <2>3 DEF NothingElseChanges, ReaddressedValidly
  <2> QED
    BY <2>2, <2>3, <2>4, SequenceOf DEF ModifierInv
<1>2. ModifierInv /\ [Next]_vars => ModifierInv'
  <2> SUFFICES ASSUME ModifierInv, [Next]_vars PROVE ModifierInv'
    OBVIOUS
  <2>1. ASSUME NEW f \in Captured, Ignore(f) PROVE ModifierInv'
    <3>1. /\ IsSequence(Filled(f)) /\ Len(Filled(f)) = BufferLen
          /\ buffer' = Filled(f) /\ UNCHANGED sent
      BY <2>1, FilledIs DEF Ignore, ModifierInv
    <3> QED
      BY <3>1 DEF ModifierInv, NothingElseChanges, ReaddressedValidly
  <2>2. ASSUME NEW f \in Captured, Modify(f) PROVE ModifierInv'
    BY <2>2, ModifyKeeps
  <2>3. CASE PopFails \/ Stop \/ UNCHANGED vars
    BY <2>3 DEF PopFails, Stop, vars, ModifierInv, NothingElseChanges,
               ReaddressedValidly
  <2> QED
    BY <2>1, <2>2, <2>3 DEF Next
<1> QED
  BY <1>1, <1>2, PTL DEF Spec

(* NothingElseChanges: whatever the frames, the new address and what       *)
(* earlier frames left in the buffer, the node changes nothing in a frame  *)
(* but the destination address and the checksum of an IPv4 header.         *)
THEOREM NothingElseChangesHolds == Spec => []NothingElseChanges
<1>1. ModifierInv => NothingElseChanges
  BY DEF ModifierInv
<1> QED
  BY <1>1, ModifierInvariant, PTL

(* ReaddressedValidly: whatever the frames, the new address and what       *)
(* earlier frames left in the buffer, an IPv4 frame leaves the node with   *)
(* the new address, and with a checksum that is valid for its header if it *)
(* contains the whole of it.                                               *)
THEOREM ReaddressedValidlyHolds == Spec => []ReaddressedValidly
<1>1. ModifierInv => ReaddressedValidly
  BY DEF ModifierInv
<1> QED
  BY <1>1, ModifierInvariant, PTL
=============================================================================
