---------------------------- MODULE LineChatProofs ----------------------------
(***************************************************************************)
(* Proofs about FramedStream and LineChat: however the bytes are cut up,   *)
(* what one end of the connection receives is what the other one has sent, *)
(* message by message.                                                     *)
(***************************************************************************)
EXTENDS LineChat, ListLemmas

USE DEF Ends

-----------------------------------------------------------------------------
(* Lengths as bytes. *)

\* What the recursive definition says.
LEMMA PowerValues ==
  /\ Power \in [0..LenBytes -> Nat \ {0}]
  /\ Power[0] = 1 /\ \A k \in 1..LenBytes : Power[k] = Base * Power[k - 1]
<1> DEFINE Pos == Nat \ {0}
           step == [k \in 1..LenBytes |-> [v \in Pos |-> Base * v]]
           Eq(g) == g = [k \in 0..LenBytes |-> IF k = 0 THEN 1 ELSE Base * g[k - 1]]
<1>1. /\ step \in [1..LenBytes -> [Pos -> Pos]] /\ 1 \in Pos /\ LenBytes \in Nat
      /\ \A k \in 1..LenBytes, v \in Pos : step[k][v] = Base * v
  BY StreamAssumption
<1> HIDE DEF Pos, step
<1>2. PICK f \in [0..LenBytes -> Pos] :
        f[0] = 1 /\ \A k \in 1..LenBytes : f[k] = step[k][f[k - 1]]
  BY <1>1, FunctionByRecursion
<1>3. \A k \in 1..LenBytes : f[k] = Base * f[k - 1]
  <2> TAKE k \in 1..LenBytes
  <2>1. k - 1 \in 0..LenBytes
    BY <1>1
  <2> QED
    BY <1>1, <1>2, <2>1
<1>4. Eq(f)
  <2>1. \A k \in 0..LenBytes : f[k] = IF k = 0 THEN 1 ELSE Base * f[k - 1]
    <3> TAKE k \in 0..LenBytes
    <3>1. k = 0 \/ k \in 1..LenBytes
      BY <1>1
    <3> QED
      BY <1>2, <1>3, <3>1
  <2> QED
    BY <2>1
<1>5. Eq(Power)
  BY <1>4 DEF Power
<1>6. Power[0] = 1 /\ \A k \in 1..LenBytes : Power[k] = Base * Power[k - 1]
  BY <1>1, <1>5
<1>7. \A k \in 0..LenBytes : Power[k] \in Nat \ {0}
  <2> DEFINE S == {k \in Nat : k <= LenBytes => Power[k] \in Nat \ {0}}
  <2>1. 0 \in S
    BY <1>6
  <2>2. ASSUME NEW k \in Nat, k \in S
        PROVE  k + 1 \in S
    <3> SUFFICES ASSUME k + 1 <= LenBytes
                 PROVE  Power[k + 1] \in Nat \ {0}
      OBVIOUS
    <3>1. Power[k] \in Nat \ {0}
      BY <1>1, <2>2
    <3>2. k + 1 \in 1..LenBytes /\ (k + 1) - 1 = k
      BY <1>1
    <3>3. Power[k + 1] = Base * Power[k]
      BY <1>6, <3>2
    <3> QED
      BY StreamAssumption, <3>1, <3>3
  <2>3. Nat \subseteq S
    <3> HIDE DEF S
    <3> QED
      BY <2>1, <2>2, SetInduction
  <2> QED
    BY <2>3
<1> QED
  BY <1>5, <1>6, <1>7

\* The number is what any such table of values ends with.
LEMMA NumberOfValue ==
  ASSUME NEW b \in Seq(Nat), NEW v \in [0..Len(b) -> Nat],
         v[0] = 0, \A i \in 1..Len(b) : v[i] = Base * v[i - 1] + b[i]
  PROVE  NumberOf(b) = v[Len(b)]
<1> DEFINE N == Len(b)
           Eq(g) == g = [i \in 0..N |-> IF i = 0 THEN 0 ELSE Base * g[i - 1] + b[i]]
           value == CHOOSE g : Eq(g)
<1>1. N \in Nat
  OBVIOUS
<1>2. Eq(v)
  <2>1. \A i \in 0..N : v[i] = IF i = 0 THEN 0 ELSE Base * v[i - 1] + b[i]
    <3> TAKE i \in 0..N
    <3>1. i = 0 \/ i \in 1..N
      BY <1>1
    <3> QED
      BY <3>1
  <2> QED
    BY <2>1
<1>3. Eq(value)
  BY <1>2
<1>4. NumberOf(b) = value[N]
  BY DEF NumberOf
<1>5. \A i \in 0..N : value[i] = IF i = 0 THEN 0 ELSE Base * value[i - 1] + b[i]
  BY <1>3
<1> HIDE DEF value, N
<1>6. \A i \in 0..N : value[i] = v[i]
  <2> DEFINE S == {i \in Nat : i <= N => value[i] = v[i]}
  <2>1. 0 \in S
    BY <1>1, <1>5
  <2>2. ASSUME NEW k \in Nat, k \in S
        PROVE  k + 1 \in S
    <3> SUFFICES ASSUME k + 1 <= N
                 PROVE  value[k + 1] = v[k + 1]
      OBVIOUS
    <3>1. value[k] = v[k]
      BY <1>1, <2>2
    <3>2. k + 1 \in 0..N /\ k + 1 \in 1..N /\ (k + 1) - 1 = k /\ k + 1 # 0
      BY <1>1
    <3>3. value[k + 1] = Base * value[k] + b[k + 1]
      BY <1>5, <3>2
    <3>4. v[k + 1] = Base * v[k] + b[k + 1]
      BY <3>2 DEF N
    <3> QED
      BY <3>1, <3>3, <3>4
  <2>3. Nat \subseteq S
    <3> HIDE DEF S
    <3> QED
      BY <2>1, <2>2, SetInduction
  <2> QED
    BY <1>1, <2>3
<1> QED
  BY <1>1, <1>4, <1>6 DEF N

\* ntohl() undoes htonl() for every number that has LenBytes bytes.
LEMMA NumberOfBigEndian ==
  ASSUME NEW n \in Nat
  PROVE  /\ BigEndian(n) \in Seq(Nat) /\ Len(BigEndian(n)) = LenBytes
         /\ n < Power[LenBytes] => NumberOf(BigEndian(n)) = n
<1>1. /\ LenBytes \in Nat /\ Base \in Nat \ {0}
      /\ Power \in [0..LenBytes -> Nat \ {0}]
      /\ Power[0] = 1 /\ \A k \in 1..LenBytes : Power[k] = Base * Power[k - 1]
  BY PowerValues, StreamAssumption
<1>2. \A i \in 0..LenBytes : LenBytes - i \in 0..LenBytes /\ Power[LenBytes - i] \in Nat \ {0}
  BY <1>1
<1> DEFINE b == BigEndian(n)
           v == [i \in 0..LenBytes |-> n \div Power[LenBytes - i]]
<1>3. \A i \in 0..LenBytes : v[i] = n \div Power[LenBytes - i] /\ v[i] \in Nat
  BY <1>2, DivProperties
<1>4. \A i \in 1..LenBytes : b[i] = v[i] % Base
  BY <1>1 DEF BigEndian
<1> HIDE DEF b, v
<1>5. b \in Seq(Nat) /\ Len(b) = LenBytes
  <2>1. ASSUME NEW i \in 1..LenBytes
        PROVE  b[i] \in Nat
    <3>1. i \in 0..LenBytes
      BY <1>1
    <3>2. v[i] \in Nat /\ b[i] = v[i] % Base
      BY <1>3, <1>4, <3>1
    <3> QED
      BY <1>1, <3>2, DivProperties
  <2>2. b = [i \in 1..LenBytes |-> b[i]]
    BY DEF BigEndian, b
  <2>3. b \in [1..LenBytes -> Nat]
    BY <2>1, <2>2
  <2> QED
    BY <1>1, <2>3
<1>6. v \in [0..LenBytes -> Nat]
  BY <1>3 DEF v
<1>7. ASSUME n < Power[LenBytes]
      PROVE  NumberOf(b) = n
  <2>1. v[0] = 0
    <3>1. Power[LenBytes] \in Nat \ {0} /\ n = Power[LenBytes] * 0 + n
      BY <1>1
    <3>2. n \div Power[LenBytes] = 0
      BY <1>7, <3>1, DivUnique
    <3>3. v[0] = n \div Power[LenBytes - 0] /\ LenBytes - 0 = LenBytes
      BY <1>1, <1>3
    <3> QED
      BY <3>2, <3>3
  <2>2. v[LenBytes] = n
    <3>1. LenBytes - LenBytes = 0 /\ n = 1 * n + 0
      BY <1>1
    <3>2. n \div 1 = n
      BY <3>1, DivUnique
    <3> QED
      BY <1>1, <1>3, <3>1, <3>2
  <2>3. ASSUME NEW i \in 1..LenBytes
        PROVE  v[i] = Base * v[i - 1] + b[i]
    <3> DEFINE w == Power[LenBytes - i]
    <3>1. w \in Nat \ {0} /\ v[i] = n \div w
      BY <1>2, <1>3
    <3>2. LenBytes - (i - 1) \in 1..LenBytes /\ (LenBytes - (i - 1)) - 1 = LenBytes - i
          /\ i - 1 \in 0..LenBytes
      BY <1>1
    <3>3. Power[LenBytes - (i - 1)] = Base * w
      BY <1>1, <3>2
    <3>4. v[i - 1] = n \div (Base * w)
      BY <1>3, <3>2, <3>3
    <3> HIDE DEF w
    <3>5. n \div (Base * w) = (n \div w) \div Base
      BY <1>1, <3>1, DivTwice
    <3>a. v[i] \in Nat /\ v[i - 1] \in Nat /\ b[i] = v[i] % Base
      BY <1>3, <1>4, <3>2
    <3>b. b[i] \in Nat
      BY <1>1, <3>a, DivProperties
    <3>6. v[i - 1] = v[i] \div Base
      BY <3>1, <3>4, <3>5
    <3>7. v[i] = Base * (v[i] \div Base) + (v[i] % Base)
      BY <1>1, <3>a, DivProperties
    <3>8. ASSUME NEW x \in Nat, NEW y \in Nat, NEW z \in Nat, x = Base * (x \div Base) + (x % Base),
                 y = x \div Base, z = x % Base
          PROVE  x = Base * y + z
      BY <1>1, <3>8
    <3> QED
      BY <3>a, <3>b, <3>6, <3>7, <3>8
  <2>4. v \in [0..Len(b) -> Nat] /\ \A i \in 1..Len(b) : v[i] = Base * v[i - 1] + b[i]
    BY <1>5, <1>6, <2>3
  <2>5. NumberOf(b) = v[Len(b)]
    BY <1>5, <2>1, <2>4, NumberOfValue
  <2> QED
    BY <1>5, <2>2, <2>5
<1> QED
  BY <1>5, <1>7 DEF b

-----------------------------------------------------------------------------
(* A stream of messages. *)

\* A byte, and whatever else is counted.
Octet == Nat

\* What a concatenation of streams holds.
LEMMA Joined ==
  \A b, c \in Seq(Octet) :
    /\ b \o c \in Seq(Octet) /\ Len(b \o c) = Len(b) + Len(c)
    /\ Len(b) \in Nat /\ Len(c) \in Nat
    /\ \A i \in 1..Len(b) : (b \o c)[i] = b[i]
    /\ \A i \in 1..Len(c) : (b \o c)[Len(b) + i] = c[i]
<1> SUFFICES ASSUME NEW b \in Seq(Octet), NEW c \in Seq(Octet)
             PROVE  /\ b \o c \in Seq(Octet) /\ Len(b \o c) = Len(b) + Len(c)
                    /\ Len(b) \in Nat /\ Len(c) \in Nat
                    /\ \A i \in 1..Len(b) : (b \o c)[i] = b[i]
                    /\ \A i \in 1..Len(c) : (b \o c)[Len(b) + i] = c[i]
  OBVIOUS
<1> QED
  BY ConcatElements

\* Bytes that move on from one place to the next one stay in their order.
LEMMA Associates ==
  ASSUME NEW c \in Seq(Octet), NEW w \in Seq(Octet), NEW a \in Seq(Octet)
  PROVE  (c \o w) \o a = c \o (w \o a)
  BY ConcatAssociative

\* What a message is.
LEMMA MessageParts ==
  /\ \A m \in Messages :
       /\ m.type \in Types /\ m.payload \in Seq(0..(Base - 1)) /\ m.payload \in Seq(Octet)
       /\ m.type \in Nat /\ Len(m.payload) \in 0..MaxPayload
       /\ m = [type |-> m.type, payload |-> m.payload]
  /\ \A type \in Types, payload \in Seq(0..(Base - 1)) :
       Len(payload) <= MaxPayload => Message(type, payload) \in Messages
<1>1. MaxPayload \in Nat
  BY StreamAssumption
<1> DEFINE Digits == 0..(Base - 1)
           Payloads == UNION {[1..n -> Digits] : n \in 0..MaxPayload}
<1>2. Digits \subseteq Nat
  BY StreamAssumption
<1>3. Messages = [type : Types, payload : Payloads]
  BY DEF Messages
<1>4. Types \subseteq Nat
  BY DEF Types, HELLO, WELCOME, TEXT, PING, PONG, BYE
<1> HIDE DEF Digits
<1>5. \A payload \in Payloads :
        /\ payload \in Seq(Digits) /\ payload \in Seq(Octet) /\ Len(payload) \in 0..MaxPayload
  <2> TAKE payload \in Payloads
  <2>1. PICK n \in 0..MaxPayload : payload \in [1..n -> Digits]
    OBVIOUS
  <2>2. n \in Nat
    BY <1>1, <2>1
  <2>3. payload \in [1..n -> Octet]
    BY <1>2, <2>1 DEF Octet
  <2> QED
    BY <1>1, <2>1, <2>2, <2>3
<1>6. \A payload \in Seq(Digits) : Len(payload) <= MaxPayload => payload \in Payloads
  <2> TAKE payload \in Seq(Digits)
  <2> DEFINE n == Len(payload)
  <2>1. n \in Nat /\ payload \in [1..n -> Digits]
    BY LenProperties
  <2> HIDE DEF n
  <2>2. n <= MaxPayload => n \in 0..MaxPayload
    BY <1>1, <2>1
  <2>3. n <= MaxPayload => payload \in Payloads
    BY <2>1, <2>2
  <2> QED
    BY <2>3 DEF n
<1> HIDE DEF Payloads
<1>7. \A m \in Messages :
        /\ m.type \in Types /\ m.payload \in Payloads
        /\ m = [type |-> m.type, payload |-> m.payload]
  BY <1>3
<1>8. \A type \in Types, payload \in Payloads : Message(type, payload) \in Messages
  BY <1>3 DEF Message
<1> QED
  BY <1>4, <1>5, <1>6, <1>7, <1>8 DEF Digits

Size(m) == LenBytes + 1 + Len(m.payload)

\* The bytes of a message: length, type, payload.
LEMMA BytesOf ==
  ASSUME NEW m \in Messages
  PROVE  /\ Size(m) \in Nat \ {0} /\ Bytes(m) \in Seq(Octet) /\ Len(Bytes(m)) = Size(m)
         /\ \A j \in 1..LenBytes : Bytes(m)[j] = BigEndian(1 + Len(m.payload))[j]
         /\ Bytes(m)[LenBytes + 1] = m.type
         /\ \A j \in 1..Len(m.payload) : Bytes(m)[LenBytes + 1 + j] = m.payload[j]
         /\ NumberOf(BigEndian(1 + Len(m.payload))) = 1 + Len(m.payload)
<1> DEFINE a == BigEndian(1 + Len(m.payload))  t == <<m.type>>  p == m.payload
<1>1. LenBytes \in Nat \ {0} /\ MaxPayload \in Nat /\ 1 + MaxPayload < Power[LenBytes]
      /\ Power[LenBytes] \in Nat
  BY StreamAssumption, PowerValues
<1>2. m.type \in Nat /\ p \in Seq(Octet) /\ Len(p) \in 0..MaxPayload
  BY MessageParts
<1>3. 1 + Len(p) \in Nat /\ 1 + Len(p) < Power[LenBytes]
  BY <1>1, <1>2
<1>4. a \in Seq(Octet) /\ Len(a) = LenBytes /\ NumberOf(a) = 1 + Len(p)
  BY <1>3, NumberOfBigEndian DEF Octet
<1>5. t \in Seq(Octet) /\ Len(t) = 1 /\ t[1] = m.type
  BY <1>2 DEF Octet
<1>6. Bytes(m) = (a \o t) \o p
  BY DEF Bytes
<1> HIDE DEF a, t, p
<1>7. /\ a \o t \in Seq(Octet) /\ Len(a \o t) = LenBytes + 1
      /\ \A i \in 1..LenBytes : (a \o t)[i] = a[i]
      /\ (a \o t)[LenBytes + 1] = m.type
  <2>1. /\ a \o t \in Seq(Octet) /\ Len(a \o t) = Len(a) + Len(t)
        /\ \A i \in 1..Len(a) : (a \o t)[i] = a[i]
        /\ \A i \in 1..Len(t) : (a \o t)[Len(a) + i] = t[i]
    BY <1>4, <1>5, Joined
  <2>2. 1 \in 1..Len(t)
    BY <1>5
  <2> QED
    BY <1>4, <1>5, <2>1, <2>2
<1>8. /\ Bytes(m) \in Seq(Octet) /\ Len(Bytes(m)) = LenBytes + 1 + Len(p)
      /\ \A i \in 1..(LenBytes + 1) : Bytes(m)[i] = (a \o t)[i]
      /\ \A i \in 1..Len(p) : Bytes(m)[LenBytes + 1 + i] = p[i]
  <2> DEFINE c == a \o t
  <2>1. c \in Seq(Octet) /\ Len(c) = LenBytes + 1 /\ Bytes(m) = c \o p
    BY <1>6, <1>7
  <2> HIDE DEF c
  <2>2. /\ c \o p \in Seq(Octet) /\ Len(c \o p) = Len(c) + Len(p)
        /\ \A i \in 1..Len(c) : (c \o p)[i] = c[i]
        /\ \A i \in 1..Len(p) : (c \o p)[Len(c) + i] = p[i]
    BY <1>2, <2>1, Joined
  <2> QED
    BY <2>1, <2>2 DEF c
<1>9. \A j \in 1..LenBytes : Bytes(m)[j] = a[j]
  <2>1. \A j \in 1..LenBytes : j \in 1..(LenBytes + 1)
    BY <1>1
  <2> QED
    BY <1>7, <1>8, <2>1
<1>10. Bytes(m)[LenBytes + 1] = m.type
  <2>1. LenBytes + 1 \in 1..(LenBytes + 1)
    BY <1>1
  <2> QED
    BY <1>7, <1>8, <2>1
<1>11. Size(m) = LenBytes + 1 + Len(p) /\ Size(m) \in Nat \ {0}
  <2>1. Size(m) = LenBytes + 1 + Len(p)
    BY DEF Size, p
  <2> QED
    BY <1>1, <1>2, <2>1
<1> QED
  BY <1>4, <1>8, <1>9, <1>10, <1>11 DEF a, p

\* Where the messages of s after the n-th end in a stream of bytes.
Cuts(cut, s, n) ==
  /\ cut \in [n..Len(s) -> Nat] /\ cut[n] = 0
  /\ \A i \in (n + 1)..Len(s) : cut[i] = cut[i - 1] + Size(s[i])
  /\ \A i, j \in n..Len(s) : i <= j => cut[i] <= cut[j]

\* The bytes b are those of the messages of s after the n-th: all of them, or the first.
Carries(b, s, n, whole) ==
  \E cut \in [n..Len(s) -> Nat] :
    /\ Cuts(cut, s, n)
    /\ Len(b) <= cut[Len(s)] /\ (whole => Len(b) = cut[Len(s)])
    /\ \A i \in (n + 1)..Len(s) : \A j \in 1..Size(s[i]) :
         cut[i - 1] + j <= Len(b) => b[cut[i - 1] + j] = Bytes(s[i])[j]

\* No bytes for no messages.
LEMMA CarriesNone ==
  ASSUME NEW s \in Seq(Messages)
  PROVE  Carries(<<>>, s, Len(s), TRUE)
<1> DEFINE cut == [i \in Len(s)..Len(s) |-> 0]
<1>1. Len(s) \in Nat /\ Len(<<>>) = 0
  OBVIOUS
<1>2. cut \in [Len(s)..Len(s) -> Nat] /\ cut[Len(s)] = 0
  BY <1>1
<1>3. (Len(s) + 1)..Len(s) = {} /\ Len(s)..Len(s) = {Len(s)}
  BY <1>1
<1> HIDE DEF cut
<1>4. Cuts(cut, s, Len(s))
  BY <1>1, <1>2, <1>3 DEF Cuts
<1> QED
  BY <1>1, <1>2, <1>3, <1>4 DEF Carries

\* Bytes that get lost from the end on leave the first ones.
LEMMA CarriesLess ==
  ASSUME NEW s \in Seq(Messages), NEW n \in 0..Len(s), NEW whole, NEW b \in Seq(Octet),
         Carries(b, s, n, whole), NEW c \in Seq(Octet), Len(c) <= Len(b),
         \A i \in 1..Len(c) : c[i] = b[i]
  PROVE  Carries(c, s, n, FALSE)
<1>1. PICK cut \in [n..Len(s) -> Nat] :
        /\ Cuts(cut, s, n) /\ Len(b) <= cut[Len(s)]
        /\ \A i \in (n + 1)..Len(s) : \A j \in 1..Size(s[i]) :
             cut[i - 1] + j <= Len(b) => b[cut[i - 1] + j] = Bytes(s[i])[j]
  BY DEF Carries
<1>2. Len(s) \in Nat /\ Len(b) \in Nat /\ Len(c) \in Nat /\ cut[Len(s)] \in Nat
  OBVIOUS
<1>3. Len(c) <= cut[Len(s)]
  BY <1>1, <1>2
<1>4. ASSUME NEW i \in (n + 1)..Len(s), NEW j \in 1..Size(s[i]), cut[i - 1] + j <= Len(c)
      PROVE  c[cut[i - 1] + j] = Bytes(s[i])[j]
  <2>1. i \in 1..Len(s) /\ i - 1 \in n..Len(s)
    BY <1>2
  <2>2. s[i] \in Messages
    BY <2>1, ElementOfSeq
  <2>3. Size(s[i]) \in Nat
    BY <2>2, BytesOf
  <2>4. cut[i - 1] \in Nat /\ j \in Nat /\ j >= 1
    <3>1. \A x \in n..Len(s) : cut[x] \in Nat
      OBVIOUS
    <3> QED
      BY <2>1, <2>3, <3>1
  <2>5. cut[i - 1] + j \in 1..Len(c) /\ cut[i - 1] + j <= Len(b)
    BY <1>2, <1>4, <2>4
  <2>6. b[cut[i - 1] + j] = Bytes(s[i])[j]
    BY <1>1, <2>5
  <2> QED
    BY <2>5, <2>6
<1> QED
  BY <1>1, <1>3, <1>4 DEF Carries

\* What the cuts are.
LEMMA CutsAre ==
  ASSUME NEW s \in Seq(Messages), NEW n \in 0..Len(s), NEW cut \in [n..Len(s) -> Nat],
         Cuts(cut, s, n)
  PROVE  /\ Len(s) \in Nat /\ n \in Nat /\ cut[Len(s)] \in Nat /\ cut[n] = 0
         /\ \A i \in n..Len(s) : cut[i] \in Nat /\ cut[i] <= cut[Len(s)]
         /\ \A i \in (n + 1)..Len(s) :
              /\ s[i] \in Messages /\ Size(s[i]) \in Nat \ {0}
              /\ i - 1 \in n..Len(s) /\ i \in n..Len(s)
              /\ cut[i - 1] \in Nat /\ cut[i] \in Nat /\ cut[i] = cut[i - 1] + Size(s[i])
              /\ cut[i] <= cut[Len(s)]
<1>1. Len(s) \in Nat /\ n \in Nat /\ Len(s) \in n..Len(s)
  OBVIOUS
<1>2. \A i \in n..Len(s) : cut[i] \in Nat
  OBVIOUS
<1>3. \A i \in n..Len(s) : i <= Len(s) /\ cut[i] <= cut[Len(s)]
  BY <1>1 DEF Cuts
<1>4. ASSUME NEW i \in (n + 1)..Len(s)
      PROVE  /\ s[i] \in Messages /\ Size(s[i]) \in Nat \ {0}
             /\ i - 1 \in n..Len(s) /\ i \in n..Len(s)
  <2>1. i \in 1..Len(s) /\ i - 1 \in n..Len(s) /\ i \in n..Len(s)
    BY <1>1
  <2>2. s[i] \in Messages
    BY <2>1, ElementOfSeq
  <2> QED
    BY <2>1, <2>2, BytesOf
<1>5. \A i \in (n + 1)..Len(s) : cut[i] = cut[i - 1] + Size(s[i])
  BY DEF Cuts
<1>6. cut[n] = 0
  BY DEF Cuts
<1> QED
  BY <1>1, <1>2, <1>3, <1>4, <1>5, <1>6

\* A message that is sent comes behind the others.
LEMMA CarriesMore ==
  ASSUME NEW s \in Seq(Messages), NEW n \in 0..Len(s), NEW b \in Seq(Octet),
         NEW m \in Messages, Carries(b, s, n, TRUE)
  PROVE  Carries(b \o Bytes(m), Append(s, m), n, TRUE)
<1>1. PICK cut \in [n..Len(s) -> Nat] :
        /\ Cuts(cut, s, n) /\ Len(b) = cut[Len(s)]
        /\ \A i \in (n + 1)..Len(s) : \A j \in 1..Size(s[i]) :
             cut[i - 1] + j <= Len(b) => b[cut[i - 1] + j] = Bytes(s[i])[j]
  BY DEF Carries
<1> DEFINE N == Len(s)  s2 == Append(s, m)  b2 == b \o Bytes(m)
           cut2 == [i \in n..(N + 1) |-> IF i <= N THEN cut[i] ELSE cut[N] + Size(m)]
<1>2. /\ N \in Nat /\ n \in Nat /\ cut[N] \in Nat /\ cut[n] = 0
      /\ \A i \in n..N : cut[i] \in Nat /\ cut[i] <= cut[N]
      /\ \A i \in (n + 1)..N :
           /\ s[i] \in Messages /\ Size(s[i]) \in Nat \ {0}
           /\ i - 1 \in n..N /\ i \in n..N
           /\ cut[i - 1] \in Nat /\ cut[i] \in Nat /\ cut[i] = cut[i - 1] + Size(s[i])
           /\ cut[i] <= cut[N]
  BY <1>1, CutsAre
<1>3. s2 \in Seq(Messages) /\ Len(s2) = N + 1 /\ s2[N + 1] = m
      /\ \A i \in 1..N : s2[i] = s[i]
  BY AppendElements
<1>4. /\ Size(m) \in Nat \ {0} /\ Bytes(m) \in Seq(Octet) /\ Len(Bytes(m)) = Size(m)
  BY BytesOf
<1>5. /\ Len(b) \in Nat /\ Len(b2) = cut[N] + Size(m)
      /\ \A i \in 1..Len(b) : b2[i] = b[i]
      /\ \A i \in 1..Size(m) : b2[cut[N] + i] = Bytes(m)[i]
  <2> DEFINE d == Bytes(m)
  <2>1. d \in Seq(Octet) /\ Len(d) = Size(m) /\ b2 = b \o d /\ Len(b) = cut[N]
    BY <1>1, <1>4
  <2> HIDE DEF d, b2, N
  <2>2. /\ Len(b \o d) = Len(b) + Len(d) /\ Len(b) \in Nat
        /\ \A i \in 1..Len(b) : (b \o d)[i] = b[i]
        /\ \A i \in 1..Len(d) : (b \o d)[Len(b) + i] = d[i]
    BY <2>1, Joined
  <2>3. /\ Len(b) \in Nat /\ Len(b2) = cut[N] + Size(m)
        /\ \A i \in 1..Len(b) : b2[i] = b[i]
        /\ \A i \in 1..Size(m) : b2[cut[N] + i] = d[i]
    BY <2>1, <2>2
  <2> QED
    BY <2>3 DEF d
<1>6. /\ \A i \in n..N : cut2[i] = cut[i]
      /\ cut2[N + 1] = cut[N] + Size(m)
      /\ cut2 \in [n..(N + 1) -> Nat]
  BY <1>2, <1>4
<1> HIDE DEF s2, b2, cut2, N
<1>7. Cuts(cut2, s2, n)
  <2>1. cut2 \in [n..Len(s2) -> Nat] /\ cut2[n] = 0
    BY <1>2, <1>3, <1>6 DEF N
  <2>2. ASSUME NEW i \in (n + 1)..Len(s2)
        PROVE  cut2[i] = cut2[i - 1] + Size(s2[i])
    <3>1. CASE i = N + 1
      <4>1. i - 1 = N /\ N \in n..N
        BY <1>2, <3>1 DEF N
      <4> QED
        BY <1>3, <1>6, <3>1, <4>1
    <3>2. CASE i # N + 1
      <4>1. i \in (n + 1)..N /\ i \in 1..N
        BY <1>2, <1>3, <3>2
      <4> QED
        BY <1>2, <1>3, <1>6, <4>1
    <3> QED
      BY <3>1, <3>2
  <2>3. ASSUME NEW i \in n..Len(s2), NEW j \in n..Len(s2), i <= j
        PROVE  cut2[i] <= cut2[j]
    <3>1. CASE j = N + 1
      <4>1. CASE i = N + 1
        BY <1>2, <1>4, <1>6, <3>1, <4>1
      <4>2. CASE i # N + 1
        <5>1. i \in n..N
          BY <1>2, <1>3, <4>2
        <5> QED
          BY <1>2, <1>4, <1>6, <3>1, <5>1
      <4> QED
        BY <4>1, <4>2
    <3>2. CASE j # N + 1
      <4>1. i \in n..N /\ j \in n..N
        BY <1>2, <1>3, <2>3, <3>2
      <4>2. cut[i] <= cut[j]
        BY <1>1, <2>3, <4>1 DEF Cuts, N
      <4> QED
        BY <1>6, <4>1, <4>2
    <3> QED
      BY <3>1, <3>2
  <2> QED
    BY <2>1, <2>2, <2>3 DEF Cuts
<1>8. ASSUME NEW i \in (n + 1)..Len(s2), NEW j \in 1..Size(s2[i])
      PROVE  b2[cut2[i - 1] + j] = Bytes(s2[i])[j]
  <2>1. CASE i = N + 1
    <3>1. i - 1 = N /\ N \in n..N
      BY <1>2, <2>1 DEF N
    <3> QED
      BY <1>3, <1>5, <1>6, <2>1, <3>1
  <2>2. CASE i # N + 1
    <3>1. i \in (n + 1)..N /\ i \in 1..N
      BY <1>2, <1>3, <2>2
    <3>2. s2[i] = s[i] /\ cut2[i - 1] = cut[i - 1] /\ cut[i - 1] \in Nat
          /\ Size(s[i]) \in Nat /\ cut[i - 1] + Size(s[i]) <= cut[N] /\ cut[N] \in Nat
      BY <1>2, <1>3, <1>6, <3>1
    <3>3. cut[i - 1] + j <= Len(b) /\ cut[i - 1] + j \in 1..Len(b)
      <4>1. Len(b) = cut[N]
        BY <1>1 DEF N
      <4>2. s2[i] = s[i] /\ Size(s[i]) \in Nat /\ j \in 1..Size(s2[i])
        BY <1>8, <3>2
      <4>3. j \in Nat /\ 1 <= j /\ j <= Size(s[i])
        BY <4>2
      <4> DEFINE u == cut[i - 1]  z == Size(s[i])  all == cut[N]  L == Len(b)
      <4>4. u \in Nat /\ z \in Nat /\ u + z <= all /\ all \in Nat /\ L = all /\ j \in Nat
            /\ 1 <= j /\ j <= z
        BY <3>2, <4>1, <4>3
      <4> HIDE DEF u, z, all, L
      <4>5. u + j <= L /\ u + j \in 1..L
        BY <4>4
      <4> QED
        BY <4>5 DEF u, L
    <3>4. b[cut[i - 1] + j] = Bytes(s[i])[j]
      BY <1>1, <3>1, <3>2, <3>3 DEF N
    <3> QED
      BY <1>5, <3>2, <3>3, <3>4
  <2> QED
    BY <2>1, <2>2
<1>9. cut2 \in [n..Len(s2) -> Nat] /\ Len(b2) = cut2[Len(s2)] /\ Len(b2) <= cut2[Len(s2)]
  BY <1>2, <1>3, <1>4, <1>5, <1>6
<1>10. Carries(b2, s2, n, TRUE)
  BY <1>7, <1>8, <1>9 DEF Carries
<1> QED
  BY <1>10 DEF b2, s2

\* Bytes that are there begin with the first message.
LEMMA CarriesFirst ==
  ASSUME NEW s \in Seq(Messages), NEW n \in 0..Len(s), NEW b \in Seq(Octet),
         NEW whole \in BOOLEAN, Carries(b, s, n, whole), b # <<>>
  PROVE  /\ n < Len(s) /\ n + 1 \in 1..Len(s) /\ s[n + 1] \in Messages
         /\ \A j \in 1..Size(s[n + 1]) : j <= Len(b) => b[j] = Bytes(s[n + 1])[j]
<1>1. PICK cut \in [n..Len(s) -> Nat] :
        /\ Cuts(cut, s, n) /\ Len(b) <= cut[Len(s)]
        /\ \A i \in (n + 1)..Len(s) : \A j \in 1..Size(s[i]) :
             cut[i - 1] + j <= Len(b) => b[cut[i - 1] + j] = Bytes(s[i])[j]
  BY DEF Carries
<1>2. /\ Len(s) \in Nat /\ n \in Nat /\ cut[n] = 0
      /\ \A i \in (n + 1)..Len(s) : s[i] \in Messages /\ Size(s[i]) \in Nat \ {0}
  BY <1>1, CutsAre
<1>3. Len(b) \in Nat \ {0}
  BY EmptySeq
<1>4. n # Len(s)
  BY <1>1, <1>2, <1>3
<1>5. n + 1 \in (n + 1)..Len(s) /\ n < Len(s) /\ n + 1 \in 1..Len(s) /\ (n + 1) - 1 = n
  BY <1>2, <1>4
<1>6. \A j \in 1..Size(s[n + 1]) : 0 + j <= Len(b) => b[0 + j] = Bytes(s[n + 1])[j]
  BY <1>1, <1>2, <1>5
<1>7. \A j \in 1..Size(s[n + 1]) : 0 + j = j
  BY <1>2, <1>5
<1> QED
  BY <1>2, <1>5, <1>6, <1>7

\* When the first message is taken, the bytes behind it are those of the others.
LEMMA CarriesRest ==
  ASSUME NEW s \in Seq(Messages), NEW n \in 0..Len(s), n < Len(s), NEW c \in Seq(Octet),
         NEW whole \in BOOLEAN, Carries(Bytes(s[n + 1]) \o c, s, n, whole)
  PROVE  Carries(c, s, n + 1, whole)
<1> DEFINE N == Len(s)  b == Bytes(s[n + 1]) \o c
<1>1. PICK cut \in [n..N -> Nat] :
        /\ Cuts(cut, s, n) /\ Len(b) <= cut[N] /\ (whole => Len(b) = cut[N])
        /\ \A i \in (n + 1)..N : \A j \in 1..Size(s[i]) :
             cut[i - 1] + j <= Len(b) => b[cut[i - 1] + j] = Bytes(s[i])[j]
  BY DEF Carries
<1>2. /\ N \in Nat /\ n \in Nat /\ cut[N] \in Nat /\ cut[n] = 0
      /\ \A i \in n..N : cut[i] \in Nat /\ cut[i] <= cut[N]
      /\ \A i \in (n + 1)..N :
           /\ s[i] \in Messages /\ Size(s[i]) \in Nat \ {0}
           /\ i - 1 \in n..N /\ i \in n..N
           /\ cut[i - 1] \in Nat /\ cut[i] \in Nat /\ cut[i] = cut[i - 1] + Size(s[i])
           /\ cut[i] <= cut[N]
  BY <1>1, CutsAre
<1> DEFINE z == Size(s[n + 1])
           cut2 == [i \in (n + 1)..N |-> cut[i] - z]
<1>3. n + 1 \in (n + 1)..N /\ (n + 1) - 1 = n /\ N \in (n + 1)..N
  BY <1>2
<1>4. z \in Nat \ {0} /\ cut[n + 1] = z
      /\ Bytes(s[n + 1]) \in Seq(Octet) /\ Len(Bytes(s[n + 1])) = z
  <2>1. n + 1 \in (n + 1)..N
    BY <1>3
  <2>2. s[n + 1] \in Messages /\ z \in Nat \ {0}
    BY <1>2, <2>1
  <2>3. cut[n + 1] = cut[n] + z /\ cut[n] = 0
    BY <1>2, <1>3, <2>1
  <2>4. Bytes(s[n + 1]) \in Seq(Octet) /\ Len(Bytes(s[n + 1])) = z
    BY <2>2, BytesOf
  <2> QED
    BY <2>2, <2>3, <2>4
<1>5. /\ Len(c) \in Nat /\ Len(b) = z + Len(c)
      /\ \A i \in 1..Len(c) : b[z + i] = c[i]
  <2> DEFINE d == Bytes(s[n + 1])
  <2>1. d \in Seq(Octet) /\ Len(d) = z /\ b = d \o c
    BY <1>4
  <2> HIDE DEF d, b, z
  <2>2. /\ Len(d \o c) = Len(d) + Len(c) /\ Len(c) \in Nat
        /\ \A i \in 1..Len(c) : (d \o c)[Len(d) + i] = c[i]
    BY <2>1, Joined
  <2> QED
    BY <2>1, <2>2
<1> HIDE DEF b, z, N
<1>6. \A i \in (n + 1)..N : cut[i] \in Nat /\ z <= cut[i]
  <2>1. \A i \in (n + 1)..N : n + 1 <= i /\ i \in n..N /\ n + 1 \in n..N
    BY <1>2
  <2> QED
    BY <1>1, <1>2, <1>4, <2>1 DEF Cuts, N
<1>7. \A i \in (n + 1)..N : cut2[i] = cut[i] - z /\ cut2[i] \in Nat
  BY <1>4, <1>6
<1>8. cut2 \in [(n + 1)..N -> Nat]
  BY <1>7
<1> HIDE DEF cut2
<1>9. Cuts(cut2, s, n + 1)
  <2>1. cut2[n + 1] = 0
    BY <1>3, <1>4, <1>7
  <2>2. ASSUME NEW i \in (n + 1 + 1)..N
        PROVE  cut2[i] = cut2[i - 1] + Size(s[i])
    <3>1. i \in (n + 1)..N /\ i - 1 \in (n + 1)..N
      BY <1>2
    <3>2. cut2[i] = cut[i] - z /\ cut2[i - 1] = cut[i - 1] - z
      BY <1>7, <3>1
    <3>3. cut[i] = cut[i - 1] + Size(s[i]) /\ cut[i - 1] \in Nat /\ Size(s[i]) \in Nat
      BY <1>2, <3>1
    <3> QED
      BY <1>4, <3>2, <3>3
  <2>3. ASSUME NEW i \in (n + 1)..N, NEW j \in (n + 1)..N, i <= j
        PROVE  cut2[i] <= cut2[j]
    <3>1. i \in n..N /\ j \in n..N
      BY <1>2
    <3>2. cut[i] <= cut[j]
      BY <1>1, <2>3, <3>1 DEF Cuts, N
    <3> QED
      BY <1>4, <1>6, <1>7, <3>2
  <2> QED
    BY <1>8, <2>1, <2>2, <2>3 DEF Cuts, N
<1>10. Len(c) <= cut2[N] /\ (whole => Len(c) = cut2[N])
  <2>1. cut2[N] = cut[N] - z /\ cut[N] \in Nat /\ z \in Nat /\ Len(b) = z + Len(c)
        /\ Len(c) \in Nat
    BY <1>2, <1>3, <1>4, <1>5, <1>7
  <2>2. Len(c) <= cut2[N]
    BY <1>1, <2>1
  <2>3. Len(b) = cut[N] => Len(c) = cut2[N]
    BY <2>1
  <2>4. whole => Len(b) = cut[N]
    BY <1>1
  <2> QED
    BY <2>2, <2>3, <2>4
<1>11. ASSUME NEW i \in (n + 1 + 1)..N, NEW j \in 1..Size(s[i]), cut2[i - 1] + j <= Len(c)
       PROVE  c[cut2[i - 1] + j] = Bytes(s[i])[j]
  <2>1. i \in (n + 1)..N /\ i - 1 \in (n + 1)..N
    BY <1>2
  <2>2. cut2[i - 1] = cut[i - 1] - z /\ cut2[i - 1] \in Nat /\ cut[i - 1] \in Nat
        /\ Size(s[i]) \in Nat
    BY <1>2, <1>7, <2>1
  <2>3. /\ cut2[i - 1] + j \in 1..Len(c) /\ z + (cut2[i - 1] + j) = cut[i - 1] + j
        /\ cut[i - 1] + j <= Len(b)
    <3> DEFINE x == cut2[i - 1]  y == cut[i - 1]
    <3>1. x = y - z /\ x \in Nat /\ y \in Nat /\ z \in Nat /\ j \in Nat /\ j >= 1
      BY <1>4, <2>2
    <3>2. x + j <= Len(c) /\ Len(c) \in Nat /\ Len(b) = z + Len(c)
      BY <1>5, <1>11
    <3> HIDE DEF x, y
    <3>3. x + j \in 1..Len(c) /\ z + (x + j) = y + j /\ y + j <= Len(b)
      BY <3>1, <3>2
    <3> QED
      BY <3>3 DEF x, y
  <2>4. c[cut2[i - 1] + j] = b[cut[i - 1] + j]
    BY <1>5, <2>3
  <2> QED
    BY <1>1, <2>1, <2>3, <2>4
<1> QED
  BY <1>8, <1>9, <1>10, <1>11 DEF Carries, N

-----------------------------------------------------------------------------
(* What recvMessage() has taken. *)

\* A sequence that is cut in two.
LEMMA Split ==
  \A s \in Seq(Octet) : \A k \in 0..Len(s) :
    /\ SubSeq(s, 1, k) \in Seq(Octet) /\ SubSeq(s, k + 1, Len(s)) \in Seq(Octet)
    /\ Len(SubSeq(s, 1, k)) = k /\ Len(SubSeq(s, k + 1, Len(s))) = Len(s) - k
    /\ \A i \in 1..k : SubSeq(s, 1, k)[i] = s[i]
    /\ SubSeq(s, 1, k) \o SubSeq(s, k + 1, Len(s)) = s
<1> SUFFICES ASSUME NEW s \in Seq(Octet), NEW k \in 0..Len(s)
    PROVE  /\ SubSeq(s, 1, k) \in Seq(Octet) /\ SubSeq(s, k + 1, Len(s)) \in Seq(Octet)
           /\ Len(SubSeq(s, 1, k)) = k /\ Len(SubSeq(s, k + 1, Len(s))) = Len(s) - k
           /\ \A i \in 1..k : SubSeq(s, 1, k)[i] = s[i]
           /\ SubSeq(s, 1, k) \o SubSeq(s, k + 1, Len(s)) = s
  OBVIOUS
<1> DEFINE N == Len(s)
<1>1. N \in Nat /\ k \in 0..N /\ \A i \in 1..N : s[i] \in Octet
  BY LenProperties, ElementOfSeq
<1> HIDE DEF N
<1>2. /\ k \in Int /\ N \in Int /\ k + 1 \in Int /\ 1 \in Int
      /\ \A i \in 1..k : s[i] \in Octet
      /\ \A i \in (k + 1)..N : s[i] \in Octet
  BY <1>1
<1>3. /\ SubSeq(s, 1, k) \in Seq(Octet)
      /\ Len(SubSeq(s, 1, k)) = IF 1 <= k THEN k - 1 + 1 ELSE 0
      /\ \A i \in 1..(k - 1 + 1) : SubSeq(s, 1, k)[i] = s[1 + i - 1]
  BY <1>2, SubSeqProperties
<1>4. /\ SubSeq(s, k + 1, N) \in Seq(Octet)
      /\ Len(SubSeq(s, k + 1, N)) = IF k + 1 <= N THEN N - (k + 1) + 1 ELSE 0
  BY <1>2, SubSeqProperties
<1>5. Len(SubSeq(s, 1, k)) = k /\ Len(SubSeq(s, k + 1, N)) = N - k
  BY <1>1, <1>3, <1>4
<1>6. \A i \in 1..k : i \in 1..(k - 1 + 1) /\ 1 + i - 1 = i
  BY <1>1
<1>7. \A i \in 1..k : SubSeq(s, 1, k)[i] = s[i]
  BY <1>3, <1>6
<1>8. SubSeq(s, 1, k) \o SubSeq(s, k + 1, N) = s
  <2>1. 1 \in 1..(N + 1) /\ k \in (1 - 1)..N /\ N \in k..N
    BY <1>1
  <2>2. SubSeq(s, 1, k) \o SubSeq(s, k + 1, N) = SubSeq(s, 1, N)
    BY <2>1, ConcatAdjacentSubSeq DEF N
  <2> QED
    BY <2>2, SubSeqFull DEF N
<1> QED
  BY <1>3, <1>4, <1>5, <1>7, <1>8 DEF N

\* A recvMessage() that takes a field, and one that does not.
InProgress(r) == r.stage \in {"length", "type", "payload"}
Lengths == 1..(1 + MaxPayload)
Partial ==
  {r \in [stage : {"length"}, need : {LenBytes}, buf : Seq(Octet), len : {0}, type : {0}] :
     Len(r.buf) < r.need}
  \cup [stage : {"type"}, need : {1}, buf : {<<>>}, len : Lengths, type : {0}]
  \cup {r \in [stage : {"payload"}, need : Nat, buf : Seq(Octet), len : Lengths, type : Nat] :
          r.need = r.len - 1 /\ Len(r.buf) < r.need}
Eof == [stage |-> "eof"]
Receivers == Partial \cup {Idle, Eof} \cup [stage : {"done"}, msg : Messages]

\* The bytes of the message that is being received which it has so far.
Consumed(r) ==
  CASE r.stage = "length" -> r.buf
    [] r.stage = "type" -> BigEndian(r.len)
    [] r.stage = "payload" -> (BigEndian(r.len) \o <<r.type>>) \o r.buf
    [] OTHER -> <<>>

\* A recvMessage() is in one of the stages.
LEMMA Stages ==
  /\ \A r \in Receivers : InProgress(r) <=> r \in Partial
  /\ \A r \in Partial :
       /\ r.stage \in {"length", "type", "payload"} /\ r.buf \in Seq(Octet)
       /\ r.need \in Nat /\ Len(r.buf) \in Nat /\ Len(r.buf) < r.need
       /\ r.stage = "length" => r.need = LenBytes /\ r.len = 0 /\ r.type = 0
       /\ r.stage = "type" => r.need = 1 /\ r.buf = <<>> /\ r.len \in Lengths /\ r.type = 0
       /\ r.stage = "payload" => r.len \in Lengths /\ r.need = r.len - 1 /\ r.type \in Nat
       /\ r = [stage |-> r.stage, need |-> r.need, buf |-> r.buf, len |-> r.len,
               type |-> r.type]
  /\ \A r \in Receivers : ~ InProgress(r) => Consumed(r) = <<>>
  /\ \A r \in Receivers : r.stage # "error"
  /\ \A r \in Receivers : r.stage = "done" => r.msg \in Messages
  /\ Idle \in Receivers /\ Eof \in Receivers
  /\ ~ InProgress(Idle) /\ ~ InProgress(Eof)
<1>1. \A r \in Receivers :
        \/ r \in Partial
        \/ r = Idle \/ r = Eof
        \/ r.stage = "done" /\ r.msg \in Messages
  BY DEF Receivers
<1>2. \A r \in Partial :
       /\ r.stage \in {"length", "type", "payload"} /\ r.buf \in Seq(Octet)
       /\ r.need \in Nat /\ Len(r.buf) < r.need
       /\ r.stage = "length" => r.need = LenBytes /\ r.len = 0 /\ r.type = 0
       /\ r.stage = "type" => r.need = 1 /\ r.buf = <<>> /\ r.len \in Lengths /\ r.type = 0
       /\ r.stage = "payload" => r.len \in Lengths /\ r.need = r.len - 1 /\ r.type \in Nat
       /\ r = [stage |-> r.stage, need |-> r.need, buf |-> r.buf, len |-> r.len,
               type |-> r.type]
  <2> DEFINE A == [stage : {"length"}, need : {LenBytes}, buf : Seq(Octet), len : {0}, type : {0}]
             B == [stage : {"type"}, need : {1}, buf : {<<>>}, len : Lengths, type : {0}]
             C == [stage : {"payload"}, need : Nat, buf : Seq(Octet), len : Lengths, type : Nat]
  <2>1. LenBytes \in Nat
    BY StreamAssumption
  <2>2. <<>> \in Seq(Octet) /\ Len(<<>>) = 0
    BY EmptySeq
  <2>3. \A r \in A :
          /\ r.stage = "length" /\ r.buf \in Seq(Octet) /\ r.need = LenBytes /\ r.len = 0
          /\ r.type = 0
          /\ r = [stage |-> r.stage, need |-> r.need, buf |-> r.buf, len |-> r.len,
                  type |-> r.type]
    OBVIOUS
  <2>4. \A r \in B :
          /\ r.stage = "type" /\ r.buf = <<>> /\ r.need = 1 /\ r.len \in Lengths /\ r.type = 0
          /\ r = [stage |-> r.stage, need |-> r.need, buf |-> r.buf, len |-> r.len,
                  type |-> r.type]
    OBVIOUS
  <2>5. \A r \in C :
          /\ r.stage = "payload" /\ r.buf \in Seq(Octet) /\ r.need \in Nat /\ r.len \in Lengths
          /\ r.type \in Nat
          /\ r = [stage |-> r.stage, need |-> r.need, buf |-> r.buf, len |-> r.len,
                  type |-> r.type]
    OBVIOUS
  <2>6. \A r \in Partial :
          \/ r \in A /\ Len(r.buf) < r.need
          \/ r \in B
          \/ r \in C /\ r.need = r.len - 1 /\ Len(r.buf) < r.need
    BY DEF Partial
  <2> HIDE DEF A, B, C
  <2> DEFINE Shape(r) ==
         /\ r.stage \in {"length", "type", "payload"} /\ r.buf \in Seq(Octet)
         /\ r.need \in Nat /\ Len(r.buf) < r.need
         /\ r.stage = "length" => r.need = LenBytes /\ r.len = 0 /\ r.type = 0
         /\ r.stage = "type" => r.need = 1 /\ r.buf = <<>> /\ r.len \in Lengths /\ r.type = 0
         /\ r.stage = "payload" => r.len \in Lengths /\ r.need = r.len - 1 /\ r.type \in Nat
         /\ r = [stage |-> r.stage, need |-> r.need, buf |-> r.buf, len |-> r.len,
                 type |-> r.type]
  <2>7. ASSUME NEW r \in A, Len(r.buf) < r.need
        PROVE  Shape(r)
    BY <2>1, <2>3, <2>7
  <2>8. ASSUME NEW r \in B
        PROVE  Shape(r)
    <3>1. r.stage = "type" /\ r.buf = <<>> /\ r.need = 1 /\ r.len \in Lengths /\ r.type = 0
      BY <2>4
    <3>2. r = [stage |-> r.stage, need |-> r.need, buf |-> r.buf, len |-> r.len,
              type |-> r.type]
      BY <2>4
    <3>3. r.buf \in Seq(Octet) /\ Len(r.buf) < r.need /\ r.need \in Nat
      BY <2>2, <3>1
    <3> QED
      BY <3>1, <3>2, <3>3
  <2>9. ASSUME NEW r \in C, Len(r.buf) < r.need, r.need = r.len - 1
        PROVE  Shape(r)
    BY <2>5, <2>9
  <2> HIDE DEF Shape
  <2>10. \A r \in Partial : Shape(r)
    BY <2>6, <2>7, <2>8, <2>9
  <2> QED
    BY <2>10 DEF Shape
<1>3. Idle.stage = "idle" /\ Eof.stage = "eof"
  BY DEF Idle, Eof
<1>4. \A r \in Receivers : InProgress(r) <=> r \in Partial
  BY <1>1, <1>2, <1>3 DEF InProgress
<1>5. \A r \in Receivers : ~ InProgress(r) => Consumed(r) = <<>>
  BY DEF InProgress, Consumed
<1>6. \A r \in Receivers : r.stage # "error" /\ (r.stage = "done" => r.msg \in Messages)
  BY <1>1, <1>2, <1>3
<1>7. Idle \in Receivers /\ Eof \in Receivers /\ ~ InProgress(Idle) /\ ~ InProgress(Eof)
  BY <1>3 DEF Receivers, InProgress
<1> QED
  BY <1>2, <1>4, <1>5, <1>6, <1>7

\* What is taken are bytes.
LEMMA ConsumedType ==
  \A r \in Receivers : Consumed(r) \in Seq(Octet)
<1> SUFFICES ASSUME NEW r \in Receivers
             PROVE  Consumed(r) \in Seq(Octet)
  OBVIOUS
<1>1. CASE ~ InProgress(r)
  BY <1>1, Stages, EmptySeq
<1>2. CASE InProgress(r)
  <2>1. r \in Partial
    BY <1>2, Stages
  <2>2. CASE r.stage = "length"
    BY <2>1, <2>2, Stages DEF Consumed
  <2>3. CASE r.stage = "type"
    <3>1. r.len \in Nat
      BY <2>1, <2>3, Stages DEF Lengths
    <3> QED
      BY <2>3, <3>1, NumberOfBigEndian DEF Consumed, Octet
  <2>4. CASE r.stage = "payload"
    <3> DEFINE a == BigEndian(r.len)  t == <<r.type>>  p == r.buf
    <3>1. r.len \in Nat /\ r.type \in Nat /\ p \in Seq(Octet)
      BY <2>1, <2>4, Stages DEF Lengths
    <3>a. a \in Seq(Octet)
      BY <3>1, NumberOfBigEndian DEF Octet
    <3>b. t \in Seq(Octet)
      BY <3>1 DEF Octet
    <3>c. Consumed(r) = (a \o t) \o p
      BY <2>4 DEF Consumed
    <3>2. a \in Seq(Octet) /\ t \in Seq(Octet) /\ Consumed(r) = (a \o t) \o p
      BY <3>a, <3>b, <3>c
    <3> HIDE DEF a, t, p
    <3>3. a \o t \in Seq(Octet)
      BY <3>2, Joined
    <3>4. (a \o t) \o p \in Seq(Octet)
      BY <3>1, <3>3, Joined
    <3> QED
      BY <3>2, <3>4
  <2> QED
    BY <2>1, <2>2, <2>3, <2>4, Stages
<1> QED
  BY <1>1, <1>2

\* The stages, and the bytes each has taken.
LEMMA Partials ==
  /\ \A b \in Seq(Octet) : Len(b) < LenBytes =>
       LET r == [stage |-> "length", need |-> LenBytes, buf |-> b, len |-> 0, type |-> 0]
       IN  r \in Partial /\ Consumed(r) = b
  /\ \A l \in Lengths :
       Field("type", 1, l, 0) \in Partial /\ Consumed(Field("type", 1, l, 0)) = BigEndian(l)
  /\ \A l \in Lengths, b \in Seq(Octet), t \in Nat : Len(b) < l - 1 =>
       LET r == [stage |-> "payload", need |-> l - 1, buf |-> b, len |-> l, type |-> t]
       IN  r \in Partial /\ Consumed(r) = (BigEndian(l) \o <<t>>) \o b
<1>1. ASSUME NEW b \in Seq(Octet), Len(b) < LenBytes
      PROVE  LET r == [stage |-> "length", need |-> LenBytes, buf |-> b, len |-> 0, type |-> 0]
             IN  r \in Partial /\ Consumed(r) = b
  BY <1>1 DEF Partial, Consumed
<1>2. ASSUME NEW l \in Lengths
      PROVE  Field("type", 1, l, 0) \in Partial /\ Consumed(Field("type", 1, l, 0)) = BigEndian(l)
  BY DEF Partial, Consumed, Field
<1>3. ASSUME NEW l \in Lengths, NEW b \in Seq(Octet), NEW t \in Nat, Len(b) < l - 1
      PROVE  LET r == [stage |-> "payload", need |-> l - 1, buf |-> b, len |-> l, type |-> t]
             IN  r \in Partial /\ Consumed(r) = (BigEndian(l) \o <<t>>) \o b
  <2> DEFINE r == [stage |-> "payload", need |-> l - 1, buf |-> b, len |-> l, type |-> t]
  <2>1. l - 1 \in Nat
    BY DEF Lengths
  <2>2. r \in Partial
    BY <1>3, <2>1 DEF Partial
  <2>3. Consumed(r) = (BigEndian(l) \o <<t>>) \o b
    BY DEF Consumed
  <2> QED
    BY <2>2, <2>3
<1> QED
  BY <1>1, <1>2, <1>3

\* The bytes b are those of the message m, or the first of them; more may follow.
Begins(b, m) == \A j \in 1..Size(m) : j <= Len(b) => b[j] = Bytes(m)[j]

\* recvMessage() after recv() has returned x.
Taken(r, x) ==
  IF Len(r.buf \o x) < r.need THEN [r EXCEPT !.buf = r.buf \o x]
  ELSE NextField(r, r.buf \o x)

\* It has taken x and goes on, or it has the message m and no byte more.
Proceeds(r, x, m) ==
  \/ Taken(r, x) \in Partial /\ Consumed(Taken(r, x)) = Consumed(r) \o x
  \/ /\ Taken(r, x) \in Receivers /\ Taken(r, x).stage = "done" /\ Taken(r, x).msg = m
     /\ Consumed(r) \o x = Bytes(m)

\* What is taken of the length, and what comes when it is there.
LEMMA TakeLength ==
  ASSUME NEW m \in Messages, NEW r \in Partial, r.stage = "length", NEW x \in Seq(Octet),
         Len(x) <= r.need - Len(r.buf), Begins(Consumed(r) \o x, m)
  PROVE  Proceeds(r, x, m)
<1> DEFINE c == r.buf \o x  n == 1 + Len(m.payload)
<1>1. /\ r.buf \in Seq(Octet) /\ r.need = LenBytes /\ LenBytes \in Nat \ {0}
      /\ r = [stage |-> "length", need |-> LenBytes, buf |-> r.buf, len |-> 0, type |-> 0]
      /\ Len(r.buf) \in Nat
  BY Stages, StreamAssumption
<1>2. Consumed(r) = r.buf
  BY DEF Consumed
<1>3. c \in Seq(Octet) /\ Len(c) = Len(r.buf) + Len(x) /\ Len(x) \in Nat
  BY <1>1, Joined
<1>4. Len(c) <= LenBytes /\ Len(c) \in Nat
  BY <1>1, <1>3
<1> HIDE DEF c, n
<1>5. CASE Len(c) < LenBytes
  <2>1. Taken(r, x) = [r EXCEPT !.buf = c]
    BY <1>1, <1>5 DEF Taken, c
  <2>2. [r EXCEPT !.buf = c]
          = [stage |-> "length", need |-> LenBytes, buf |-> c, len |-> 0, type |-> 0]
    BY <1>1
  <2>3. Taken(r, x) \in Partial /\ Consumed(Taken(r, x)) = c
    BY <1>3, <1>5, <2>1, <2>2, Partials
  <2> QED
    BY <1>2, <2>3 DEF Proceeds, c
<1>6. CASE ~ Len(c) < LenBytes
  <2>1. Len(c) = LenBytes
    BY <1>1, <1>4, <1>6
  <2>2. Size(m) \in Nat /\ n \in Lengths /\ NumberOf(BigEndian(n)) = n
        /\ LenBytes <= Size(m) /\ n \in Nat
        /\ \A j \in 1..LenBytes : Bytes(m)[j] = BigEndian(n)[j]
    <3>1. Len(m.payload) \in 0..MaxPayload /\ MaxPayload \in Nat
      BY MessageParts, StreamAssumption
    <3>2. NumberOf(BigEndian(n)) = n /\ \A j \in 1..LenBytes : Bytes(m)[j] = BigEndian(n)[j]
      BY BytesOf DEF n
    <3>3. n \in Lengths /\ n \in Nat
      BY <3>1 DEF n, Lengths
    <3>4. Size(m) \in Nat /\ LenBytes <= Size(m)
      BY <1>1, <3>1 DEF Size
    <3> QED
      BY <3>2, <3>3, <3>4
  <2>3. \A j \in 1..LenBytes : c[j] = BigEndian(n)[j]
    <3> TAKE j \in 1..LenBytes
    <3>1. j \in 1..Size(m) /\ j <= Len(c)
      BY <1>1, <2>1, <2>2
    <3>2. c[j] = Bytes(m)[j]
      BY <1>2, <3>1 DEF Begins, c
    <3> QED
      BY <2>2, <3>2
  <2>4. c = BigEndian(n)
    <3> DEFINE a == BigEndian(n)
    <3>1. a \in Seq(Octet) /\ Len(a) = LenBytes
      BY <2>2, NumberOfBigEndian DEF Octet
    <3>2. \A j \in 1..LenBytes : c[j] = a[j]
      BY <2>3
    <3> HIDE DEF a
    <3>3. c = a
      BY <1>3, <2>1, <3>1, <3>2, SeqEqual
    <3> QED
      BY <3>3 DEF a
  <2>5. Taken(r, x) = NextField(r, c)
    BY <1>1, <1>6 DEF Taken, c
  <2>6. NumberOf(c) = n /\ InRange(n)
    BY <2>2, <2>4 DEF InRange, Lengths
  <2>7. NextField(r, c) = Field("type", 1, n, 0)
    BY <2>6 DEF NextField
  <2>8. Taken(r, x) \in Partial /\ Consumed(Taken(r, x)) = c
    BY <2>2, <2>4, <2>5, <2>7, Partials
  <2> QED
    BY <1>2, <2>8 DEF Proceeds, c
<1> QED
  BY <1>5, <1>6

\* A length that is there is the right one, and the type and the payload come behind it.
LEMMA BehindLength ==
  ASSUME NEW m \in Messages, NEW l \in Lengths, NEW b \in Seq(Octet),
         Begins(BigEndian(l) \o b, m)
  PROVE  /\ l = 1 + Len(m.payload) /\ Len(m.payload) \in Nat
         /\ Len(b) >= 1 => b[1] = m.type
         /\ \A j \in 1..Len(m.payload) : 1 + j <= Len(b) => b[1 + j] = m.payload[j]
<1> DEFINE n == 1 + Len(m.payload)  a == BigEndian(l)  d == a \o b  p == m.payload
<1>1. LenBytes \in Nat \ {0} /\ Len(p) \in 0..MaxPayload /\ MaxPayload \in Nat
      /\ 1 + MaxPayload < Power[LenBytes] /\ Power[LenBytes] \in Nat
  BY StreamAssumption, MessageParts, PowerValues
<1>2. /\ Size(m) = LenBytes + 1 + Len(p) /\ Size(m) \in Nat
      /\ \A j \in 1..LenBytes : Bytes(m)[j] = BigEndian(n)[j]
      /\ Bytes(m)[LenBytes + 1] = m.type
      /\ \A j \in 1..Len(p) : Bytes(m)[LenBytes + 1 + j] = p[j]
      /\ NumberOf(BigEndian(n)) = n
  BY BytesOf DEF Size
<1>3. l \in Nat /\ l < Power[LenBytes] /\ n \in Nat
  BY <1>1 DEF Lengths
<1>4. a \in Seq(Octet) /\ Len(a) = LenBytes /\ NumberOf(a) = l
  BY <1>3, NumberOfBigEndian DEF Octet
<1>5. BigEndian(n) \in Seq(Octet) /\ Len(BigEndian(n)) = LenBytes
  BY <1>3, NumberOfBigEndian DEF Octet
<1>6. Begins(d, m)
  OBVIOUS
<1> HIDE DEF n, a, d, p
<1>7. /\ Len(d) = LenBytes + Len(b) /\ Len(b) \in Nat
      /\ \A i \in 1..LenBytes : d[i] = a[i]
      /\ \A i \in 1..Len(b) : d[LenBytes + i] = b[i]
  <2>1. /\ Len(a \o b) = Len(a) + Len(b) /\ Len(b) \in Nat
        /\ \A i \in 1..Len(a) : (a \o b)[i] = a[i]
        /\ \A i \in 1..Len(b) : (a \o b)[Len(a) + i] = b[i]
    BY <1>4, Joined
  <2> QED
    BY <1>4, <2>1 DEF d
<1>8. \A j \in 1..Size(m) : j <= LenBytes + Len(b) => d[j] = Bytes(m)[j]
  BY <1>6, <1>7 DEF Begins
<1>9. a = BigEndian(n)
  <2> DEFINE g == BigEndian(n)
  <2>1. ASSUME NEW j \in 1..LenBytes
        PROVE  a[j] = g[j]
    <3>1. j \in 1..Size(m) /\ j <= LenBytes + Len(b)
      BY <1>1, <1>2, <1>7
    <3> QED
      BY <1>2, <1>7, <1>8, <3>1
  <2>2. g \in Seq(Octet) /\ Len(g) = LenBytes
    BY <1>5
  <2> HIDE DEF g
  <2>3. a = g
    BY <1>4, <2>1, <2>2, SeqEqual
  <2> QED
    BY <2>3 DEF g
<1>10. l = n
  BY <1>2, <1>4, <1>9
<1>11. ASSUME Len(b) >= 1
       PROVE  b[1] = m.type
  <2>1. LenBytes + 1 \in 1..Size(m) /\ LenBytes + 1 <= LenBytes + Len(b) /\ 1 \in 1..Len(b)
    BY <1>1, <1>2, <1>7, <1>11
  <2> QED
    BY <1>2, <1>7, <1>8, <2>1
<1>12. ASSUME NEW j \in 1..Len(p), 1 + j <= Len(b)
       PROVE  b[1 + j] = p[j]
  <2>1. /\ LenBytes + (1 + j) \in 1..Size(m) /\ LenBytes + (1 + j) <= LenBytes + Len(b)
        /\ 1 + j \in 1..Len(b) /\ LenBytes + (1 + j) = LenBytes + 1 + j
    BY <1>1, <1>2, <1>7, <1>12
  <2>2. d[LenBytes + (1 + j)] = b[1 + j] /\ d[LenBytes + (1 + j)] = Bytes(m)[LenBytes + (1 + j)]
    BY <1>7, <1>8, <2>1
  <2> QED
    BY <1>2, <2>1, <2>2
<1> QED
  BY <1>1, <1>10, <1>11, <1>12 DEF n, p

\* The type, and the message if there is no payload.
LEMMA TakeType ==
  ASSUME NEW m \in Messages, NEW r \in Partial, r.stage = "type", NEW x \in Seq(Octet),
         x # <<>>, Len(x) <= r.need - Len(r.buf), Begins(Consumed(r) \o x, m)
  PROVE  Proceeds(r, x, m)
<1> DEFINE l == r.len  a == BigEndian(l)
<1>1. r.need = 1 /\ r.buf = <<>> /\ l \in Lengths /\ l \in Nat
  BY Stages DEF Lengths
<1>2. Consumed(r) = BigEndian(l)
  BY DEF Consumed
<1>3. Len(x) = 1 /\ 1 \in 1..Len(x)
  <2>1. Len(x) \in Nat \ {0} /\ Len(<<>>) = 0
    BY EmptySeq
  <2>2. r.need - Len(r.buf) = 1
    BY <1>1, <2>1
  <2>3. Len(x) <= 1 /\ Len(x) \in Nat \ {0}
    BY <2>1, <2>2
  <2>4. \A k \in Nat \ {0} : k <= 1 => k = 1
    OBVIOUS
  <2>5. Len(x) = 1
    BY <2>3, <2>4
  <2>6. 1 \in 1..1
    OBVIOUS
  <2> QED
    BY <2>5, <2>6
<1>4. <<>> \o x = x
  BY ConcatEmptySeq
<1>5. Taken(r, x) = NextField(r, x)
  BY <1>1, <1>3, <1>4 DEF Taken
<1>6. x[1] \in Nat /\ x = <<x[1]>>
  BY <1>3, ElementOfSeq DEF Octet
<1>7. l = 1 + Len(m.payload) /\ x[1] = m.type /\ Len(m.payload) \in Nat
  BY <1>1, <1>2, <1>3, BehindLength
<1>8. CASE l = 1
  <2>1. Taken(r, x) = Done(x[1], <<>>)
    BY <1>5, <1>8 DEF NextField
  <2>2. m.payload = <<>>
    <3>1. m.payload \in Seq(Octet) /\ Len(m.payload) = 0
      BY <1>7, <1>8, MessageParts
    <3> QED
      BY <3>1, EmptySeq
  <2>3. m = [type |-> x[1], payload |-> <<>>]
    BY <1>7, <2>2, MessageParts
  <2>4. Taken(r, x).stage = "done" /\ Taken(r, x).msg = m /\ Taken(r, x) \in Receivers
    BY <2>1, <2>3 DEF Done, Receivers
  <2>5. Consumed(r) \o x = Bytes(m)
    <3>1. Bytes(m) = (BigEndian(1 + Len(m.payload)) \o <<m.type>>) \o m.payload
      BY DEF Bytes
    <3>2. Bytes(m) = (a \o x) \o <<>>
      BY <1>6, <1>7, <2>2, <3>1
    <3>3. a \in Seq(Octet)
      BY <1>1, NumberOfBigEndian DEF Octet
    <3>4. Consumed(r) = a
      BY <1>2
    <3> HIDE DEF a
    <3>5. a \o x \in Seq(Octet)
      BY <3>3, Joined
    <3>6. (a \o x) \o <<>> = a \o x
      BY <3>5, ConcatEmptySeq
    <3> QED
      BY <3>2, <3>4, <3>6
  <2> QED
    BY <2>4, <2>5 DEF Proceeds
<1>9. CASE l # 1
  <2>1. Taken(r, x) = Field("payload", l - 1, l, x[1])
    BY <1>5, <1>9 DEF NextField
  <2>2. Field("payload", l - 1, l, x[1])
          = [stage |-> "payload", need |-> l - 1, buf |-> <<>>, len |-> l, type |-> x[1]]
    BY DEF Field
  <2>3. <<>> \in Seq(Octet) /\ Len(<<>>) < l - 1
    BY <1>1, <1>7, <1>9, EmptySeq
  <2>4. Taken(r, x) \in Partial /\ Consumed(Taken(r, x)) = (a \o <<x[1]>>) \o <<>>
    <3> DEFINE u == x[1]  b == <<>>
               q == [stage |-> "payload", need |-> l - 1, buf |-> b, len |-> l, type |-> u]
    <3>1. u \in Nat /\ b \in Seq(Octet) /\ Len(b) < l - 1 /\ l \in Lengths /\ Taken(r, x) = q
      BY <1>1, <1>6, <2>1, <2>2, <2>3
    <3> HIDE DEF u, b, l
    <3>2. q \in Partial /\ Consumed(q) = (BigEndian(l) \o <<u>>) \o b
      BY <3>1, Partials
    <3> HIDE DEF q
    <3>3. Taken(r, x) \in Partial /\ Consumed(Taken(r, x)) = (BigEndian(l) \o <<u>>) \o b
      BY <3>1, <3>2
    <3> QED
      BY <3>3 DEF u, b
  <2>5. (a \o <<x[1]>>) \o <<>> = Consumed(r) \o x
    <3>1. a \in Seq(Octet)
      BY <1>1, NumberOfBigEndian DEF Octet
    <3>2. Consumed(r) = a
      BY <1>2
    <3> HIDE DEF a
    <3>3. a \o x \in Seq(Octet)
      BY <3>1, Joined
    <3>4. (a \o x) \o <<>> = a \o x
      BY <3>3, ConcatEmptySeq
    <3> QED
      BY <1>6, <3>2, <3>4
  <2> QED
    BY <2>4, <2>5 DEF Proceeds
<1> QED
  BY <1>8, <1>9

\* What is taken of the payload, and the message.
LEMMA TakePayload ==
  ASSUME NEW m \in Messages, NEW r \in Partial, r.stage = "payload", NEW x \in Seq(Octet),
         Len(x) <= r.need - Len(r.buf), Begins(Consumed(r) \o x, m)
  PROVE  Proceeds(r, x, m)
<1> DEFINE l == r.len  a == BigEndian(l)  t == <<r.type>>  c == r.buf \o x
<1>1. /\ r.need = l - 1 /\ r.buf \in Seq(Octet) /\ l \in Lengths /\ l \in Nat /\ r.type \in Nat
      /\ r.need \in Nat /\ Len(r.buf) \in Nat
      /\ r = [stage |-> "payload", need |-> l - 1, buf |-> r.buf, len |-> l, type |-> r.type]
  BY Stages DEF Lengths
<1>2. c \in Seq(Octet) /\ Len(c) = Len(r.buf) + Len(x) /\ Len(x) \in Nat
  BY <1>1, Joined
<1>3. Consumed(r) \o x = (a \o t) \o c /\ (a \o t) \o c = a \o (t \o c)
      /\ t \o c \in Seq(Octet) /\ Len(t \o c) = 1 + Len(c)
      /\ (t \o c)[1] = r.type /\ \A j \in 1..Len(c) : (t \o c)[1 + j] = c[j]
  <2> DEFINE b == r.buf
  <2>1. Consumed(r) = (a \o t) \o b
    BY DEF Consumed
  <2>2. a \in Seq(Octet)
    BY <1>1, NumberOfBigEndian DEF Octet
  <2>3. t \in Seq(Octet) /\ Len(t) = 1 /\ t[1] = r.type
    BY <1>1 DEF Octet
  <2>4. b \in Seq(Octet) /\ c = b \o x
    BY <1>1
  <2> HIDE DEF a, t, b, c
  <2>5. a \o t \in Seq(Octet)
    BY <2>2, <2>3, Joined
  <2> DEFINE at == a \o t
  <2>6. at \in Seq(Octet)
    BY <2>5
  <2> HIDE DEF at
  <2>7. (at \o b) \o x = at \o (b \o x)
    BY <1>2, <2>4, <2>6, Associates
  <2>8. (a \o t) \o c = a \o (t \o c)
    <3>1. c \in Seq(Octet)
      BY <1>2
    <3> QED
      BY <2>2, <2>3, <3>1, Associates
  <2>9. /\ t \o c \in Seq(Octet) /\ Len(t \o c) = Len(t) + Len(c)
        /\ \A j \in 1..Len(t) : (t \o c)[j] = t[j]
        /\ \A j \in 1..Len(c) : (t \o c)[Len(t) + j] = c[j]
    BY <1>2, <2>3, Joined
  <2>10. 1 \in 1..Len(t)
    BY <2>3
  <2>11. (t \o c)[1] = r.type /\ Len(t \o c) = 1 + Len(c)
         /\ \A j \in 1..Len(c) : (t \o c)[1 + j] = c[j]
    BY <2>3, <2>9, <2>10
  <2>12. Consumed(r) \o x = (a \o t) \o c
    BY <2>1, <2>4, <2>7 DEF at
  <2> QED
    BY <2>8, <2>9, <2>11, <2>12
<1> DEFINE p == m.payload
<1>4. l = 1 + Len(p) /\ Len(p) \in Nat /\ r.type = m.type
      /\ \A j \in 1..Len(p) : j <= Len(c) => c[j] = p[j]
  <2> DEFINE tc == t \o c
  <2>1. tc \in Seq(Octet) /\ Len(tc) = 1 + Len(c) /\ Begins(BigEndian(l) \o tc, m)
        /\ tc[1] = r.type /\ \A j \in 1..Len(c) : tc[1 + j] = c[j]
    BY <1>3
  <2> HIDE DEF tc, c, t
  <2>2. /\ l = 1 + Len(p) /\ Len(p) \in Nat
        /\ Len(tc) >= 1 => tc[1] = m.type
        /\ \A j \in 1..Len(p) : 1 + j <= Len(tc) => tc[1 + j] = p[j]
    BY <1>1, <2>1, BehindLength
  <2>3. Len(c) \in Nat
    BY <1>1, <1>2
  <2>4. r.type = m.type
    BY <2>1, <2>2, <2>3
  <2>5. ASSUME NEW j \in 1..Len(p), j <= Len(c)
        PROVE  c[j] = p[j]
    <3>1. 1 + j <= Len(tc) /\ j \in 1..Len(c)
      BY <2>1, <2>2, <2>3, <2>5
    <3> QED
      BY <2>1, <2>2, <3>1
  <2> QED
    BY <2>2, <2>4, <2>5
<1> HIDE DEF c
<1>5. CASE Len(c) < r.need
  <2>1. Taken(r, x) = [r EXCEPT !.buf = c]
    BY <1>5 DEF Taken, c
  <2>2. [r EXCEPT !.buf = c]
          = [stage |-> "payload", need |-> l - 1, buf |-> c, len |-> l, type |-> r.type]
    <3> DEFINE b == r.buf  u == r.type  h == l - 1
    <3>1. r = [stage |-> "payload", need |-> h, buf |-> b, len |-> l, type |-> u]
      BY <1>1
    <3> HIDE DEF b, u, h, l
    <3>2. [r EXCEPT !.buf = c] = [stage |-> "payload", need |-> h, buf |-> c, len |-> l, type |-> u]
      BY <3>1
    <3> QED
      BY <3>2 DEF h, u
  <2>3. Len(c) < l - 1
    BY <1>1, <1>5
  <2>4. Taken(r, x) \in Partial /\ Consumed(Taken(r, x)) = (a \o t) \o c
    <3> DEFINE u == r.type
               q == [stage |-> "payload", need |-> l - 1, buf |-> c, len |-> l, type |-> u]
    <3>1. u \in Nat /\ c \in Seq(Octet) /\ Len(c) < l - 1 /\ l \in Lengths /\ Taken(r, x) = q
      BY <1>1, <1>2, <2>1, <2>2, <2>3
    <3> HIDE DEF u, l
    <3>2. q \in Partial /\ Consumed(q) = (BigEndian(l) \o <<u>>) \o c
      BY <3>1, Partials
    <3> HIDE DEF q
    <3>3. Taken(r, x) \in Partial /\ Consumed(Taken(r, x)) = (BigEndian(l) \o <<u>>) \o c
      BY <3>1, <3>2
    <3> QED
      BY <3>3 DEF u
  <2> QED
    BY <1>3, <2>4 DEF Proceeds
<1>6. CASE ~ Len(c) < r.need
  <2>1. Len(c) = Len(p)
    BY <1>1, <1>2, <1>4, <1>6
  <2>2. c = p
    <3>1. p \in Seq(Octet)
      BY MessageParts
    <3>2. \A j \in 1..Len(c) : c[j] = p[j]
      BY <1>4, <2>1
    <3> HIDE DEF p
    <3> QED
      BY <1>2, <2>1, <3>1, <3>2, SeqEqual
  <2>3. Taken(r, x) = Done(r.type, c)
    BY <1>6 DEF Taken, NextField, c
  <2>4. m = [type |-> r.type, payload |-> c]
    BY <1>4, <2>2, MessageParts
  <2>5. Taken(r, x).stage = "done" /\ Taken(r, x).msg = m /\ Taken(r, x) \in Receivers
    BY <2>3, <2>4 DEF Done, Receivers
  <2>6. Consumed(r) \o x = Bytes(m)
    BY <1>3, <1>4, <2>2 DEF Bytes
  <2> QED
    BY <2>5, <2>6 DEF Proceeds
<1> QED
  BY <1>5, <1>6

-----------------------------------------------------------------------------
(* The two directions of the connection. *)

\* What is under way from an end: taken, in the kernels, and still to be sent.
Flow(e) == (Consumed(rx[Peer(e)]) \o wire[e]) \o todo[e]

\* The bytes have their types, and an end that is closed sends and receives nothing.
StreamTypes ==
  /\ todo \in [Ends -> Seq(Octet)] /\ wire \in [Ends -> Seq(Octet)]
  /\ rx \in [Ends -> Receivers] /\ isOpen \subseteq Ends
  /\ sent \in [Ends -> Seq(Messages)] /\ got \in [Ends -> Seq(Messages)]
  /\ \A e \in Ends : Len(wire[e]) <= WireCap
  /\ \A e \in Ends : e \notin isOpen => todo[e] = <<>> /\ rx[e] = Idle

\* What an end has sent is what its peer has received, and then what is under way.  That is
\* all of it, or if the end was closed the first of it.
InOrder(e) ==
  /\ Len(got[e]) <= Len(sent[e])
  /\ \A k \in 1..Len(got[e]) : got[e][k] = sent[e][k]
  /\ Peer(e) \in isOpen => Carries(Flow(e), sent[e], Len(got[e]), e \in isOpen)

StreamInv == StreamTypes /\ \A e \in Ends : InOrder(e)

\* The other end of the other end is this one, and there is no third.
LEMMA Peers ==
  \A e \in Ends : /\ Peer(e) \in Ends /\ Peer(e) # e /\ Peer(Peer(e)) = e
                  /\ \A d \in Ends : d = e \/ d = Peer(e)
  BY DEF Peer

\* What an end's part of the invariant says of its types.
LEMMA EndTypes ==
  ASSUME StreamTypes
  PROVE  /\ \A e \in Ends :
              /\ todo[e] \in Seq(Octet) /\ wire[e] \in Seq(Octet) /\ Consumed(rx[e]) \in Seq(Octet)
              /\ rx[e] \in Receivers /\ sent[e] \in Seq(Messages) /\ got[e] \in Seq(Messages)
              /\ Len(wire[e]) \in Nat /\ Len(got[e]) \in Nat /\ Len(sent[e]) \in Nat
              /\ Peer(e) \in Ends
         /\ \A e \in Ends :
              /\ Consumed(rx[Peer(e)]) \in Seq(Octet)
              /\ Consumed(rx[Peer(e)]) \o wire[e] \in Seq(Octet) /\ Flow(e) \in Seq(Octet)
<1>1. \A e \in Ends :
        /\ todo[e] \in Seq(Octet) /\ wire[e] \in Seq(Octet)
        /\ rx[e] \in Receivers /\ sent[e] \in Seq(Messages) /\ got[e] \in Seq(Messages)
        /\ Peer(e) \in Ends
  BY Peers DEF StreamTypes
<1>2. \A e \in Ends : Consumed(rx[e]) \in Seq(Octet)
  BY <1>1, ConsumedType
<1>3. ASSUME NEW e \in Ends
      PROVE  Len(wire[e]) \in Nat /\ Len(got[e]) \in Nat /\ Len(sent[e]) \in Nat
  BY <1>1, LenProperties
<1>4. ASSUME NEW e \in Ends
      PROVE  /\ Consumed(rx[Peer(e)]) \in Seq(Octet)
             /\ Consumed(rx[Peer(e)]) \o wire[e] \in Seq(Octet) /\ Flow(e) \in Seq(Octet)
  <2> DEFINE c == Consumed(rx[Peer(e)])  w == wire[e]  t == todo[e]
  <2>1. c \in Seq(Octet) /\ w \in Seq(Octet) /\ t \in Seq(Octet) /\ Flow(e) = (c \o w) \o t
    BY <1>1, <1>2 DEF Flow
  <2> HIDE DEF c, w, t
  <2>2. c \o w \in Seq(Octet)
    BY <2>1, Joined
  <2>3. (c \o w) \o t \in Seq(Octet)
    BY <2>1, <2>2, Joined
  <2> QED
    BY <2>1, <2>2, <2>3 DEF c, w
<1> QED
  BY <1>1, <1>2, <1>3, <1>4

\* Nothing of the connection changes.
LEMMA StreamSame ==
  ASSUME StreamInv, UNCHANGED streamVars
  PROVE  StreamInv'
  BY DEF StreamInv, StreamTypes, InOrder, Flow, streamVars

\* A direction in which all that is under way stays so.
LEMMA FlowKept ==
  ASSUME NEW e \in Ends, InOrder(e), Flow(e)' = Flow(e), sent'[e] = sent[e], got'[e] = got[e],
         Peer(e) \in isOpen' => Peer(e) \in isOpen,
         (e \in isOpen') = (e \in isOpen)
  PROVE  InOrder(e)'
  BY DEF InOrder

\* A direction in which the last of it gets lost.
LEMMA FlowCut ==
  ASSUME StreamTypes, NEW e \in Ends, InOrder(e), sent'[e] = sent[e], got'[e] = got[e],
         Peer(e) \in isOpen' => Peer(e) \in isOpen, e \notin isOpen',
         Flow(e)' \in Seq(Octet), Len(Flow(e)') <= Len(Flow(e)),
         \A i \in 1..Len(Flow(e)') : Flow(e)'[i] = Flow(e)[i]
  PROVE  InOrder(e)'
<1>1. ASSUME Peer(e) \in isOpen'
      PROVE  Carries(Flow(e)', sent[e], Len(got[e]), FALSE)
  <2> DEFINE b == Flow(e)  c == Flow(e)'  s == sent[e]  n == Len(got[e])  whole == e \in isOpen
  <2>1. /\ s \in Seq(Messages) /\ n \in 0..Len(s) /\ b \in Seq(Octet) /\ Carries(b, s, n, whole)
    <3>1. s \in Seq(Messages) /\ b \in Seq(Octet) /\ n \in Nat /\ Len(s) \in Nat
      BY EndTypes
    <3>2. n <= Len(s) /\ Carries(b, s, n, whole)
      BY <1>1 DEF InOrder
    <3> QED
      BY <3>1, <3>2
  <2>2. c \in Seq(Octet) /\ Len(c) <= Len(b) /\ \A i \in 1..Len(c) : c[i] = b[i]
    OBVIOUS
  <2> HIDE DEF b, c, s, n, whole
  <2>3. Carries(c, s, n, FALSE)
    BY <2>1, <2>2, CarriesLess
  <2> QED
    BY <2>3 DEF c, s, n
<1>2. (e \in isOpen') = FALSE
  OBVIOUS
<1>3. Carries(Flow(e)', sent[e], Len(got[e]), FALSE)
        => Carries(Flow(e), sent[e], Len(got[e]), e \in isOpen)'
  BY <1>2
<1> QED
  BY <1>1, <1>3 DEF InOrder

\* Bytes that the kernel takes.
LEMMA SendSomeStep ==
  ASSUME StreamInv, NEW e \in Ends, SendSome(e)
  PROVE  StreamInv'
<1>1. StreamTypes /\ \A d \in Ends : InOrder(d)
  BY DEF StreamInv
<1>2. UNCHANGED <<rx, isOpen, sent, got>> /\ todo[e] # <<>>
  BY DEF SendSome
<1>3. PICK k \in 1..Len(todo[e]) :
        /\ Len(wire[e]) + k <= WireCap
        /\ wire' = [wire EXCEPT ![e] = @ \o SubSeq(todo[e], 1, k)]
        /\ todo' = [todo EXCEPT ![e] = SubSeq(@, k + 1, Len(@))]
  BY DEF SendSome
<1> DEFINE c == Consumed(rx[Peer(e)])  w == wire[e]  t == todo[e]
           a == SubSeq(t, 1, k)  b == SubSeq(t, k + 1, Len(t))
<1>4. c \in Seq(Octet) /\ w \in Seq(Octet) /\ t \in Seq(Octet) /\ Len(w) \in Nat
      /\ Len(w) + k <= WireCap /\ k \in Nat /\ k \in 0..Len(t)
  <2>1. c \in Seq(Octet) /\ w \in Seq(Octet) /\ t \in Seq(Octet) /\ Len(w) \in Nat
    BY <1>1, EndTypes
  <2>2. Len(w) + k <= WireCap
    BY <1>3
  <2>3. k \in Nat /\ k \in 0..Len(t)
    <3>1. Len(t) \in Nat
      BY <2>1, LenProperties
    <3> QED
      BY <3>1
  <2> QED
    BY <2>1, <2>2, <2>3
<1>5. wire' = [wire EXCEPT ![e] = w \o a] /\ todo' = [todo EXCEPT ![e] = b]
  BY <1>3
<1> HIDE DEF c, w, t
<1>6. a \in Seq(Octet) /\ b \in Seq(Octet) /\ Len(a) = k /\ a \o b = t
  BY <1>4, Split
<1> HIDE DEF a, b
<1>7. w \o a \in Seq(Octet) /\ Len(w \o a) <= WireCap
  BY <1>4, <1>6, Joined
<1>8. todo \in [Ends -> Seq(Octet)] /\ wire \in [Ends -> Seq(Octet)]
  BY <1>1 DEF StreamTypes
<1>9. /\ wire'[e] = w \o a /\ todo'[e] = b
      /\ wire'[Peer(e)] = wire[Peer(e)] /\ todo'[Peer(e)] = todo[Peer(e)]
  BY <1>5, <1>8, Peers
<1>10. /\ todo' \in [Ends -> Seq(Octet)] /\ wire' \in [Ends -> Seq(Octet)]
  BY <1>5, <1>6, <1>7, <1>8
<1>11. StreamTypes'
  <2>1. \A d \in Ends : Len(wire'[d]) <= WireCap
    BY <1>1, <1>7, <1>9, Peers DEF StreamTypes
  <2>2. e \in isOpen
    BY <1>1, <1>2 DEF StreamTypes
  <2>3. \A d \in Ends : d \notin isOpen' => todo'[d] = <<>> /\ rx'[d] = Idle
    BY <1>1, <1>2, <1>9, <2>2, Peers DEF StreamTypes
  <2> QED
    BY <1>1, <1>2, <1>10, <2>1, <2>3 DEF StreamTypes
<1>12. InOrder(e)'
  <2>1. Flow(e)' = (c \o (w \o a)) \o b /\ Flow(e) = (c \o w) \o t
    <3>1. Flow(e)' = (Consumed(rx'[Peer(e)]) \o wire'[e]) \o todo'[e]
      BY DEF Flow
    <3>2. Flow(e) = (c \o w) \o t
      BY DEF Flow, c, w, t
    <3>3. Consumed(rx'[Peer(e)]) = c
      BY <1>2 DEF c
    <3> QED
      BY <1>9, <3>1, <3>2, <3>3
  <2>2. (c \o (w \o a)) \o b = (c \o w) \o (a \o b)
    <3>1. c \in Seq(Octet) /\ w \in Seq(Octet) /\ a \in Seq(Octet) /\ b \in Seq(Octet)
      BY <1>4, <1>6
    <3> HIDE DEF c, w, a, b
    <3>2. (c \o w) \o a = c \o (w \o a)
      BY <3>1, Associates
    <3> DEFINE cw == c \o w
    <3>3. cw \in Seq(Octet)
      BY <3>1, Joined
    <3> HIDE DEF cw
    <3>4. (cw \o a) \o b = cw \o (a \o b)
      BY <3>1, <3>3, Associates
    <3> QED
      BY <3>2, <3>4 DEF cw
  <2>3. Flow(e)' = Flow(e)
    BY <1>6, <2>1, <2>2
  <2> QED
    BY <1>1, <1>2, <2>3, FlowKept
<1>13. InOrder(Peer(e))'
  <2>1. Flow(Peer(e))' = Flow(Peer(e))
    BY <1>2, <1>9, Peers DEF Flow
  <2> QED
    BY <1>1, <1>2, <2>1, Peers, FlowKept
<1>14. \A d \in Ends : InOrder(d)'
  BY <1>12, <1>13, Peers
<1> QED
  BY <1>11, <1>14 DEF StreamInv

\* Bytes that are received.  A message that is whole is the next one that was sent.
LEMMA RecvSomeStep ==
  ASSUME StreamInv, NEW e \in Ends, e \in isOpen, RecvSome(e)
  PROVE  /\ StreamInv'
         /\ \/ got' = got
            \/ /\ Len(got[Peer(e)]) < Len(sent[Peer(e)])
               /\ got' = [got EXCEPT ![Peer(e)] =
                            Append(@, sent[Peer(e)][Len(got[Peer(e)]) + 1])]
<1> DEFINE p == Peer(e)  r == rx[e]  c == Consumed(r)  w == wire[p]  t == todo[p]
           s == sent[p]  n == Len(got[p])
<1>1. StreamTypes /\ \A d \in Ends : InOrder(d)
  BY DEF StreamInv
<1>2. p \in Ends /\ p # e /\ Peer(p) = e
  BY Peers
<1>3. /\ r \in Receivers /\ c \in Seq(Octet) /\ w \in Seq(Octet) /\ t \in Seq(Octet)
      /\ s \in Seq(Messages) /\ got[p] \in Seq(Messages) /\ n \in Nat /\ Len(s) \in Nat
  BY <1>1, <1>2, EndTypes
<1>4. r \in Partial /\ UNCHANGED <<todo, isOpen, sent>>
  BY <1>3, Stages DEF RecvSome, InRecv, InProgress
<1>5. r.buf \in Seq(Octet) /\ r.need \in Nat /\ Len(r.buf) \in Nat
      /\ r.stage \in {"length", "type", "payload"}
  BY <1>4, Stages
<1>6. PICK k \in 1..(r.need - Len(r.buf)) :
        /\ k <= Len(w)
        /\ LET buf == r.buf \o SubSeq(w, 1, k)
               r2 == IF Len(buf) < r.need THEN [r EXCEPT !.buf = buf] ELSE NextField(r, buf)
           IN  /\ rx' = [rx EXCEPT ![e] = r2]
               /\ got' = IF r2.stage = "done" THEN [got EXCEPT ![p] = Append(@, r2.msg)]
                         ELSE got
        /\ wire' = [wire EXCEPT ![p] = SubSeq(@, k + 1, Len(@))]
  BY DEF RecvSome
<1> DEFINE x == SubSeq(w, 1, k)  y == SubSeq(w, k + 1, Len(w))  r2 == Taken(r, x)
<1>7. /\ rx' = [rx EXCEPT ![e] = r2]
      /\ got' = IF r2.stage = "done" THEN [got EXCEPT ![p] = Append(@, r2.msg)] ELSE got
      /\ wire' = [wire EXCEPT ![p] = y]
  BY <1>6 DEF Taken
<1>8. k \in Nat /\ k >= 1 /\ k <= r.need - Len(r.buf) /\ Len(w) \in Nat /\ k \in 0..Len(w)
  BY <1>3, <1>5, <1>6, LenProperties
<1>9. Carries((c \o w) \o t, s, n, p \in isOpen) /\ n <= Len(s)
      /\ \A i \in 1..n : got[p][i] = s[i]
  BY <1>1, <1>2 DEF InOrder, Flow
<1> DEFINE whole == p \in isOpen
<1>10. Carries((c \o w) \o t, s, n, whole) /\ whole \in BOOLEAN
  BY <1>9
<1> HIDE DEF r, c, w, t, s, n, whole, p
<1>11. /\ x \in Seq(Octet) /\ y \in Seq(Octet) /\ Len(x) = k /\ Len(y) = Len(w) - k
       /\ x \o y = w
  BY <1>3, <1>8, Split
<1> HIDE DEF x, y, r2
<1> DEFINE cx == c \o x  yt == y \o t  m == s[n + 1]
<1>12. cx \in Seq(Octet) /\ yt \in Seq(Octet) /\ Len(cx) = Len(c) + k /\ Len(c) \in Nat
  <2>1. c \o x \in Seq(Octet) /\ Len(c \o x) = Len(c) + Len(x) /\ Len(c) \in Nat
    BY <1>3, <1>11, Joined
  <2>2. y \o t \in Seq(Octet)
    BY <1>3, <1>11, Joined
  <2>3. Len(c \o x) = Len(c) + k
    BY <1>11, <2>1
  <2> QED
    BY <2>1, <2>2, <2>3
<1>13. (c \o w) \o t = cx \o yt /\ (c \o w) \o t = (cx \o y) \o t
  <2>1. cx \o y = c \o (x \o y)
    <3>1. (c \o x) \o y = c \o (x \o y)
      <4>1. c \in Seq(Octet) /\ x \in Seq(Octet) /\ y \in Seq(Octet)
        BY <1>3, <1>11
      <4> QED
        BY <4>1, Associates
    <3> QED
      BY <3>1
  <2>2. (cx \o y) \o t = cx \o (y \o t)
    <3>1. cx \in Seq(Octet) /\ y \in Seq(Octet) /\ t \in Seq(Octet)
      BY <1>3, <1>11, <1>12
    <3> HIDE DEF cx
    <3> QED
      BY <3>1, Associates
  <2> QED
    BY <1>11, <2>1, <2>2
<1> HIDE DEF cx, yt
<1>14. Carries(cx \o yt, s, n, whole)
  BY <1>10, <1>13
<1>15. /\ cx \o yt \in Seq(Octet) /\ Len(cx \o yt) = Len(cx) + Len(yt) /\ Len(yt) \in Nat
       /\ \A i \in 1..Len(cx) : (cx \o yt)[i] = cx[i]
       /\ Len(cx \o yt) >= 1
  <2>1. /\ cx \o yt \in Seq(Octet) /\ Len(cx \o yt) = Len(cx) + Len(yt) /\ Len(yt) \in Nat
        /\ \A i \in 1..Len(cx) : (cx \o yt)[i] = cx[i]
    BY <1>12, Joined
  <2>2. Len(cx \o yt) >= 1
    <3> DEFINE u == Len(cx \o yt)
    <3>1. u = Len(c) + k + Len(yt)
      BY <1>12, <2>1
    <3> HIDE DEF u
    <3>2. u >= 1
      BY <1>8, <1>12, <2>1, <3>1
    <3> QED
      BY <3>2 DEF u
  <2> QED
    BY <2>1, <2>2
<1>16. /\ n < Len(s) /\ n + 1 \in 1..Len(s) /\ m \in Messages
       /\ \A j \in 1..Size(m) : j <= Len(cx \o yt) => (cx \o yt)[j] = Bytes(m)[j]
  <2> DEFINE z == cx \o yt
  <2>1. z \in Seq(Octet) /\ Len(z) >= 1 /\ Carries(z, s, n, whole) /\ n \in 0..Len(s)
    BY <1>3, <1>9, <1>14, <1>15
  <2>2. z # <<>>
    BY <2>1, EmptySeq
  <2> HIDE DEF z
  <2>3. /\ n < Len(s) /\ n + 1 \in 1..Len(s) /\ s[n + 1] \in Messages
        /\ \A j \in 1..Size(s[n + 1]) : j <= Len(z) => z[j] = Bytes(s[n + 1])[j]
    BY <1>3, <1>10, <2>1, <2>2, CarriesFirst
  <2> QED
    BY <2>3 DEF z
<1> HIDE DEF m
<1>17. Begins(cx, m)
  <2>1. ASSUME NEW j \in 1..Size(m), j <= Len(cx)
        PROVE  cx[j] = Bytes(m)[j]
    <3>1. Size(m) \in Nat
      BY <1>16, BytesOf
    <3>2. j \in 1..Len(cx) /\ j <= Len(cx \o yt)
      BY <1>12, <1>15, <2>1, <3>1
    <3> QED
      BY <1>15, <1>16, <3>2
  <2> QED
    BY <2>1 DEF Begins
<1>18. Proceeds(r, x, m)
  <2>1. Begins(Consumed(r) \o x, m)
    BY <1>17 DEF cx, c
  <2>2. Len(x) <= r.need - Len(r.buf)
    BY <1>8, <1>11
  <2>3. x # <<>>
    <3>1. Len(<<>>) = 0
      BY EmptySeq
    <3> QED
      BY <1>8, <1>11, <3>1
  <2>4. CASE r.stage = "length"
    BY <1>4, <1>11, <1>16, <2>1, <2>2, <2>4, TakeLength
  <2>5. CASE r.stage = "type"
    BY <1>4, <1>11, <1>16, <2>1, <2>2, <2>3, <2>5, TakeType
  <2>6. CASE r.stage = "payload"
    BY <1>4, <1>11, <1>16, <2>1, <2>2, <2>6, TakePayload
  <2> QED
    BY <1>5, <2>4, <2>5, <2>6
<1>19. /\ rx' \in [Ends -> Receivers] /\ rx'[e] = r2 /\ rx'[p] = rx[p] /\ r2 \in Receivers
  <2>1. r2 \in Receivers
    BY <1>18 DEF Proceeds, r2, Receivers
  <2>2. rx \in [Ends -> Receivers]
    BY <1>1 DEF StreamTypes
  <2> QED
    BY <1>2, <1>7, <2>1, <2>2
<1>20. /\ wire' \in [Ends -> Seq(Octet)] /\ wire'[p] = y /\ wire'[e] = wire[e]
       /\ Len(y) <= WireCap
  <2>1. wire \in [Ends -> Seq(Octet)] /\ Len(w) <= WireCap /\ WireCap \in Nat
    BY <1>1, <1>2, StreamAssumption DEF StreamTypes, w
  <2>2. wire' \in [Ends -> Seq(Octet)] /\ wire'[p] = y /\ wire'[e] = wire[e]
    BY <1>2, <1>7, <1>11, <2>1
  <2>3. Len(y) <= WireCap
    BY <1>8, <1>11, <2>1
  <2> QED
    BY <2>2, <2>3
<1>21. sent' = sent /\ todo' = todo /\ isOpen' = isOpen
  BY <1>4
<1>22. Flow(p)' = (Consumed(r2) \o y) \o t
  BY <1>2, <1>19, <1>20, <1>21 DEF Flow, t
<1>23. /\ got' \in [Ends -> Seq(Messages)] /\ got'[e] = got[e] /\ InOrder(p)'
       /\ \/ got' = got
          \/ n < Len(s) /\ got' = [got EXCEPT ![p] = Append(@, m)]
  <2>1. got \in [Ends -> Seq(Messages)]
    BY <1>1 DEF StreamTypes
  <2>2. CASE r2 \in Partial /\ Consumed(r2) = cx
    <3>1. r2.stage # "done"
      BY <2>2, Stages
    <3>2. got' = got
      BY <1>7, <3>1
    <3>3. Flow(p)' = Flow(p)
      <4>1. Flow(p) = (c \o w) \o t
        BY <1>2 DEF Flow, c, r, w, t
      <4> QED
        BY <1>13, <1>22, <2>2, <4>1
    <3>4. InOrder(p)'
      BY <1>1, <1>2, <1>21, <3>2, <3>3, FlowKept
    <3> QED
      BY <2>1, <3>2, <3>4
  <2>3. CASE r2.stage = "done" /\ r2.msg = m /\ cx = Bytes(m)
    <3>1. got' = [got EXCEPT ![p] = Append(@, m)]
      BY <1>7, <2>3
    <3> DEFINE g == got[p]  h == Append(g, m)
    <3>2. g \in Seq(Messages) /\ Len(g) = n
      BY <1>3 DEF n
    <3> HIDE DEF g
    <3>3. h \in Seq(Messages) /\ Len(h) = n + 1 /\ h[n + 1] = m
          /\ \A i \in 1..n : h[i] = g[i]
      BY <1>16, <3>2, AppendElements
    <3> HIDE DEF h
    <3>4. got' = [got EXCEPT ![p] = h]
      BY <3>1 DEF g, h
    <3>5. got' \in [Ends -> Seq(Messages)] /\ got'[e] = got[e] /\ got'[p] = h
      BY <1>2, <2>1, <3>3, <3>4
    <3>6. \A i \in 1..(n + 1) : h[i] = s[i]
      <4> TAKE i \in 1..(n + 1)
      <4>1. i \in 1..n \/ i = n + 1
        BY <1>3
      <4>2. \A j \in 1..n : g[j] = s[j]
        BY <1>9 DEF g
      <4> QED
        BY <3>3, <4>1, <4>2 DEF m
    <3>7. Consumed(r2) = <<>>
      <4>1. ~ InProgress(r2)
        BY <2>3 DEF InProgress
      <4> QED
        BY <1>19, <4>1, Stages
    <3>8. Flow(p)' = yt
      <4>1. <<>> \o y = y
        BY <1>11, ConcatEmptySeq
      <4> QED
        BY <1>22, <3>7, <4>1 DEF yt
    <3>9. Carries(yt, s, n + 1, whole)
      <4>1. Carries(Bytes(s[n + 1]) \o yt, s, n, whole)
        BY <1>14, <2>3 DEF m
      <4>2. n \in 0..Len(s) /\ n < Len(s)
        BY <1>3, <1>16
      <4> QED
        BY <1>3, <1>10, <1>12, <4>1, <4>2, CarriesRest
    <3>10. InOrder(p)'
      <4>1. /\ Len(got'[p]) <= Len(sent'[p])
            /\ \A i \in 1..Len(got'[p]) : got'[p][i] = sent'[p][i]
        <5>1. n + 1 <= Len(s)
          BY <1>3, <1>16
        <5> QED
          BY <1>21, <3>3, <3>5, <3>6, <5>1 DEF s
      <4>2. Carries(Flow(p)', sent'[p], Len(got'[p]), p \in isOpen')
        BY <1>21, <3>3, <3>5, <3>8, <3>9 DEF s, whole
      <4> QED
        BY <4>1, <4>2 DEF InOrder
    <3> QED
      BY <1>16, <3>1, <3>5, <3>10
  <2> QED
    BY <1>18, <2>2, <2>3 DEF Proceeds, r2, cx, c
<1>24. StreamTypes'
  <2>1. \A d \in Ends : Len(wire'[d]) <= WireCap
    BY <1>1, <1>2, <1>20, Peers DEF StreamTypes, p
  <2>2. \A d \in Ends : d \notin isOpen' => todo'[d] = <<>> /\ rx'[d] = Idle
    BY <1>1, <1>2, <1>19, <1>21, Peers DEF StreamTypes, p
  <2> QED
    BY <1>1, <1>19, <1>20, <1>21, <1>23, <2>1, <2>2 DEF StreamTypes
<1>25. InOrder(e)'
  <2>1. Flow(e)' = Flow(e)
    BY <1>19, <1>20, <1>21 DEF Flow, p
  <2> QED
    BY <1>1, <1>21, <1>23, <2>1, FlowKept
<1>26. \A d \in Ends : InOrder(d)'
  BY <1>23, <1>25, Peers DEF p
<1> QED
  BY <1>23, <1>24, <1>26 DEF StreamInv, p, s, n, m

\* A reset.
LEMMA ResetWire ==
  ASSUME StreamTypes, NEW e \in Ends, Reset(e)
  PROVE  /\ wire' \in [Ends -> Seq(Octet)] /\ wire'[Peer(e)] = <<>>
         /\ Len(wire'[e]) <= Len(wire[e]) /\ \A i \in 1..Len(wire'[e]) : wire'[e][i] = wire[e][i]
         /\ \A d \in Ends : Len(wire'[d]) <= WireCap
<1> DEFINE w == wire[e]
<1>1. /\ wire \in [Ends -> Seq(Octet)] /\ w \in Seq(Octet) /\ Len(w) \in Nat
      /\ Len(w) <= WireCap /\ WireCap \in Nat
  BY EndTypes, StreamAssumption DEF StreamTypes
<1>2. PICK k \in 0..Len(w) : wire' = [wire EXCEPT ![Peer(e)] = <<>>, ![e] = SubSeq(w, 1, k)]
  <2>1. \E k \in 0..Len(w) : wire' = [wire EXCEPT ![Peer(e)] = <<>>, ![e] = SubSeq(@, 1, k)]
    BY DEF Reset
  <2>2. PICK k \in 0..Len(w) : wire' = [wire EXCEPT ![Peer(e)] = <<>>, ![e] = SubSeq(@, 1, k)]
    BY <2>1
  <2> QED
    BY <1>1, <2>2, Peers
<1> DEFINE u == SubSeq(w, 1, k)
<1> HIDE DEF w
<1>3. /\ u \in Seq(Octet) /\ Len(u) = k /\ k \in Nat /\ k <= Len(w)
      /\ \A i \in 1..k : u[i] = w[i]
  <2>1. u \in Seq(Octet) /\ Len(u) = k /\ \A i \in 1..k : u[i] = w[i]
    BY <1>1, Split
  <2> QED
    BY <1>1, <2>1
<1> HIDE DEF u
<1>4. wire' = [wire EXCEPT ![Peer(e)] = <<>>, ![e] = u]
  BY <1>2 DEF u
<1>5. <<>> \in Seq(Octet) /\ Len(<<>>) = 0
  BY EmptySeq
<1>6. wire' \in [Ends -> Seq(Octet)] /\ wire'[Peer(e)] = <<>> /\ wire'[e] = u
  BY <1>1, <1>3, <1>4, <1>5, Peers
<1>7. \A d \in Ends : Len(wire'[d]) <= WireCap
  BY <1>1, <1>3, <1>5, <1>6, Peers
<1> QED
  BY <1>3, <1>6, <1>7 DEF w

\* A direction whose sender is closed, or gets closed.
LEMMA FlowLost ==
  ASSUME StreamTypes, NEW e \in Ends, InOrder(e), sent'[e] = sent[e], got'[e] = got[e],
         Peer(e) \in isOpen' => Peer(e) \in isOpen, e \notin isOpen',
         rx'[Peer(e)] = rx[Peer(e)], todo'[e] = <<>>, wire'[e] \in Seq(Octet),
         Len(wire'[e]) <= Len(wire[e]), \A i \in 1..Len(wire'[e]) : wire'[e][i] = wire[e][i]
  PROVE  InOrder(e)'
<1> DEFINE c == Consumed(rx[Peer(e)])  w == wire[e]  t == todo[e]  u == wire'[e]
<1>1. /\ c \in Seq(Octet) /\ w \in Seq(Octet) /\ t \in Seq(Octet) /\ u \in Seq(Octet)
      /\ Len(u) <= Len(w) /\ \A i \in 1..Len(u) : u[i] = w[i]
  BY EndTypes
<1>2. Flow(e) = (c \o w) \o t
  BY DEF Flow
<1>3. Flow(e)' = (c \o u) \o <<>>
  BY DEF Flow
<1> HIDE DEF c, w, t, u
<1>4. /\ (c \o u) \o <<>> \in Seq(Octet)
      /\ Len((c \o u) \o <<>>) <= Len((c \o w) \o t)
      /\ \A i \in 1..Len((c \o u) \o <<>>) : ((c \o u) \o <<>>)[i] = ((c \o w) \o t)[i]
  <2> DEFINE cu == c \o u  cw == c \o w  f == cw \o t
  <2>1. /\ cu \in Seq(Octet) /\ Len(cu) = Len(c) + Len(u) /\ Len(c) \in Nat /\ Len(u) \in Nat
        /\ \A i \in 1..Len(c) : cu[i] = c[i]
        /\ \A i \in 1..Len(u) : cu[Len(c) + i] = u[i]
    BY <1>1, Joined
  <2>2. /\ cw \in Seq(Octet) /\ Len(cw) = Len(c) + Len(w) /\ Len(w) \in Nat
        /\ \A i \in 1..Len(c) : cw[i] = c[i]
        /\ \A i \in 1..Len(w) : cw[Len(c) + i] = w[i]
    BY <1>1, Joined
  <2> HIDE DEF cu, cw
  <2>3. /\ f \in Seq(Octet) /\ Len(f) = Len(cw) + Len(t) /\ Len(t) \in Nat
        /\ \A i \in 1..Len(cw) : f[i] = cw[i]
    BY <1>1, <2>2, Joined
  <2>4. cu \o <<>> = cu
    BY <2>1, ConcatEmptySeq
  <2> HIDE DEF f
  <2>5. Len(cu) <= Len(f)
    BY <1>1, <2>1, <2>2, <2>3
  <2>6. ASSUME NEW i \in 1..Len(cu)
        PROVE  cu[i] = f[i]
    <3>1. i \in 1..Len(cw)
      BY <1>1, <2>1, <2>2
    <3>2. CASE i \in 1..Len(c)
      BY <2>1, <2>2, <2>3, <3>1, <3>2
    <3>3. CASE i \notin 1..Len(c)
      <4> DEFINE j == i - Len(c)
      <4>1. j \in 1..Len(u) /\ j \in 1..Len(w) /\ i = Len(c) + j
        BY <1>1, <2>1, <2>2, <3>3
      <4> HIDE DEF j
      <4>2. cu[Len(c) + j] = u[j] /\ cw[Len(c) + j] = w[j] /\ u[j] = w[j]
        BY <1>1, <2>1, <2>2, <4>1
      <4> QED
        BY <2>3, <3>1, <4>1, <4>2
    <3> QED
      BY <3>2, <3>3
  <2> QED
    BY <2>1, <2>4, <2>5, <2>6 DEF cu, cw, f
<1>5. /\ Flow(e)' \in Seq(Octet) /\ Len(Flow(e)') <= Len(Flow(e))
      /\ \A i \in 1..Len(Flow(e)') : Flow(e)'[i] = Flow(e)[i]
  BY <1>2, <1>3, <1>4
<1> QED
  BY <1>5, FlowCut

\* A direction whose receiver is gone.
LEMMA FlowOver ==
  ASSUME NEW e \in Ends, InOrder(e), sent'[e] = sent[e], got'[e] = got[e], Peer(e) \notin isOpen'
  PROVE  InOrder(e)'
  BY DEF InOrder

\* send() to an end that is closed.
LEMMA SendToClosedStep ==
  ASSUME StreamInv, NEW e \in Ends, SendToClosed(e)
  PROVE  StreamInv'
<1> DEFINE p == Peer(e)
<1>1. StreamTypes /\ \A d \in Ends : InOrder(d)
  BY DEF StreamInv
<1>2. p \in Ends /\ p # e /\ Peer(p) = e
  BY Peers
<1>3. /\ p \notin isOpen /\ Reset(p) /\ todo' = [todo EXCEPT ![e] = <<>>]
      /\ UNCHANGED <<rx, isOpen, sent, got>>
  BY DEF SendToClosed
<1>4. todo \in [Ends -> Seq(Octet)] /\ todo[p] = <<>> /\ <<>> \in Seq(Octet)
  BY <1>1, <1>2, <1>3, EmptySeq DEF StreamTypes
<1>5. todo' \in [Ends -> Seq(Octet)] /\ todo'[e] = <<>> /\ todo'[p] = <<>>
  BY <1>2, <1>3, <1>4
<1>6. /\ wire' \in [Ends -> Seq(Octet)]
      /\ Len(wire'[p]) <= Len(wire[p]) /\ \A i \in 1..Len(wire'[p]) : wire'[p][i] = wire[p][i]
      /\ \A d \in Ends : Len(wire'[d]) <= WireCap
  BY <1>1, <1>2, <1>3, ResetWire
<1>7. StreamTypes'
  <2>1. \A d \in Ends : todo'[d] = <<>>
    BY <1>5, Peers
  <2> QED
    BY <1>1, <1>3, <1>5, <1>6, <2>1 DEF StreamTypes
<1>8. InOrder(e)'
  BY <1>1, <1>3, FlowOver
<1>9. InOrder(p)'
  <2>1. wire'[p] \in Seq(Octet)
    BY <1>2, <1>6
  <2> HIDE DEF p
  <2> QED
    BY <1>1, <1>2, <1>3, <1>5, <1>6, <2>1, FlowLost
<1>10. \A d \in Ends : InOrder(d)'
  BY <1>8, <1>9, Peers
<1> QED
  BY <1>7, <1>10 DEF StreamInv

\* An end is closed.
LEMMA CloseStep ==
  ASSUME StreamInv, NEW e \in Ends, Close(e)
  PROVE  StreamInv'
<1> DEFINE p == Peer(e)
<1>1. StreamTypes /\ \A d \in Ends : InOrder(d)
  BY DEF StreamInv
<1>2. p \in Ends /\ p # e /\ Peer(p) = e
  BY Peers
<1>3. /\ isOpen' = isOpen \ {e} /\ todo' = [todo EXCEPT ![e] = <<>>]
      /\ rx' = [rx EXCEPT ![e] = Idle] /\ sent' = sent /\ got' = got
      /\ wire' = wire \/ Reset(e)
  BY DEF Close
<1>4. todo \in [Ends -> Seq(Octet)] /\ rx \in [Ends -> Receivers] /\ <<>> \in Seq(Octet)
      /\ Idle \in Receivers
  BY <1>1, EmptySeq, Stages DEF StreamTypes
<1>5. /\ todo' \in [Ends -> Seq(Octet)] /\ todo'[e] = <<>> /\ todo'[p] = todo[p]
      /\ rx' \in [Ends -> Receivers] /\ rx'[e] = Idle /\ rx'[p] = rx[p]
  BY <1>2, <1>3, <1>4
<1>6. /\ wire' \in [Ends -> Seq(Octet)]
      /\ Len(wire'[e]) <= Len(wire[e]) /\ \A i \in 1..Len(wire'[e]) : wire'[e][i] = wire[e][i]
      /\ \A d \in Ends : Len(wire'[d]) <= WireCap
  <2>1. CASE wire' = wire
    <3>1. Len(wire[e]) \in Nat
      BY <1>1, EndTypes
    <3> QED
      BY <1>1, <2>1, <3>1 DEF StreamTypes
  <2>2. CASE Reset(e)
    BY <1>1, <2>2, ResetWire
  <2> QED
    BY <1>3, <2>1, <2>2
<1>7. StreamTypes'
  <2>1. \A d \in Ends : d \notin isOpen' => todo'[d] = <<>> /\ rx'[d] = Idle
    <3>1. p \notin isOpen' => p \notin isOpen
      BY <1>2, <1>3
    <3>2. p \notin isOpen => todo[p] = <<>> /\ rx[p] = Idle
      BY <1>1, <1>2 DEF StreamTypes
    <3> QED
      BY <1>5, <3>1, <3>2, Peers
  <2>2. isOpen' \subseteq Ends /\ sent' \in [Ends -> Seq(Messages)] /\ got' \in [Ends -> Seq(Messages)]
    BY <1>1, <1>3 DEF StreamTypes
  <2> QED
    BY <1>5, <1>6, <2>1, <2>2 DEF StreamTypes
<1>8. InOrder(e)'
  <2>1. wire'[e] \in Seq(Octet) /\ e \notin isOpen' /\ (p \in isOpen' => p \in isOpen)
    BY <1>3, <1>6
  <2> QED
    BY <1>1, <1>2, <1>3, <1>5, <1>6, <2>1, FlowLost
<1>9. InOrder(p)'
  <2>1. Peer(p) \notin isOpen'
    BY <1>2, <1>3
  <2> HIDE DEF p
  <2> QED
    BY <1>1, <1>2, <1>3, <2>1, FlowOver
<1>10. \A d \in Ends : InOrder(d)'
  BY <1>8, <1>9, Peers
<1> QED
  BY <1>7, <1>10 DEF StreamInv

\* The end of the stream.
LEMMA RecvEofStep ==
  ASSUME StreamInv, NEW e \in Ends, e \in isOpen, RecvEof(e)
  PROVE  StreamInv'
<1> DEFINE p == Peer(e)
<1>1. StreamTypes /\ \A d \in Ends : InOrder(d)
  BY DEF StreamInv
<1>2. p \in Ends /\ p # e /\ Peer(p) = e
  BY Peers
<1>3. /\ wire[p] = <<>> /\ p \notin isOpen /\ rx' = [rx EXCEPT ![e] = Eof]
      /\ UNCHANGED <<todo, wire, isOpen, sent, got>>
  BY DEF RecvEof, Eof
<1>4. rx \in [Ends -> Receivers] /\ Eof \in Receivers /\ Consumed(Eof) = <<>>
      /\ todo[p] = <<>>
  BY <1>1, <1>2, <1>3, Stages DEF StreamTypes
<1>5. rx' \in [Ends -> Receivers] /\ rx'[e] = Eof /\ rx'[p] = rx[p]
  BY <1>2, <1>3, <1>4
<1>6. StreamTypes'
  <2>1. \A d \in Ends : d \notin isOpen' => todo'[d] = <<>> /\ rx'[d] = Idle
    BY <1>1, <1>2, <1>3, <1>5, Peers DEF StreamTypes
  <2> QED
    BY <1>1, <1>3, <1>5, <2>1 DEF StreamTypes
<1>7. InOrder(e)'
  <2>1. Flow(e)' = Flow(e)
    <3>1. Flow(e)' = (Consumed(rx'[p]) \o wire'[e]) \o todo'[e]
      BY DEF Flow
    <3> QED
      BY <1>3, <1>5, <3>1 DEF Flow
  <2> QED
    BY <1>1, <1>3, <2>1, FlowKept
<1>8. InOrder(p)'
  <2>1. Flow(p)' = (Consumed(rx'[e]) \o wire'[p]) \o todo'[p]
    BY <1>2 DEF Flow
  <2>2. (<<>> \o <<>>) \o <<>> = <<>> /\ Len(<<>>) = 0 /\ <<>> \in Seq(Octet)
    BY EmptySeq, ConcatEmptySeq
  <2>3. Flow(p)' = <<>>
    BY <1>3, <1>4, <1>5, <2>1, <2>2
  <2>4. Flow(p) \in Seq(Octet) /\ Len(Flow(p)) \in Nat
    BY <1>1, <1>2, EndTypes, LenProperties
  <2>5. /\ Flow(p)' \in Seq(Octet) /\ Len(Flow(p)') <= Len(Flow(p))
        /\ \A i \in 1..Len(Flow(p)') : Flow(p)'[i] = Flow(p)[i]
    BY <2>2, <2>3, <2>4
  <2>6. p \notin isOpen' /\ sent'[p] = sent[p] /\ got'[p] = got[p]
        /\ (Peer(p) \in isOpen' => Peer(p) \in isOpen)
    BY <1>3
  <2> HIDE DEF p
  <2> QED
    BY <1>1, <1>2, <2>5, <2>6, FlowCut
<1>9. \A d \in Ends : InOrder(d)'
  BY <1>7, <1>8, Peers
<1> QED
  BY <1>6, <1>9 DEF StreamInv

\* sendMessage() starts.
LEMMA StartSendStep ==
  ASSUME StreamInv, NEW e \in Ends, e \in isOpen, todo[e] = <<>>, NEW m \in Messages,
         StartSend(e, m), UNCHANGED <<wire, rx, isOpen, got>>
  PROVE  StreamInv'
<1> DEFINE p == Peer(e)  s == sent[e]  d == Bytes(m)  h == Append(s, m)
<1>1. StreamTypes /\ \A x \in Ends : InOrder(x)
  BY DEF StreamInv
<1>2. p \in Ends /\ p # e /\ Peer(p) = e
  BY Peers
<1>3. /\ d \in Seq(Octet) /\ s \in Seq(Messages) /\ Len(got[e]) \in Nat /\ Len(s) \in Nat
  BY <1>1, BytesOf, EndTypes
<1> HIDE DEF d
<1>4. todo' = [todo EXCEPT ![e] = d] /\ sent' = [sent EXCEPT ![e] = h]
  BY DEF StartSend, d
<1>5. todo \in [Ends -> Seq(Octet)] /\ sent \in [Ends -> Seq(Messages)]
  BY <1>1 DEF StreamTypes
<1> HIDE DEF s
<1>6. h \in Seq(Messages) /\ Len(h) = Len(s) + 1 /\ \A k \in 1..Len(s) : h[k] = s[k]
  BY <1>3, AppendElements
<1> HIDE DEF h
<1>7. /\ todo' \in [Ends -> Seq(Octet)] /\ todo'[e] = d /\ todo'[p] = todo[p]
      /\ sent' \in [Ends -> Seq(Messages)] /\ sent'[e] = h /\ sent'[p] = sent[p]
  BY <1>2, <1>3, <1>4, <1>5, <1>6
<1>8. StreamTypes'
  <2>1. \A x \in Ends : x \notin isOpen' => todo'[x] = <<>> /\ rx'[x] = Idle
    <3>1. \A x \in Ends : x \notin isOpen' => x = p
      BY Peers
    <3> QED
      BY <1>1, <1>2, <1>7, <3>1 DEF StreamTypes
  <2> QED
    BY <1>1, <1>7, <2>1 DEF StreamTypes
<1>9. InOrder(e)'
  <2> DEFINE c == Consumed(rx[p])  w == wire[e]  b == c \o w  n == Len(got[e])
  <2>1. b \in Seq(Octet) /\ Flow(e) = b \o <<>>
    BY <1>1, EndTypes DEF Flow
  <2>2. Flow(e)' = b \o d
    BY <1>7 DEF Flow
  <2>3. /\ Len(got[e]) <= Len(s) /\ \A k \in 1..Len(got[e]) : got[e][k] = s[k]
    BY <1>1 DEF InOrder, s
  <2>4. /\ Len(got'[e]) <= Len(sent'[e])
        /\ \A k \in 1..Len(got'[e]) : got'[e][k] = sent'[e][k]
    <3>1. n \in Nat /\ got'[e] = got[e] /\ \A k \in 1..n : k \in 1..Len(s)
      BY <1>3, <2>3
    <3>2. \A k \in 1..n : got[e][k] = h[k]
      BY <1>6, <2>3, <3>1
    <3>3. n <= Len(h)
      BY <1>3, <1>6, <2>3, <3>1
    <3> QED
      BY <1>7, <3>1, <3>2, <3>3
  <2>5. ASSUME p \in isOpen'
        PROVE  Carries(Flow(e)', sent'[e], Len(got'[e]), e \in isOpen')
    <3>1. Carries(b, s, n, TRUE)
      <4>1. Carries(Flow(e), s, n, e \in isOpen)
        BY <1>1, <2>5 DEF InOrder, s
      <4>2. (e \in isOpen) = TRUE
        OBVIOUS
      <4> HIDE DEF b
      <4>3. Flow(e) = b
        BY <2>1, ConcatEmptySeq
      <4> QED
        BY <4>1, <4>2, <4>3
    <3>2. n \in 0..Len(s)
      BY <1>3, <2>3
    <3> HIDE DEF b, n
    <3>3. Carries(b \o Bytes(m), Append(s, m), n, TRUE)
      BY <1>3, <2>1, <3>1, <3>2, CarriesMore
    <3>4. (e \in isOpen') = TRUE
      OBVIOUS
    <3> QED
      BY <1>7, <2>2, <3>3, <3>4 DEF d, h, n
  <2> QED
    BY <2>4, <2>5 DEF InOrder
<1>10. InOrder(p)'
  <2>1. Flow(p)' = Flow(p)
    BY <1>2, <1>7 DEF Flow
  <2> HIDE DEF p
  <2> QED
    BY <1>1, <1>2, <1>7, <2>1, FlowKept
<1>11. \A x \in Ends : InOrder(x)'
  BY <1>9, <1>10, Peers
<1> QED
  BY <1>8, <1>11 DEF StreamInv

\* recvMessage() starts.
LEMMA StartRecvStep ==
  ASSUME StreamInv, NEW e \in Ends, e \in isOpen, ~ InRecv(e), StartRecv(e),
         UNCHANGED <<todo, wire, isOpen, sent, got>>
  PROVE  StreamInv'
<1> DEFINE p == Peer(e)  r == Field("length", LenBytes, 0, 0)
<1>1. StreamTypes /\ \A x \in Ends : InOrder(x)
  BY DEF StreamInv
<1>2. p \in Ends /\ p # e /\ Peer(p) = e
  BY Peers
<1>3. r \in Partial /\ Consumed(r) = <<>>
  <2>1. <<>> \in Seq(Octet) /\ Len(<<>>) < LenBytes
    BY EmptySeq, StreamAssumption
  <2>2. r = [stage |-> "length", need |-> LenBytes, buf |-> <<>>, len |-> 0, type |-> 0]
    BY DEF Field
  <2> QED
    BY <2>1, <2>2, Partials
<1>4. r \in Receivers /\ rx' = [rx EXCEPT ![e] = r] /\ rx \in [Ends -> Receivers]
  BY <1>1, <1>3 DEF StartRecv, Receivers, StreamTypes
<1>5. Consumed(rx[e]) = <<>>
  BY <1>4, Stages DEF InRecv, InProgress
<1> HIDE DEF r
<1>6. rx' \in [Ends -> Receivers] /\ rx'[e] = r /\ rx'[p] = rx[p]
  BY <1>2, <1>4
<1>7. StreamTypes'
  <2>1. \A x \in Ends : x \notin isOpen' => todo'[x] = <<>> /\ rx'[x] = Idle
    <3>1. \A x \in Ends : x \notin isOpen' => x = p
      BY Peers
    <3> QED
      BY <1>1, <1>2, <1>6, <3>1 DEF StreamTypes
  <2> QED
    BY <1>1, <1>6, <2>1 DEF StreamTypes
<1>8. ASSUME NEW x \in Ends
      PROVE  InOrder(x)'
  <2>1. Consumed(rx'[Peer(x)]) = Consumed(rx[Peer(x)])
    <3>1. Peer(x) = e \/ Peer(x) = p
      BY Peers
    <3> QED
      BY <1>3, <1>5, <1>6, <3>1
  <2>2. Flow(x)' = Flow(x)
    BY <2>1 DEF Flow
  <2> QED
    BY <1>1, <2>2, FlowKept
<1> QED
  BY <1>7, <1>8 DEF StreamInv

\* At first nothing is under way.
LEMMA InitStream ==
  ASSUME StreamInit
  PROVE  StreamInv
<1>1. /\ <<>> \in Seq(Octet) /\ <<>> \in Seq(Messages) /\ Len(<<>>) = 0
  BY EmptySeq
<1>2. StreamTypes
  BY <1>1, Stages, StreamAssumption DEF StreamTypes, StreamInit
<1>3. ASSUME NEW e \in Ends
      PROVE  InOrder(e)
  <2>1. /\ rx[Peer(e)] = Idle /\ wire[e] = <<>> /\ todo[e] = <<>> /\ sent[e] = <<>>
        /\ got[e] = <<>> /\ (e \in isOpen) = TRUE
    BY Peers DEF StreamInit
  <2>2. Consumed(Idle) = <<>>
    BY Stages
  <2>3. (<<>> \o <<>>) \o <<>> = <<>>
    BY <1>1, ConcatEmptySeq
  <2>4. Flow(e) = <<>>
    BY <2>1, <2>2, <2>3 DEF Flow
  <2>5. Carries(<<>>, <<>>, Len(<<>>), TRUE)
    BY <1>1, CarriesNone
  <2>6. Carries(Flow(e), sent[e], Len(got[e]), e \in isOpen)
    BY <2>1, <2>4, <2>5
  <2> QED
    BY <1>1, <2>1, <2>6 DEF InOrder
<1> QED
  BY <1>2, <1>3 DEF StreamInv

-----------------------------------------------------------------------------
(* What the processes are at. *)

StagesOf(e) ==
  IF e = "client"
  THEN {"connect", "hello", "welcome", "select", "incoming", "line", "send", "bye", "end",
        "closed", "killed"}
  ELSE {"accept", "hello", "send", "recv", "end", "closed", "killed"}
Sends(e) == IF e = "client" THEN {"hello", "send", "bye"} ELSE {"send"}
Receives(e) == IF e = "client" THEN {"welcome", "incoming"} ELSE {"hello", "recv"}

\* A process sends where it has called sendMessage(), and receives where it has called
\* recvMessage().
Role(e) ==
  /\ pc[e] \in StagesOf(e)
  /\ e \in isOpen <=> pc[e] \notin {"closed", "killed"}
  /\ todo[e] # <<>> => pc[e] \in Sends(e)
  /\ InRecv(e) => pc[e] \in Receives(e)
Roles == pc = [e \in Ends |-> pc[e]] /\ \A e \in Ends : Role(e)

InputTypes ==
  /\ stdinReady \in BOOLEAN /\ eof \in BOOLEAN
  /\ typed \in Seq(Lines) /\ taken \in 0..Len(typed) /\ used \in 0..taken

\* Where the client has sent what getline() returned, and goes on.
Talking == {"hello", "welcome", "select", "incoming", "line", "send"}

\* The client has sent its HELLO and then the lines, each once; the server a WELCOME first.
ClientSaid ==
  /\ pc["client"] = "connect" => sent["client"] = <<>> /\ used = 0
  /\ pc["client"] \in Talking => Len(sent["client"]) = 1 + used
  /\ sent["client"] # <<>> => sent["client"][1].type = HELLO
  /\ \A k \in 2..Len(sent["client"]) : k - 1 <= used /\ sent["client"][k] = typed[k - 1]
ServerSaid ==
  /\ pc["server"] \in {"accept", "hello"} => sent["server"] = <<>>
  /\ pc["server"] \in {"send", "recv"} => sent["server"] # <<>>
  /\ sent["server"] # <<>> => sent["server"][1] = Message(WELCOME, Greeting)

\* The inductive invariant.
IInv == StreamInv /\ Roles /\ InputTypes /\ ClientSaid /\ ServerSaid

\* What a step does to the link: nothing, or one of its two actions.
LinkStep == [Link!Next]_(Link!vars)

\* A message is one that may be sent.
LEMMA WhatIsSent ==
  /\ \A nick \in Nicks : Fits(Message(HELLO, nick)) => Message(HELLO, nick) \in Messages
  /\ Message(WELCOME, Greeting) \in Messages
  /\ Message(PONG, <<>>) \in Messages
  /\ \A line \in Lines : Fits(line) => line \in Messages
<1>1. HELLO \in Types /\ WELCOME \in Types /\ PONG \in Types /\ {TEXT, PING, BYE} \subseteq Types
  BY DEF Types
<1>2. /\ \A nick \in Nicks : Fits(Message(HELLO, nick)) =>
           nick \in Seq(0..(Base - 1)) /\ Len(nick) <= MaxPayload
      /\ Greeting \in Seq(0..(Base - 1)) /\ Len(Greeting) <= MaxPayload
  BY ChatAssumption DEF Fits, Message
<1>3. <<>> \in Seq(0..(Base - 1)) /\ Len(<<>>) <= MaxPayload
  <2>1. Len(<<>>) = 0 /\ MaxPayload \in Nat
    BY StreamAssumption, EmptySeq
  <2>2. <<>> \in Seq(0..(Base - 1))
    BY EmptySeq
  <2> QED
    BY <2>1, <2>2
<1>4. ASSUME NEW line \in Lines, Fits(line)
      PROVE  line \in Messages
  <2>1. line \in [type : {TEXT, PING, BYE}, payload : Seq(0..(Base - 1))]
    BY ChatAssumption
  <2>2. line.type \in Types /\ line.payload \in Seq(0..(Base - 1))
        /\ Len(line.payload) <= MaxPayload
    BY <1>1, <1>4, <2>1 DEF Fits
  <2>3. line = Message(line.type, line.payload)
    BY <2>1 DEF Message
  <2>4. Message(line.type, line.payload) \in Messages
    BY <2>2, MessageParts
  <2> QED
    BY <2>3, <2>4
<1> QED
  BY <1>1, <1>2, <1>3, <1>4, MessageParts

\* A step of one process keeps the roles.
LEMMA RoleStep ==
  ASSUME Roles, NEW e \in Ends, NEW stage \in StagesOf(e), pc' = [pc EXCEPT ![e] = stage],
         todo'[Peer(e)] = todo[Peer(e)], rx'[Peer(e)] = rx[Peer(e)],
         Peer(e) \in isOpen' <=> Peer(e) \in isOpen,
         e \in isOpen' <=> stage \notin {"closed", "killed"},
         todo'[e] # <<>> => stage \in Sends(e),
         rx'[e].stage \in {"length", "type", "payload"} => stage \in Receives(e)
  PROVE  Roles'
<1>1. pc' = [d \in Ends |-> pc'[d]] /\ pc'[e] = stage /\ pc'[Peer(e)] = pc[Peer(e)]
  BY Peers DEF Roles
<1>2. Role(e)'
  BY <1>1 DEF Role, InRecv
<1>3. Role(Peer(e))'
  <2>1. Role(Peer(e))
    BY Peers DEF Roles
  <2> QED
    BY <1>1, <2>1 DEF Role, InRecv
<1>4. \A d \in Ends : Role(d)'
  BY <1>2, <1>3, Peers
<1> QED
  BY <1>1, <1>4 DEF Roles

\* Nothing is said.
LEMMA ClientSaidKept ==
  ASSUME ClientSaid, sent'["client"] = sent["client"], used' = used, typed' = typed,
         \/ pc'["client"] = pc["client"]
         \/ /\ pc'["client"] # "connect"
            /\ pc'["client"] \in Talking => pc["client"] \in Talking
  PROVE  ClientSaid'
  BY DEF ClientSaid

\* The server, while it says nothing, is at a stage that asks for no more.
LEMMA ServerSaidKept ==
  ASSUME ServerSaid, sent'["server"] = sent["server"],
         \/ pc'["server"] = pc["server"]
         \/ /\ pc'["server"] \in {"accept", "hello"} => pc["server"] \in {"accept", "hello"}
            /\ pc'["server"] \in {"send", "recv"} => pc["server"] \in {"send", "recv"}
  PROVE  ServerSaid'
  BY DEF ServerSaid

\* What is sent is sent by the link, and what is received comes out of it.
LEMMA LinkSends ==
  ASSUME NEW e \in Ends, NEW m \in Messages, sent' = [sent EXCEPT ![e] = Append(@, m)],
         got' = got
  PROVE  LinkStep
<1>1. Link!Send(e)
  BY DEF Link!Send
<1> QED
  BY <1>1 DEF LinkStep, Link!Next

\* A message that arrives is the next one of the link.
LEMMA LinkDelivers ==
  ASSUME NEW e \in Ends, Len(got[e]) < Len(sent[e]), sent' = sent,
         got' = [got EXCEPT ![e] = Append(@, sent[e][Len(got[e]) + 1])],
         DOMAIN got = Ends
  PROVE  LinkStep
<1>1. got' = [got EXCEPT ![e] = Append(@, sent[e][Len(@) + 1])]
  OBVIOUS
<1>2. Link!Deliver(e)
  BY <1>1 DEF Link!Deliver
<1> QED
  BY <1>2 DEF LinkStep, Link!Next

\* A step that touches no message stutters.
LEMMA LinkSame ==
  ASSUME UNCHANGED <<sent, got>>
  PROVE  LinkStep
  BY DEF LinkStep, Link!vars

-----------------------------------------------------------------------------
(* The steps. *)

Alive(stage) == stage \notin {"closed", "killed"}

\* A process that starts to send.
LEMMA SendingStep ==
  ASSUME StreamInv, Roles, NEW e \in Ends, Alive(pc[e]), todo[e] = <<>>, ~ InRecv(e),
         NEW m \in Messages, NEW stage \in StagesOf(e), stage \in Sends(e), Alive(stage),
         Sending(e, m, stage), UNCHANGED <<wire, isOpen, got>>
  PROVE  /\ StreamInv' /\ Roles' /\ LinkStep
         /\ sent' = [sent EXCEPT ![e] = Append(sent[e], m)]
         /\ pc' = [pc EXCEPT ![e] = stage]
<1>1. /\ pc' = [pc EXCEPT ![e] = stage] /\ rx' = rx /\ StartSend(e, m)
      /\ todo' = [todo EXCEPT ![e] = Bytes(m)] /\ sent' = [sent EXCEPT ![e] = Append(@, m)]
  BY DEF Sending, Goto, StartSend
<1>2. e \in isOpen
  BY DEF Roles, Role, Alive
<1>3. StreamInv'
  BY <1>1, <1>2, StartSendStep
<1>4. todo'[Peer(e)] = todo[Peer(e)]
  <2>1. todo \in [Ends -> Seq(Octet)]
    BY DEF StreamInv, StreamTypes
  <2> QED
    BY <1>1, <2>1, Peers
<1>5. Roles'
  <2>1. ~ rx'[e].stage \in {"length", "type", "payload"}
    BY <1>1 DEF InRecv
  <2> QED
    BY <1>1, <1>2, <1>4, <2>1, RoleStep DEF Alive
<1>6. LinkStep
  BY <1>1, LinkSends
<1>7. sent' = [sent EXCEPT ![e] = Append(sent[e], m)]
  <2>1. sent \in [Ends -> Seq(Messages)]
    BY DEF StreamInv, StreamTypes
  <2> QED
    BY <1>1, <2>1
<1> QED
  BY <1>1, <1>3, <1>5, <1>6, <1>7

\* A process that starts to receive.
LEMMA ReceivingStep ==
  ASSUME StreamInv, Roles, NEW e \in Ends, Alive(pc[e]), todo[e] = <<>>, ~ InRecv(e),
         NEW stage \in StagesOf(e), stage \in Receives(e), Alive(stage),
         Receiving(e, stage), UNCHANGED <<wire, isOpen, got>>
  PROVE  StreamInv' /\ Roles' /\ LinkStep /\ sent' = sent /\ pc' = [pc EXCEPT ![e] = stage]
<1>1. /\ pc' = [pc EXCEPT ![e] = stage] /\ StartRecv(e) /\ UNCHANGED <<todo, sent>>
      /\ rx' = [rx EXCEPT ![e] = Field("length", LenBytes, 0, 0)]
  BY DEF Receiving, Goto, StartRecv
<1>2. e \in isOpen
  BY DEF Roles, Role, Alive
<1>3. StreamInv'
  BY <1>1, <1>2, StartRecvStep
<1>4. rx'[Peer(e)] = rx[Peer(e)]
  <2>1. rx \in [Ends -> Receivers]
    BY DEF StreamInv, StreamTypes
  <2> QED
    BY <1>1, <2>1, Peers
<1>5. Roles'
  BY <1>1, <1>2, <1>4, RoleStep DEF Alive
<1>6. LinkStep
  BY <1>1, LinkSame
<1> QED
  BY <1>1, <1>3, <1>5, <1>6

\* A process that goes on.
LEMMA GoingStep ==
  ASSUME StreamInv, Roles, NEW e \in Ends, Alive(pc[e]), todo[e] = <<>>, ~ InRecv(e),
         NEW stage \in StagesOf(e), Alive(stage), Goto(e, stage), UNCHANGED streamVars
  PROVE  StreamInv' /\ Roles' /\ LinkStep /\ sent' = sent /\ pc' = [pc EXCEPT ![e] = stage]
<1>1. /\ pc' = [pc EXCEPT ![e] = stage] /\ UNCHANGED <<todo, wire, rx, isOpen, sent, got>>
  BY DEF Goto, streamVars
<1>2. e \in isOpen
  BY DEF Roles, Role, Alive
<1>3. StreamInv'
  BY StreamSame
<1>4. Roles'
  <2>1. ~ rx'[e].stage \in {"length", "type", "payload"}
    BY <1>1 DEF InRecv
  <2> QED
    BY <1>1, <1>2, <2>1, RoleStep DEF Alive
<1>5. LinkStep
  BY <1>1, LinkSame
<1> QED
  BY <1>1, <1>3, <1>4, <1>5

\* Where a process neither sends nor receives.
LEMMA Resting ==
  ASSUME Roles, NEW e \in Ends
  PROVE  /\ pc[e] \notin Sends(e) => todo[e] = <<>>
         /\ pc[e] \notin Receives(e) => ~ InRecv(e)
         /\ Received(e) \/ RecvFailed(e) => ~ InRecv(e)
  BY DEF Roles, Role, Received, RecvFailed, InRecv

\* The bytes of a message go, or come.
LEMMA TransferStep ==
  ASSUME IInv, NEW e \in Ends, Transfer(e)
  PROVE  IInv' /\ LinkStep
<1>1. StreamInv /\ Roles /\ Role(e)
  BY DEF IInv, Roles
<1>2. /\ pc' = pc \/ (SendToClosed(e) /\ pc' = [pc EXCEPT ![e] = "end"])
      /\ UNCHANGED <<stdinReady, inputVars>>
      /\ e \in isOpen
  BY <1>1 DEF Transfer, Goto, Role
<1>3. UNCHANGED <<typed, eof, taken, used>>
  BY <1>2 DEF inputVars
<1>4. /\ StreamInv' /\ LinkStep /\ sent' = sent /\ isOpen' = isOpen
      /\ \A d \in Ends : todo'[d] # <<>> => todo[d] # <<>>
      /\ \A d \in Ends : rx'[d].stage \in {"length", "type", "payload"} => InRecv(d)
  <2>0. todo \in [Ends -> Seq(Octet)] /\ rx \in [Ends -> Receivers] /\ DOMAIN got = Ends
    BY <1>1 DEF StreamInv, StreamTypes
  <2>1. CASE SendSome(e)
    <3>1. StreamInv' /\ LinkStep
      BY <1>1, <2>1, SendSomeStep, LinkSame DEF SendSome
    <3>2. \A d \in Ends : todo'[d] # <<>> => todo[d] # <<>>
      BY <2>0, <2>1 DEF SendSome
    <3>3. rx' = rx /\ isOpen' = isOpen /\ sent' = sent
      BY <2>1 DEF SendSome
    <3> QED
      BY <3>1, <3>2, <3>3 DEF InRecv
  <2>2. CASE SendToClosed(e)
    <3>1. StreamInv' /\ LinkStep
      BY <1>1, <2>2, SendToClosedStep, LinkSame DEF SendToClosed
    <3>2. \A d \in Ends : todo'[d] # <<>> => todo[d] # <<>>
      BY <2>0, <2>2 DEF SendToClosed
    <3>3. rx' = rx /\ isOpen' = isOpen /\ sent' = sent
      BY <2>2 DEF SendToClosed
    <3> QED
      BY <3>1, <3>2, <3>3 DEF InRecv
  <2>3. CASE RecvSome(e)
    <3>1. /\ StreamInv'
          /\ \/ got' = got
             \/ /\ Len(got[Peer(e)]) < Len(sent[Peer(e)])
                /\ got' = [got EXCEPT ![Peer(e)] =
                             Append(@, sent[Peer(e)][Len(got[Peer(e)]) + 1])]
      BY <1>1, <1>2, <2>3, RecvSomeStep
    <3>2. todo' = todo /\ isOpen' = isOpen /\ sent' = sent /\ InRecv(e)
          /\ \E r : rx' = [rx EXCEPT ![e] = r]
      BY <2>3 DEF RecvSome
    <3>3. LinkStep
      <4>1. Peer(e) \in Ends
        BY Peers
      <4> QED
        BY <2>0, <3>1, <3>2, <4>1, LinkSame, LinkDelivers
    <3>4. \A d \in Ends : rx'[d].stage \in {"length", "type", "payload"} => InRecv(d)
      BY <2>0, <3>2 DEF InRecv
    <3> QED
      BY <3>1, <3>2, <3>3, <3>4
  <2>4. CASE RecvEof(e)
    <3>1. StreamInv' /\ LinkStep
      BY <1>1, <1>2, <2>4, RecvEofStep, LinkSame DEF RecvEof
    <3>2. todo' = todo /\ isOpen' = isOpen /\ sent' = sent /\ InRecv(e)
          /\ rx' = [rx EXCEPT ![e] = Eof]
      BY <2>4 DEF RecvEof, Eof
    <3>3. \A d \in Ends : rx'[d].stage \in {"length", "type", "payload"} => InRecv(d)
      BY <2>0, <3>2 DEF InRecv
    <3> QED
      BY <3>1, <3>2, <3>3
  <2> QED
    BY <2>1, <2>2, <2>3, <2>4 DEF Transfer
<1>5. Roles'
  <2>1. CASE pc' = pc
    BY <1>1, <1>4, <2>1 DEF Roles, Role, InRecv
  <2>2. CASE SendToClosed(e) /\ pc' = [pc EXCEPT ![e] = "end"]
    <3>1. pc' = [d \in Ends |-> pc'[d]] /\ pc'[e] = "end"
          /\ \A d \in Ends \ {e} : pc'[d] = pc[d]
      BY <1>1, <2>2 DEF Roles
    <3>2. todo[e] # <<>> /\ todo'[e] = <<>> /\ rx' = rx
      BY <1>1, <2>2 DEF SendToClosed, StreamInv, StreamTypes
    <3>3. ~ InRecv(e)
      BY <1>1, <3>2 DEF Role, Sends, Receives
    <3>4. Role(e)'
      BY <1>2, <1>4, <3>1, <3>2, <3>3 DEF Role, StagesOf, InRecv
    <3>5. \A d \in Ends \ {e} : Role(d)'
      BY <1>1, <1>4, <3>1, <3>2 DEF Roles, Role, InRecv
    <3> QED
      BY <3>1, <3>4, <3>5 DEF Roles
  <2> QED
    BY <1>2, <2>1, <2>2
<1>6. InputTypes' /\ ClientSaid' /\ ServerSaid'
  <2>1. \A d \in Ends : pc'[d] = pc[d] \/ pc'[d] = "end"
    BY <1>1, <1>2 DEF Roles
  <2>2. "client" \in Ends /\ "server" \in Ends /\ "end" \notin Talking
    BY DEF Ends, Talking
  <2> QED
    BY <1>2, <1>3, <1>4, <2>1, <2>2, ClientSaidKept, ServerSaidKept DEF IInv, InputTypes
<1> QED
  BY <1>4, <1>5, <1>6 DEF IInv

\* An end is closed, by its process or because that is killed.
LEMMA EndStep ==
  ASSUME IInv, NEW e \in Ends, NEW stage \in {"closed", "killed"}, Close(e), Goto(e, stage),
         UNCHANGED <<stdinReady, inputVars>>
  PROVE  IInv' /\ LinkStep
<1>1. StreamInv /\ Roles /\ Role(e)
  BY DEF IInv, Roles
<1>2. /\ isOpen' = isOpen \ {e} /\ todo' = [todo EXCEPT ![e] = <<>>]
      /\ rx' = [rx EXCEPT ![e] = Idle] /\ sent' = sent /\ got' = got
      /\ pc' = [pc EXCEPT ![e] = stage] /\ UNCHANGED <<typed, eof, taken, used>>
  BY DEF Close, Goto, inputVars
<1>3. StreamInv' /\ LinkStep
  BY <1>1, <1>2, CloseStep, LinkSame
<1>4. todo \in [Ends -> Seq(Octet)] /\ rx \in [Ends -> Receivers]
  BY <1>1 DEF StreamInv, StreamTypes
<1>5. /\ todo'[e] = <<>> /\ todo'[Peer(e)] = todo[Peer(e)] /\ rx'[e] = Idle
      /\ rx'[Peer(e)] = rx[Peer(e)] /\ Idle.stage = "idle"
  BY <1>2, <1>4, Peers DEF Idle
<1>6. Roles'
  <2>1. Peer(e) \in isOpen' <=> Peer(e) \in isOpen
    BY <1>2, Peers
  <2>2. stage \in StagesOf(e) /\ e \notin isOpen'
    BY <1>2 DEF StagesOf
  <2> QED
    BY <1>1, <1>2, <1>5, <2>1, <2>2, RoleStep
<1>7. \A d \in Ends : pc'[d] = pc[d] \/ pc'[d] \in {"closed", "killed"}
  BY <1>1, <1>2 DEF Roles
<1>8. ClientSaid' /\ ServerSaid'
  <2>1. \/ pc'["client"] = pc["client"]
        \/ pc'["client"] # "connect" /\ pc'["client"] \notin Talking
    BY <1>7 DEF Talking
  <2>2. \/ pc'["server"] = pc["server"]
        \/ pc'["server"] \notin {"accept", "hello", "send", "recv"}
    BY <1>7
  <2> QED
    BY <1>2, <2>1, <2>2, ClientSaidKept, ServerSaidKept DEF IInv
<1> QED
  BY <1>2, <1>3, <1>6, <1>8 DEF IInv, InputTypes

\* The client sends a HELLO.
LEMMA HelloStep ==
  ASSUME IInv, pc["client"] = "connect", NEW nick \in Nicks, Fits(Message(HELLO, nick)),
         Sending("client", Message(HELLO, nick), "hello"),
         UNCHANGED <<wire, isOpen, got, stdinReady, inputVars>>
  PROVE  IInv' /\ LinkStep
<1> DEFINE m == Message(HELLO, nick)
<1>1. StreamInv /\ Roles /\ InputTypes /\ ClientSaid /\ ServerSaid
  BY DEF IInv
<1>2. /\ pc["client"] = "connect" /\ Sending("client", m, "hello")
      /\ UNCHANGED <<wire, isOpen, got>> /\ UNCHANGED <<stdinReady, typed, eof, taken, used>>
  BY DEF inputVars
<1>3. m \in Messages /\ todo["client"] = <<>> /\ ~ InRecv("client") /\ Alive(pc["client"])
  BY <1>1, <1>2, WhatIsSent, Resting DEF Sends, Receives, Alive
<1>4. m.type = HELLO
  BY DEF Message
<1> HIDE DEF m
<1>5. /\ StreamInv' /\ Roles' /\ LinkStep /\ sent' = [sent EXCEPT !["client"] = Append(sent["client"], m)]
      /\ pc' = [pc EXCEPT !["client"] = "hello"]
  <2>1. "hello" \in StagesOf("client") /\ "hello" \in Sends("client") /\ Alive("hello")
    BY DEF StagesOf, Sends, Alive
  <2> QED
    BY <1>1, <1>2, <1>3, <2>1, SendingStep
<1>6. sent \in [Ends -> Seq(Messages)] /\ sent["client"] = <<>> /\ used = 0
  BY <1>1, <1>2 DEF StreamInv, StreamTypes, ClientSaid
<1>7. sent'["client"] = <<m>> /\ sent'["server"] = sent["server"]
  BY <1>5, <1>6
<1>8. pc'["client"] = "hello" /\ pc'["server"] = pc["server"]
  BY <1>1, <1>5 DEF Roles
<1>9. ClientSaid'
  <2>1. Len(<<m>>) = 1 /\ <<m>>[1] = m /\ \A k \in 2..1 : FALSE
    OBVIOUS
  <2> QED
    BY <1>2, <1>4, <1>6, <1>7, <1>8, <2>1 DEF ClientSaid
<1>10. ServerSaid'
  BY <1>1, <1>7, <1>8, ServerSaidKept
<1> QED
  BY <1>1, <1>2, <1>5, <1>9, <1>10 DEF IInv, InputTypes

\* The client connects; it leaves again when its nickname is too long.
LEMMA ConnectStep ==
  ASSUME IInv, Connect
  PROVE  IInv' /\ LinkStep
<1>1. /\ pc["client"] = "connect" /\ UNCHANGED <<wire, isOpen, got, stdinReady, inputVars>>
      /\ \E nick \in Nicks :
           \/ Fits(Message(HELLO, nick)) /\ Sending("client", Message(HELLO, nick), "hello")
           \/ Leave("client")
  BY DEF Connect
<1>2. CASE Leave("client")
  <2>1. StreamInv /\ Roles /\ InputTypes /\ ClientSaid /\ ServerSaid
    BY DEF IInv
  <2>2. UNCHANGED <<typed, eof, taken, used, stdinReady>>
    BY <1>1 DEF inputVars
  <2>3. ~ InRecv("client") /\ Alive(pc["client"]) /\ todo["client"] = <<>>
    BY <1>1, <2>1, Resting DEF Sends, Receives, Alive
  <2>4. "end" \in StagesOf("client") /\ Alive("end") /\ UNCHANGED streamVars
        /\ Goto("client", "end")
    BY <1>1, <1>2 DEF StagesOf, Alive, streamVars, Leave
  <2>5. StreamInv' /\ Roles' /\ LinkStep /\ sent' = sent /\ pc' = [pc EXCEPT !["client"] = "end"]
    BY <2>1, <2>3, <2>4, GoingStep
  <2>6. pc'["client"] = "end" /\ pc'["server"] = pc["server"]
    BY <2>1, <2>5 DEF Roles
  <2>7. ClientSaid' /\ ServerSaid'
    <3>1. pc'["client"] # "connect" /\ pc'["client"] \notin Talking
      BY <2>6 DEF Talking
    <3> QED
      BY <2>1, <2>2, <2>5, <2>6, <3>1, ClientSaidKept, ServerSaidKept
  <2> QED
    BY <2>1, <2>2, <2>5, <2>7 DEF IInv, InputTypes
<1>3. CASE \E nick \in Nicks :
             Fits(Message(HELLO, nick)) /\ Sending("client", Message(HELLO, nick), "hello")
  BY <1>1, <1>3, HelloStep
<1> QED
  BY <1>1, <1>2, <1>3

\* sendMessage() of the client has returned.
LEMMA ClientSentStep ==
  ASSUME IInv, ClientSent
  PROVE  IInv' /\ LinkStep
<1>1. StreamInv /\ Roles /\ InputTypes /\ ClientSaid /\ ServerSaid
  BY DEF IInv
<1>2. /\ todo["client"] = <<>> /\ pc["client"] \in {"hello", "send", "bye"}
      /\ UNCHANGED <<wire, isOpen, got>> /\ UNCHANGED <<stdinReady, typed, eof, taken, used>>
  BY DEF ClientSent, inputVars
<1>3. ~ InRecv("client") /\ Alive(pc["client"])
  BY <1>1, <1>2, Resting DEF Receives, Alive
<1>4. PICK stage \in {"welcome", "select", "end"} :
        /\ stage = "end" \/ pc["client"] \in {"hello", "send"}
        /\ StreamInv' /\ Roles' /\ LinkStep /\ sent' = sent
        /\ pc' = [pc EXCEPT !["client"] = stage]
  <2>1. CASE pc["client"] = "hello" /\ Receiving("client", "welcome")
    <3>1. "welcome" \in StagesOf("client") /\ "welcome" \in Receives("client") /\ Alive("welcome")
      BY DEF StagesOf, Receives, Alive
    <3>2. StreamInv' /\ Roles' /\ LinkStep /\ sent' = sent /\ pc' = [pc EXCEPT !["client"] = "welcome"]
      BY <1>1, <1>2, <1>3, <2>1, <3>1, ReceivingStep
    <3> QED
      BY <2>1, <3>2
  <2>2. CASE pc["client"] = "send" /\ Goto("client", "select") /\ UNCHANGED <<todo, rx, sent>>
    <3>1. "select" \in StagesOf("client") /\ Alive("select") /\ UNCHANGED streamVars
      BY <1>2, <2>2 DEF StagesOf, Alive, streamVars
    <3>2. StreamInv' /\ Roles' /\ LinkStep /\ sent' = sent /\ pc' = [pc EXCEPT !["client"] = "select"]
      BY <1>1, <1>2, <1>3, <2>2, <3>1, GoingStep
    <3> QED
      BY <2>2, <3>2
  <2>3. CASE pc["client"] = "bye" /\ Leave("client")
    <3>1. "end" \in StagesOf("client") /\ Alive("end") /\ UNCHANGED streamVars
          /\ Goto("client", "end")
      BY <1>2, <2>3 DEF StagesOf, Alive, streamVars, Leave
    <3>2. StreamInv' /\ Roles' /\ LinkStep /\ sent' = sent /\ pc' = [pc EXCEPT !["client"] = "end"]
      BY <1>1, <1>2, <1>3, <3>1, GoingStep
    <3> QED
      BY <3>2
  <2> QED
    BY <2>1, <2>2, <2>3 DEF ClientSent
<1>5. pc'["client"] = stage /\ pc'["server"] = pc["server"]
  BY <1>1, <1>4 DEF Roles
<1>6. ClientSaid' /\ ServerSaid'
  <2>1. pc'["client"] # "connect" /\ (pc'["client"] \in Talking => pc["client"] \in Talking)
    BY <1>4, <1>5 DEF Talking
  <2> QED
    BY <1>1, <1>2, <1>4, <1>5, <2>1, ClientSaidKept, ServerSaidKept
<1> QED
  BY <1>1, <1>2, <1>4, <1>6 DEF IInv, InputTypes

\* The client goes on after recvMessage() has returned.
LEMMA ClientGoesOn ==
  ASSUME IInv, NEW stage \in {"select", "line", "end"}, pc["client"] \in {"welcome", "incoming"},
         Received("client") \/ RecvFailed("client"), Goto("client", stage),
         UNCHANGED <<streamVars, stdinReady, inputVars>>
  PROVE  IInv' /\ LinkStep
<1>1. StreamInv /\ Roles /\ InputTypes /\ ClientSaid /\ ServerSaid
  BY DEF IInv
<1>2. UNCHANGED streamVars /\ UNCHANGED <<stdinReady, typed, eof, taken, used>>
  BY DEF inputVars
<1>3. ~ InRecv("client") /\ Alive(pc["client"]) /\ todo["client"] = <<>>
  BY <1>1, Resting DEF Sends, Alive
<1>4. stage \in StagesOf("client") /\ Alive(stage)
  BY DEF StagesOf, Alive
<1>5. StreamInv' /\ Roles' /\ LinkStep /\ sent' = sent /\ pc' = [pc EXCEPT !["client"] = stage]
  BY <1>1, <1>2, <1>3, <1>4, GoingStep
<1>6. pc'["client"] = stage /\ pc'["server"] = pc["server"]
  BY <1>1, <1>5 DEF Roles
<1>7. ClientSaid' /\ ServerSaid'
  <2>1. pc'["client"] # "connect" /\ pc["client"] \in Talking
    BY <1>6 DEF Talking
  <2> QED
    BY <1>1, <1>2, <1>5, <1>6, <2>1, ClientSaidKept, ServerSaidKept
<1> QED
  BY <1>1, <1>2, <1>5, <1>7 DEF IInv, InputTypes

\* The answer to the client's HELLO, or its failure.
LEMMA RecvWelcomeStep ==
  ASSUME IInv, RecvWelcome
  PROVE  IInv' /\ LinkStep
<1>1. pc["client"] = "welcome" /\ UNCHANGED <<streamVars, stdinReady, inputVars>>
  BY DEF RecvWelcome
<1>2. PICK stage \in {"select", "line", "end"} :
        (Received("client") \/ RecvFailed("client")) /\ Goto("client", stage)
  BY DEF RecvWelcome
<1> QED
  BY <1>1, <1>2, ClientGoesOn

\* A message from the server, or the end of them.
LEMMA IncomingStep ==
  ASSUME IInv, Incoming
  PROVE  IInv' /\ LinkStep
<1>1. pc["client"] = "incoming" /\ UNCHANGED <<streamVars, stdinReady, inputVars>>
  BY DEF Incoming
<1>2. PICK stage \in {"select", "line", "end"} :
        (Received("client") \/ RecvFailed("client")) /\ Goto("client", stage)
  BY DEF Incoming
<1> QED
  BY <1>1, <1>2, ClientGoesOn

\* select() returns.
LEMMA SelectStep ==
  ASSUME IInv, Select
  PROVE  IInv' /\ LinkStep
<1>1. StreamInv /\ Roles /\ InputTypes /\ ClientSaid /\ ServerSaid
  BY DEF IInv
<1>2. /\ pc["client"] = "select" /\ stdinReady' = InputReadable
      /\ UNCHANGED <<wire, isOpen, got>> /\ UNCHANGED <<typed, eof, taken, used>>
  BY DEF Select, inputVars
<1>3. ~ InRecv("client") /\ Alive(pc["client"]) /\ todo["client"] = <<>>
  BY <1>1, <1>2, Resting DEF Sends, Receives, Alive
<1>4. PICK stage \in {"incoming", "line"} :
        /\ StreamInv' /\ Roles' /\ LinkStep /\ sent' = sent
        /\ pc' = [pc EXCEPT !["client"] = stage]
  <2>1. CASE Receiving("client", "incoming")
    <3>1. "incoming" \in StagesOf("client") /\ "incoming" \in Receives("client") /\ Alive("incoming")
      BY DEF StagesOf, Receives, Alive
    <3>2. StreamInv' /\ Roles' /\ LinkStep /\ sent' = sent /\ pc' = [pc EXCEPT !["client"] = "incoming"]
      BY <1>1, <1>2, <1>3, <2>1, <3>1, ReceivingStep
    <3> QED
      BY <3>2
  <2>2. CASE Goto("client", "line") /\ UNCHANGED <<todo, rx, sent>>
    <3>1. "line" \in StagesOf("client") /\ Alive("line") /\ UNCHANGED streamVars
      BY <1>2, <2>2 DEF StagesOf, Alive, streamVars
    <3>2. StreamInv' /\ Roles' /\ LinkStep /\ sent' = sent /\ pc' = [pc EXCEPT !["client"] = "line"]
      BY <1>1, <1>2, <1>3, <2>2, <3>1, GoingStep
    <3> QED
      BY <3>2
  <2> QED
    BY <2>1, <2>2 DEF Select
<1>5. pc'["client"] = stage /\ pc'["server"] = pc["server"]
  BY <1>1, <1>4 DEF Roles
<1>6. ClientSaid' /\ ServerSaid'
  <2>1. pc'["client"] # "connect" /\ pc["client"] \in Talking
    BY <1>2, <1>5 DEF Talking
  <2> QED
    BY <1>1, <1>2, <1>4, <1>5, <2>1, ClientSaidKept, ServerSaidKept
<1>7. InputTypes'
  <2>1. stdinReady' \in BOOLEAN
    BY <1>1, <1>2 DEF InputReadable, InputTypes
  <2> QED
    BY <1>1, <1>2, <2>1 DEF InputTypes
<1> QED
  BY <1>4, <1>6, <1>7 DEF IInv

\* What getline() returns is the next line.
LEMMA GetLineNext ==
  ASSUME InputTypes, GetLine, stdinReady' = stdinReady
  PROVE  /\ InputTypes' /\ used' = used + 1 /\ typed' = typed /\ used' \in 1..Len(typed)
         /\ typed[used'] \in Lines /\ used \in Nat
<1>1. /\ typed \in Seq(Lines) /\ taken \in 0..Len(typed) /\ used \in 0..taken
      /\ stdinReady \in BOOLEAN /\ eof \in BOOLEAN /\ Len(typed) \in Nat
  BY DEF InputTypes
<1>2. /\ used' = used + 1 /\ typed' = typed /\ eof' = eof
      /\ IF used < taken THEN taken' = taken ELSE taken' \in (used + 1)..Len(typed)
  BY DEF GetLine, NextUsed
<1>3. taken' \in 0..Len(typed) /\ used' \in 0..taken' /\ used' \in 1..Len(typed) /\ used \in Nat
  <2>1. CASE used < taken
    BY <1>1, <1>2, <2>1
  <2>2. CASE ~ used < taken
    BY <1>1, <1>2, <2>2
  <2> QED
    BY <2>1, <2>2
<1>4. typed[used'] \in Lines
  BY <1>1, <1>3, ElementOfSeq
<1> QED
  BY <1>1, <1>2, <1>3, <1>4 DEF InputTypes

\* A line is sent, or ends the client.
LEMMA HandleLineStep ==
  ASSUME IInv, HandleLine
  PROVE  IInv' /\ LinkStep
<1>1. StreamInv /\ Roles /\ InputTypes /\ ClientSaid /\ ServerSaid
  BY DEF IInv
<1>2. /\ pc["client"] = "line" /\ UNCHANGED <<wire, isOpen, got>> /\ stdinReady' = stdinReady
  BY DEF HandleLine
<1>3. ~ InRecv("client") /\ Alive(pc["client"]) /\ todo["client"] = <<>>
  BY <1>1, <1>2, Resting DEF Sends, Receives, Alive
<1>4. sent \in [Ends -> Seq(Messages)] /\ sent["client"] \in Seq(Messages)
      /\ Len(sent["client"]) = 1 + used
  BY <1>1, <1>2 DEF StreamInv, StreamTypes, ClientSaid, Talking
<1>5. CASE GetLine /\ Fits(typed[used'])
           /\ Sending("client", typed[used'], IF typed[used'].type = BYE THEN "bye" ELSE "send")
  <2> DEFINE m == typed[used']  stage == IF m.type = BYE THEN "bye" ELSE "send"
             s == sent["client"]  h == Append(s, m)
  <2>1. /\ InputTypes' /\ used' = used + 1 /\ typed' = typed /\ used' \in 1..Len(typed)
        /\ m \in Lines /\ used \in Nat
    BY <1>1, <1>2, <1>5, GetLineNext
  <2>2. m \in Messages
    BY <1>5, <2>1, WhatIsSent
  <2>3. stage \in StagesOf("client") /\ stage \in Sends("client") /\ Alive(stage)
        /\ stage \in {"bye", "send"}
    BY DEF StagesOf, Sends, Alive
  <2>4. Sending("client", m, stage)
    BY <1>5
  <2> HIDE DEF m, stage
  <2>5. /\ StreamInv' /\ Roles' /\ LinkStep
        /\ sent' = [sent EXCEPT !["client"] = h]
        /\ pc' = [pc EXCEPT !["client"] = stage]
    BY <1>1, <1>2, <1>3, <2>2, <2>3, <2>4, SendingStep
  <2>6. pc'["client"] = stage /\ pc'["server"] = pc["server"]
    BY <1>1, <2>5 DEF Roles
  <2>7. sent'["client"] = h /\ sent'["server"] = sent["server"]
    BY <1>4, <2>5
  <2>8. ServerSaid'
    BY <1>1, <2>6, <2>7, ServerSaidKept
  <2> HIDE DEF s
  <2>9. /\ Len(h) = Len(s) + 1 /\ h[Len(s) + 1] = m /\ \A k \in 1..Len(s) : h[k] = s[k]
        /\ Len(s) = 1 + used
    BY <1>4, <2>2, AppendElements DEF s
  <2> HIDE DEF h
  <2>10. ClientSaid'
    <3>1. Len(h) = 1 + used' /\ h[1] = s[1] /\ s # <<>>
      <4>1. 1 \in 1..Len(s) /\ Len(<<>>) = 0
        BY <2>1, <2>9, EmptySeq
      <4>2. s # <<>>
        BY <2>1, <2>9, <4>1
      <4> QED
        BY <2>1, <2>9, <4>1, <4>2
    <3>2. h[1].type = HELLO
      BY <1>1, <3>1 DEF ClientSaid, s
    <3>3. ASSUME NEW k \in 2..Len(h)
          PROVE  k - 1 <= used' /\ h[k] = typed'[k - 1]
      <4>1. CASE k = Len(s) + 1
        BY <2>1, <2>9, <4>1 DEF m
      <4>2. CASE k # Len(s) + 1
        <5>1. k \in 2..Len(s) /\ k \in 1..Len(s)
          BY <2>1, <2>9, <4>2
        <5>2. k - 1 <= used /\ s[k] = typed[k - 1]
          BY <1>1, <5>1 DEF ClientSaid, s
        <5> QED
          BY <2>1, <2>9, <5>1, <5>2
      <4> QED
        BY <4>1, <4>2
    <3>4. pc'["client"] # "connect"
      BY <2>3, <2>6
    <3> QED
      BY <2>7, <3>1, <3>2, <3>3, <3>4 DEF ClientSaid
  <2> QED
    BY <2>1, <2>5, <2>8, <2>10 DEF IInv
<1>6. CASE GetLine /\ Leave("client")
  <2>1. /\ InputTypes' /\ used' = used + 1 /\ typed' = typed /\ used \in Nat
    BY <1>1, <1>2, <1>6, GetLineNext
  <2>2. "end" \in StagesOf("client") /\ Alive("end") /\ UNCHANGED streamVars
        /\ Goto("client", "end")
    BY <1>2, <1>6 DEF StagesOf, Alive, streamVars, Leave
  <2>3. StreamInv' /\ Roles' /\ LinkStep /\ sent' = sent /\ pc' = [pc EXCEPT !["client"] = "end"]
    BY <1>1, <1>2, <1>3, <2>2, GoingStep
  <2>4. pc'["client"] = "end" /\ pc'["server"] = pc["server"]
    BY <1>1, <2>3 DEF Roles
  <2>5. ServerSaid'
    BY <1>1, <2>3, <2>4, ServerSaidKept
  <2>6. ClientSaid'
    <3>1. \A k \in 2..Len(sent["client"]) : k - 1 <= used' /\ sent["client"][k] = typed'[k - 1]
      <4> TAKE k \in 2..Len(sent["client"])
      <4>1. k - 1 <= used /\ sent["client"][k] = typed[k - 1]
        BY <1>1 DEF ClientSaid
      <4> QED
        BY <1>4, <2>1, <4>1
    <3> QED
      BY <1>1, <2>3, <2>4, <3>1 DEF ClientSaid, Talking
  <2> QED
    BY <2>1, <2>3, <2>5, <2>6 DEF IInv
<1>7. CASE Leave("client") /\ UNCHANGED inputVars
  <2>1. UNCHANGED <<typed, eof, taken, used>>
    BY <1>7 DEF inputVars
  <2>2. "end" \in StagesOf("client") /\ Alive("end") /\ UNCHANGED streamVars
        /\ Goto("client", "end")
    BY <1>2, <1>7 DEF StagesOf, Alive, streamVars, Leave
  <2>3. StreamInv' /\ Roles' /\ LinkStep /\ sent' = sent /\ pc' = [pc EXCEPT !["client"] = "end"]
    BY <1>1, <1>2, <1>3, <2>2, GoingStep
  <2>4. pc'["client"] = "end" /\ pc'["server"] = pc["server"]
    BY <1>1, <2>3 DEF Roles
  <2>5. ClientSaid' /\ ServerSaid'
    <3>1. pc'["client"] # "connect" /\ pc'["client"] \notin Talking
      BY <2>4 DEF Talking
    <3> QED
      BY <1>1, <2>1, <2>3, <2>4, <3>1, ClientSaidKept, ServerSaidKept
  <2> QED
    BY <1>1, <1>2, <2>1, <2>3, <2>5 DEF IInv, InputTypes
<1> QED
  BY <1>5, <1>6, <1>7 DEF HandleLine

\* The server receives on.
LEMMA ServerReceives ==
  ASSUME IInv, NEW stage \in {"hello", "recv"}, Receiving("server", stage),
         todo["server"] = <<>>, ~ InRecv("server"),
         \/ pc["server"] = "accept" /\ stage = "hello"
         \/ pc["server"] \in {"send", "recv"} /\ stage = "recv",
         UNCHANGED <<wire, isOpen, got, stdinReady, inputVars>>
  PROVE  IInv' /\ LinkStep
<1>1. StreamInv /\ Roles /\ InputTypes /\ ClientSaid /\ ServerSaid
  BY DEF IInv
<1>2. UNCHANGED <<wire, isOpen, got>> /\ UNCHANGED <<stdinReady, typed, eof, taken, used>>
  BY DEF inputVars
<1>3. stage \in StagesOf("server") /\ stage \in Receives("server") /\ Alive(stage)
      /\ Alive(pc["server"])
  BY DEF StagesOf, Receives, Alive
<1>4. StreamInv' /\ Roles' /\ LinkStep /\ sent' = sent /\ pc' = [pc EXCEPT !["server"] = stage]
  BY <1>1, <1>2, <1>3, ReceivingStep
<1>5. pc'["server"] = stage /\ pc'["client"] = pc["client"]
  BY <1>1, <1>4 DEF Roles
<1>6. ClientSaid' /\ ServerSaid'
  BY <1>1, <1>2, <1>4, <1>5, ClientSaidKept, ServerSaidKept
<1> QED
  BY <1>1, <1>2, <1>4, <1>6 DEF IInv, InputTypes

\* The server leaves.
LEMMA ServerLeaves ==
  ASSUME IInv, Leave("server"), pc["server"] \in {"hello", "recv"}, ~ InRecv("server"),
         UNCHANGED <<wire, isOpen, got, stdinReady, inputVars>>
  PROVE  IInv' /\ LinkStep
<1>1. StreamInv /\ Roles /\ InputTypes /\ ClientSaid /\ ServerSaid
  BY DEF IInv
<1>2. UNCHANGED streamVars /\ UNCHANGED <<stdinReady, typed, eof, taken, used>>
      /\ Goto("server", "end")
  BY DEF inputVars, Leave, streamVars
<1>3. "end" \in StagesOf("server") /\ Alive("end") /\ Alive(pc["server"])
      /\ todo["server"] = <<>>
  BY <1>1, Resting DEF StagesOf, Sends, Alive
<1>4. StreamInv' /\ Roles' /\ LinkStep /\ sent' = sent /\ pc' = [pc EXCEPT !["server"] = "end"]
  BY <1>1, <1>2, <1>3, GoingStep
<1>5. pc'["server"] = "end" /\ pc'["client"] = pc["client"]
  BY <1>1, <1>4 DEF Roles
<1>6. ClientSaid' /\ ServerSaid'
  BY <1>1, <1>2, <1>4, <1>5, ClientSaidKept, ServerSaidKept
<1> QED
  BY <1>1, <1>2, <1>4, <1>6 DEF IInv, InputTypes

\* The server answers.
LEMMA ServerSends ==
  ASSUME IInv, NEW m \in Messages, Sending("server", m, "send"),
         pc["server"] \in {"hello", "recv"}, ~ InRecv("server"),
         pc["server"] = "hello" => m = Message(WELCOME, Greeting),
         UNCHANGED <<wire, isOpen, got, stdinReady, inputVars>>
  PROVE  IInv' /\ LinkStep
<1>1. StreamInv /\ Roles /\ InputTypes /\ ClientSaid /\ ServerSaid
  BY DEF IInv
<1>2. UNCHANGED <<wire, isOpen, got>> /\ UNCHANGED <<stdinReady, typed, eof, taken, used>>
  BY DEF inputVars
<1>3. "send" \in StagesOf("server") /\ "send" \in Sends("server") /\ Alive("send")
      /\ Alive(pc["server"]) /\ todo["server"] = <<>>
  BY <1>1, Resting DEF StagesOf, Sends, Alive
<1> DEFINE s == sent["server"]  h == Append(s, m)
<1>4. /\ StreamInv' /\ Roles' /\ LinkStep /\ sent' = [sent EXCEPT !["server"] = h]
      /\ pc' = [pc EXCEPT !["server"] = "send"]
  BY <1>1, <1>2, <1>3, SendingStep
<1>5. pc'["server"] = "send" /\ pc'["client"] = pc["client"]
  BY <1>1, <1>4 DEF Roles
<1>6. s \in Seq(Messages) /\ sent'["server"] = h /\ sent'["client"] = sent["client"]
  BY <1>1, <1>4 DEF StreamInv, StreamTypes
<1>7. ClientSaid'
  BY <1>1, <1>2, <1>5, <1>6, ClientSaidKept
<1>8. h # <<>> /\ h[1] = Message(WELCOME, Greeting)
  <2>1. CASE pc["server"] = "hello"
    <3>1. s = <<>>
      BY <1>1, <2>1 DEF ServerSaid
    <3>2. h = <<m>>
      BY <3>1
    <3> QED
      BY <2>1, <3>2
  <2>2. CASE pc["server"] = "recv"
    <3>1. s # <<>> /\ s[1] = Message(WELCOME, Greeting)
      BY <1>1, <2>2 DEF ServerSaid
    <3> HIDE DEF s
    <3>2. Len(s) \in Nat \ {0} /\ Len(<<>>) = 0
      BY <1>6, <3>1, EmptySeq
    <3>3. Len(h) = Len(s) + 1 /\ \A k \in 1..Len(s) : h[k] = s[k]
      BY <1>6, AppendElements
    <3> HIDE DEF h
    <3>4. 1 \in 1..Len(s) /\ Len(h) # 0
      BY <3>2, <3>3
    <3>5. h[1] = s[1]
      BY <3>3, <3>4
    <3> QED
      BY <3>1, <3>2, <3>4, <3>5
  <2> QED
    BY <2>1, <2>2
<1>9. ServerSaid'
  BY <1>5, <1>6, <1>8 DEF ServerSaid
<1> QED
  BY <1>1, <1>2, <1>4, <1>7, <1>9 DEF IInv, InputTypes

\* The server takes the connection and waits for the HELLO.
LEMMA AcceptStep ==
  ASSUME IInv, Accept
  PROVE  IInv' /\ LinkStep
<1>1. /\ pc["server"] = "accept" /\ Receiving("server", "hello")
      /\ UNCHANGED <<wire, isOpen, got, stdinReady, inputVars>>
  BY DEF Accept
<1>2. todo["server"] = <<>> /\ ~ InRecv("server")
  BY <1>1, Resting DEF IInv, Sends, Receives
<1> QED
  BY <1>1, <1>2, ServerReceives

\* The HELLO is answered by a WELCOME, anything else by leaving.
LEMMA RecvHelloStep ==
  ASSUME IInv, RecvHello
  PROVE  IInv' /\ LinkStep
<1>1. /\ pc["server"] = "hello" /\ UNCHANGED <<wire, isOpen, got, stdinReady, inputVars>>
      /\ Received("server") \/ RecvFailed("server")
      /\ Sending("server", Message(WELCOME, Greeting), "send") \/ Leave("server")
  BY DEF RecvHello
<1>2. ~ InRecv("server") /\ Message(WELCOME, Greeting) \in Messages
  BY <1>1, Resting, WhatIsSent DEF IInv
<1> QED
  BY <1>1, <1>2, ServerSends, ServerLeaves

\* When its message is gone the server waits for the next.
LEMMA ServerSentStep ==
  ASSUME IInv, ServerSent
  PROVE  IInv' /\ LinkStep
<1>1. /\ pc["server"] = "send" /\ todo["server"] = <<>> /\ Receiving("server", "recv")
      /\ UNCHANGED <<wire, isOpen, got, stdinReady, inputVars>>
  BY DEF ServerSent
<1>2. ~ InRecv("server")
  BY <1>1, Resting DEF IInv, Receives
<1> QED
  BY <1>1, <1>2, ServerReceives

\* The server answers a PING, leaves on a BYE, and goes on otherwise.
LEMMA RecvMessageStep ==
  ASSUME IInv, RecvMessage
  PROVE  IInv' /\ LinkStep
<1>1. /\ pc["server"] = "recv" /\ UNCHANGED <<wire, isOpen, got, stdinReady, inputVars>>
      /\ Received("server") \/ RecvFailed("server")
      /\ \/ Sending("server", Message(PONG, <<>>), "send")
         \/ Leave("server")
         \/ Receiving("server", "recv")
  BY DEF RecvMessage
<1>2. ~ InRecv("server") /\ Message(PONG, <<>>) \in Messages /\ todo["server"] = <<>>
  BY <1>1, Resting, WhatIsSent DEF IInv, Sends
<1> QED
  BY <1>1, <1>2, ServerSends, ServerLeaves, ServerReceives

\* The user types a line.
LEMMA TypeLineStep ==
  ASSUME IInv, TypeLine
  PROVE  IInv' /\ LinkStep
<1>1. StreamInv /\ Roles /\ InputTypes /\ ClientSaid /\ ServerSaid
  BY DEF IInv
<1>2. /\ UNCHANGED streamVars /\ UNCHANGED <<pc, stdinReady, eof, taken, used>>
      /\ UNCHANGED <<todo, rx, isOpen, sent, got>>
  BY DEF TypeLine, streamVars
<1>3. PICK line \in Lines : typed' = Append(typed, line)
  BY DEF TypeLine
<1>4. typed \in Seq(Lines) /\ Len(typed) \in Nat /\ taken \in 0..Len(typed) /\ used \in 0..taken
  BY <1>1 DEF InputTypes
<1>5. typed' \in Seq(Lines) /\ Len(typed') = Len(typed) + 1
      /\ \A k \in 1..Len(typed) : typed'[k] = typed[k]
  BY <1>3, <1>4, AppendElements
<1>6. InputTypes'
  BY <1>1, <1>2, <1>4, <1>5 DEF InputTypes
<1>7. StreamInv' /\ Roles' /\ ServerSaid' /\ LinkStep
  <2>1. StreamInv' /\ LinkStep
    BY <1>1, <1>2, StreamSame, LinkSame
  <2>2. Roles'
    BY <1>1, <1>2 DEF Roles, Role, InRecv
  <2> QED
    BY <1>1, <1>2, <2>1, <2>2 DEF ServerSaid
<1>8. ClientSaid'
  <2>1. \A k \in 2..Len(sent["client"]) : k - 1 <= used /\ sent["client"][k] = typed'[k - 1]
    <3> TAKE k \in 2..Len(sent["client"])
    <3>1. k - 1 <= used /\ sent["client"][k] = typed[k - 1]
      BY <1>1 DEF ClientSaid
    <3>2. k \in Nat /\ k >= 2
      <4>1. Len(sent["client"]) \in Nat
        BY <1>1, EndTypes DEF StreamInv
      <4> QED
        BY <4>1
    <3>3. k - 1 \in 1..Len(typed)
      BY <1>4, <3>1, <3>2
    <3> QED
      BY <1>5, <3>1, <3>3
  <2> QED
    BY <1>1, <1>2, <2>1 DEF ClientSaid
<1> QED
  BY <1>6, <1>7, <1>8 DEF IInv

\* The input ends, or nothing happens.
LEMMA NoStep ==
  ASSUME IInv, UNCHANGED streamVars, UNCHANGED <<pc, stdinReady, typed, taken, used>>,
         eof' \in BOOLEAN
  PROVE  IInv' /\ LinkStep
<1>1. StreamInv /\ Roles /\ InputTypes /\ ClientSaid /\ ServerSaid
  BY DEF IInv
<1>2. UNCHANGED <<todo, rx, isOpen, sent, got>>
  BY DEF streamVars
<1>3. StreamInv' /\ LinkStep
  BY <1>1, <1>2, StreamSame, LinkSame
<1>4. Roles'
  BY <1>1, <1>2 DEF Roles, Role, InRecv
<1>5. ClientSaid' /\ ServerSaid' /\ InputTypes'
  BY <1>1, <1>2 DEF ClientSaid, ServerSaid, InputTypes
<1> QED
  BY <1>3, <1>4, <1>5 DEF IInv

\* The invariant holds at the start, and the link is in its initial state.
LEMMA InitIInv ==
  Init => IInv /\ Link!Init
<1> SUFFICES ASSUME Init
             PROVE  IInv /\ Link!Init
  OBVIOUS
<1>1. /\ StreamInit /\ pc = [client |-> "connect", server |-> "accept"]
      /\ stdinReady = FALSE /\ typed = <<>> /\ eof = FALSE /\ taken = 0 /\ used = 0
  BY DEF Init
<1>2. /\ \A e \in Ends : /\ todo[e] = <<>> /\ rx[e] = Idle /\ e \in isOpen
                         /\ sent[e] = <<>> /\ got[e] = <<>>
      /\ sent = [e \in Ends |-> <<>>] /\ got = [e \in Ends |-> <<>>]
  BY <1>1 DEF StreamInit
<1>3. StreamInv
  BY <1>1, InitStream
<1>4. Roles
  <2>1. pc["client"] = "connect" /\ pc["server"] = "accept" /\ pc = [e \in Ends |-> pc[e]]
    BY <1>1
  <2>2. Idle.stage = "idle"
    BY DEF Idle
  <2>3. \A e \in Ends : Role(e)
    BY <1>2, <2>1, <2>2 DEF Role, StagesOf, InRecv
  <2> QED
    BY <2>1, <2>3 DEF Roles
<1>5. InputTypes
  <2>1. typed \in Seq(Lines) /\ Len(typed) = 0
    BY <1>1, EmptySeq
  <2>2. taken \in 0..Len(typed) /\ used \in 0..taken
    BY <1>1, <2>1
  <2>3. stdinReady \in BOOLEAN /\ eof \in BOOLEAN
    BY <1>1
  <2> QED
    BY <2>1, <2>2, <2>3 DEF InputTypes
<1>6. ClientSaid /\ ServerSaid
  <2>1. sent["client"] = <<>> /\ sent["server"] = <<>> /\ used = 0 /\ Len(<<>>) = 0
        /\ pc["client"] = "connect" /\ pc["server"] = "accept"
    BY <1>1, <1>2, EmptySeq
  <2> QED
    BY <2>1 DEF ClientSaid, ServerSaid, Talking
<1>7. Link!Init
  BY <1>2 DEF Link!Init
<1> QED
  BY <1>3, <1>4, <1>5, <1>6, <1>7 DEF IInv

\* Every step keeps the invariant and is one of the link.
LEMMA StepIInv ==
  IInv /\ [Next]_vars => IInv' /\ LinkStep
<1> SUFFICES ASSUME IInv, [Next]_vars
             PROVE  IInv' /\ LinkStep
  OBVIOUS
<1>1. CASE ClientStep
  <2>1. CASE Transfer("client")
    BY <2>1, TransferStep
  <2>2. CASE Connect
    BY <2>2, ConnectStep
  <2>3. CASE ClientSent
    BY <2>3, ClientSentStep
  <2>4. CASE RecvWelcome
    BY <2>4, RecvWelcomeStep
  <2>5. CASE Select
    BY <2>5, SelectStep
  <2>6. CASE Incoming
    BY <2>6, IncomingStep
  <2>7. CASE HandleLine
    BY <2>7, HandleLineStep
  <2>8. CASE CloseEnd("client")
    BY <2>8, EndStep DEF CloseEnd
  <2> QED
    BY <1>1, <2>1, <2>2, <2>3, <2>4, <2>5, <2>6, <2>7, <2>8 DEF ClientStep
<1>2. CASE ServerStep
  <2>1. CASE Transfer("server")
    BY <2>1, TransferStep
  <2>2. CASE Accept
    BY <2>2, AcceptStep
  <2>3. CASE RecvHello
    BY <2>3, RecvHelloStep
  <2>4. CASE ServerSent
    BY <2>4, ServerSentStep
  <2>5. CASE RecvMessage
    BY <2>5, RecvMessageStep
  <2>6. CASE CloseEnd("server")
    BY <2>6, EndStep DEF CloseEnd
  <2> QED
    BY <1>2, <2>1, <2>2, <2>3, <2>4, <2>5, <2>6 DEF ServerStep
<1>3. CASE TypeLine
  BY <1>3, TypeLineStep
<1>4. CASE EndInput
  <2>1. UNCHANGED streamVars /\ UNCHANGED <<pc, stdinReady, typed, taken, used>> /\ eof' \in BOOLEAN
    BY <1>4 DEF EndInput
  <2> QED
    BY <2>1, NoStep
<1>5. CASE \E e \in Ends : Kill(e)
  <2>1. PICK e \in Ends : Kill(e)
    BY <1>5
  <2> QED
    BY <2>1, EndStep DEF Kill
<1>6. CASE UNCHANGED vars
  <2>1. UNCHANGED streamVars /\ UNCHANGED <<pc, stdinReady, typed, taken, used>>
    BY <1>6 DEF vars, inputVars
  <2>2. eof' \in BOOLEAN
    BY <1>6 DEF vars, inputVars, IInv, InputTypes
  <2> QED
    BY <2>1, <2>2, NoStep
<1> QED
  BY <1>1, <1>2, <1>3, <1>4, <1>5, <1>6 DEF Next

-----------------------------------------------------------------------------
(* What follows. *)

\* The inductive invariant holds in every state of every behaviour of the two processes.
THEOREM Invariance == Spec => []IInv
<1>1. Init => IInv
  BY InitIInv
<1>2. IInv /\ [Next]_vars => IInv'
  BY StepIInv
<1> QED
  BY <1>1, <1>2, PTL DEF Spec

\* Every variable has its type, a process that sends has said what, a recvMessage() never
\* holds more than it has asked for, and an end that is closed sends and receives nothing.
THEOREM TypeCorrect == Spec => []TypeOK
<1>1. IInv => TypeOK
  <2> SUFFICES ASSUME IInv
               PROVE  TypeOK
    OBVIOUS
  <2>1. StreamTypes /\ Roles /\ InputTypes
    BY DEF IInv, StreamInv
  <2>2. pc \in [Ends -> {"connect", "accept", "hello", "welcome", "select", "incoming", "line",
                         "send", "bye", "recv", "end", "closed", "killed"}]
    BY <2>1 DEF Roles, Role, StagesOf
  <2>3. ASSUME NEW e \in Ends
        PROVE  /\ sent[e] \in Seq(Messages) /\ got[e] \in Seq(Messages)
               /\ todo[e] \in Seq(Nat) /\ wire[e] \in Seq(Nat) /\ Len(wire[e]) <= WireCap
               /\ InRecv(e) => Len(rx[e].buf) < rx[e].need
               /\ e \notin isOpen <=> pc[e] \in {"closed", "killed"}
               /\ e \notin isOpen => todo[e] = <<>> /\ rx[e] = Idle
    <3>1. /\ todo[e] \in Seq(Octet) /\ wire[e] \in Seq(Octet) /\ rx[e] \in Receivers
          /\ sent[e] \in Seq(Messages) /\ got[e] \in Seq(Messages) /\ Len(wire[e]) <= WireCap
          /\ e \notin isOpen => todo[e] = <<>> /\ rx[e] = Idle
      BY <2>1 DEF StreamTypes
    <3>2. InRecv(e) => Len(rx[e].buf) < rx[e].need
      BY <3>1, Stages DEF InRecv, InProgress
    <3>3. e \notin isOpen <=> pc[e] \in {"closed", "killed"}
      BY <2>1 DEF Roles, Role
    <3> QED
      BY <3>1, <3>2, <3>3 DEF Octet
  <2> QED
    BY <2>1, <2>2, <2>3 DEF TypeOK, InputTypes, StreamTypes
<1> QED
  BY <1>1, Invariance, PTL

\* Neither end takes the bytes of the other one for a breach of the protocol, however
\* recv() cuts them up: a length is never out of range, and HELLO and WELCOME come first.
THEOREM ProtocolKept == Spec => []NoProtocolError
<1>1. IInv => NoProtocolError
  <2> SUFFICES ASSUME IInv
               PROVE  NoProtocolError
    OBVIOUS
  <2>1. StreamTypes /\ ClientSaid /\ ServerSaid /\ \A e \in Ends : InOrder(e)
    BY DEF IInv, StreamInv
  <2>2. \A e \in Ends : rx[e].stage # "error"
    BY <2>1, Stages DEF StreamTypes
  <2>3. ASSUME NEW e \in Ends, got[e] # <<>>
        PROVE  sent[e] # <<>> /\ got[e][1] = sent[e][1]
    <3>1. /\ Len(got[e]) \in Nat \ {0} /\ Len(sent[e]) \in Nat /\ Len(<<>>) = 0
          /\ Len(got[e]) <= Len(sent[e])
      <4>1. got[e] \in Seq(Messages) /\ Len(sent[e]) \in Nat
        BY <2>1, EndTypes
      <4>2. Len(got[e]) \in Nat \ {0} /\ Len(<<>>) = 0
        BY <2>3, <4>1, EmptySeq
      <4> QED
        BY <2>1, <4>1, <4>2 DEF InOrder
    <3>2. 1 \in 1..Len(got[e]) /\ Len(sent[e]) # 0
      BY <3>1
    <3>3. got[e][1] = sent[e][1]
      BY <2>1, <3>2 DEF InOrder
    <3> QED
      BY <3>1, <3>2, <3>3
  <2>4. got["client"] # <<>> => got["client"][1].type = HELLO
    BY <2>1, <2>3 DEF ClientSaid, Message
  <2>5. got["server"] # <<>> => got["server"][1].type = WELCOME
    BY <2>1, <2>3 DEF ServerSaid, Message
  <2> QED
    BY <2>2, <2>4, <2>5 DEF NoProtocolError
<1> QED
  BY <1>1, Invariance, PTL

\* What the server prints is what the user typed, from the first line on and with no line
\* left out, whatever getline() has read ahead and whichever process dies.
THEOREM PrintedInOrder == Spec => []PrintedIsPrefix
<1>1. IInv => PrintedIsPrefix
  <2> SUFFICES ASSUME IInv
               PROVE  PrintedIsPrefix
    OBVIOUS
  <2> DEFINE g == got["client"]  s == sent["client"]
  <2>1. StreamTypes /\ ClientSaid /\ InputTypes /\ InOrder("client")
    BY DEF IInv, StreamInv
  <2>2. g \in Seq(Messages) /\ s \in Seq(Messages) /\ Len(g) \in Nat /\ Len(s) \in Nat
    BY <2>1, EndTypes
  <2>3. typed \in Seq(Lines) /\ Len(typed) \in Nat /\ taken \in 0..Len(typed) /\ used \in 0..taken
        /\ DOMAIN typed = 1..Len(typed)
    BY <2>1, LenProperties DEF InputTypes
  <2>4. Len(g) <= Len(s) /\ \A k \in 1..Len(g) : g[k] = s[k]
    BY <2>1 DEF InOrder
  <2>5. \A k \in 2..Len(s) : k - 1 <= used /\ s[k] = typed[k - 1]
    BY <2>1 DEF ClientSaid
  <2>6. DOMAIN g = 1..Len(g)
    BY <2>2, LenProperties
  <2> HIDE DEF g, s
  <2>7. ASSUME NEW k \in DOMAIN g \ {1}
        PROVE  k - 1 \in DOMAIN typed /\ g[k] = typed[k - 1]
    <3>1. k \in 1..Len(g) /\ k \in 2..Len(s)
      BY <2>2, <2>4, <2>6
    <3>2. k - 1 <= used /\ s[k] = typed[k - 1] /\ g[k] = s[k]
      BY <2>4, <2>5, <3>1
    <3>3. k - 1 \in 1..Len(typed)
      BY <2>2, <2>3, <3>1, <3>2
    <3> QED
      BY <2>3, <3>2, <3>3
  <2> QED
    BY <2>7 DEF PrintedIsPrefix, g
<1> QED
  BY <1>1, Invariance, PTL

\* sendMessage() and recvMessage() over one connection implement the link: however the
\* bytes are cut up, messages arrive whole, in order, once, and nothing else does.
THEOREM LinkImplemented == Spec => ImplementsLink
<1>1. Init => Link!Init
  BY InitIInv
<1>2. IInv /\ [Next]_vars => [Link!Next]_(Link!vars)
  BY StepIInv DEF LinkStep
<1> QED
  BY <1>1, <1>2, Invariance, PTL DEF Spec, ImplementsLink, Link!Spec

=============================================================================
