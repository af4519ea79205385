------------------------------ MODULE WireProofs ------------------------------
(***************************************************************************)
(* Whatever an ID is made of, as long as it holds no unit separator and no *)
(* white space at its ends: the listener reads back what the sender put,   *)
(* and finds the sender's key.                                             *)
(***************************************************************************)
EXTENDS MessengerWire, MessengerProofs, SequenceTheorems, FiniteSetTheorems, TLAPS

LEMMA LeastIs ==
  ASSUME NEW S \in SUBSET Int, NEW i \in S, \A j \in S : i <= j
  PROVE  Least(S) = i
<1>1. \A k \in S : (\A j \in S : k <= j) => k = i
  OBVIOUS
<1> QED
  BY <1>1 DEF Least

LEMMA GreatestIs ==
  ASSUME NEW S \in SUBSET Int, NEW i \in S, \A j \in S : i >= j
  PROVE  Greatest(S) = i
<1>1. \A k \in S : (\A j \in S : k >= j) => k = i
  OBVIOUS
<1> QED
  BY <1>1 DEF Greatest

\* What separates is none of what is separated.
LEMMA Symbols ==
  /\ US # Pipe /\ US # Colon /\ Pipe # Colon
  /\ \A x : Block(x) # US /\ Block(x) # Pipe /\ Block(x) # Blank
  /\ \A x : Number(x) # US /\ Number(x) # Pipe /\ Number(x) # Blank
BY DEF US, Pipe, Colon, Blank, Block, Number

-----------------------------------------------------------------------------
(* The header.                                                               *)

LEMMA HeaderIsRead ==
  ASSUME NEW S, NEW id \in Seq(S), NEW body \in Seq(S), US \in S,
         id # <<>>, Trim(id) = id, Places(id, US) = {}
  PROVE  /\ ParseDhtMessagePayload(FullPayload(id, body)).sender = id
         /\ ParseDhtMessagePayload(FullPayload(id, body)).body = body
<1> DEFINE p == FullPayload(id, body)
           n == Len(id)
<1>1. /\ n \in Nat /\ Len(body) \in Nat
      /\ DOMAIN id = 1..n /\ DOMAIN body = 1..Len(body)
      /\ \A i \in 1..n : id[i] \in S
      /\ \A i \in 1..Len(body) : body[i] \in S
  BY LenProperties, ElementOfSeq
<1>2. /\ <<US>> \in Seq(S) /\ Len(<<US>>) = 1 /\ <<US>>[1] = US
  OBVIOUS
<1>3. /\ id \o <<US>> \in Seq(S) /\ Len(id \o <<US>>) = n + 1
      /\ \A i \in 1..n : (id \o <<US>>)[i] = id[i]
      /\ (id \o <<US>>)[n + 1] = US
  <2> HIDE DEF n
  <2>1. /\ id \o <<US>> \in Seq(S)
        /\ Len(id \o <<US>>) = Len(id) + Len(<<US>>)
        /\ \A i \in 1..Len(id) + Len(<<US>>) : (id \o <<US>>)[i] =
             IF i <= Len(id) THEN id[i] ELSE <<US>>[i - Len(id)]
    BY <1>2, ConcatProperties
  <2> QED
    BY <1>1, <1>2, <2>1 DEF n
<1>4. /\ p \in Seq(S) /\ Len(p) = n + 1 + Len(body) /\ DOMAIN p = 1..(n + 1 + Len(body))
      /\ \A i \in 1..n : p[i] = id[i]
      /\ p[n + 1] = US
      /\ \A i \in 1..Len(body) : p[n + 1 + i] = body[i]
  <2>1. /\ p \in Seq(S)
        /\ Len(p) = Len(id \o <<US>>) + Len(body)
        /\ \A i \in 1..Len(id \o <<US>>) + Len(body) : p[i] =
             IF i <= Len(id \o <<US>>) THEN (id \o <<US>>)[i]
                                       ELSE body[i - Len(id \o <<US>>)]
    BY <1>3, ConcatProperties DEF FullPayload
  <2>2. DOMAIN p = 1..Len(p)
    BY <2>1, LenProperties
  <2> HIDE DEF p, n
  <2>3. Len(p) = n + 1 + Len(body)
    BY <1>3, <2>1
  <2>4. \A i \in 1..n + 1 + Len(body) : p[i] =
          IF i <= n + 1 THEN (id \o <<US>>)[i] ELSE body[i - (n + 1)]
    BY <1>3, <2>1
  <2>5. ASSUME NEW i \in 1..n
        PROVE  p[i] = id[i]
    <3>1. i \in 1..n + 1 + Len(body) /\ i <= n + 1
      BY <1>1
    <3> QED
      BY <1>3, <2>4, <3>1
  <2>6. p[n + 1] = US
    <3>1. n + 1 \in 1..n + 1 + Len(body) /\ n + 1 <= n + 1
      BY <1>1
    <3> QED
      BY <1>3, <2>4, <3>1
  <2>7. ASSUME NEW i \in 1..Len(body)
        PROVE  p[n + 1 + i] = body[i]
    <3>1. /\ n + 1 + i \in 1..n + 1 + Len(body) /\ ~(n + 1 + i <= n + 1)
          /\ n + 1 + i - (n + 1) = i
      BY <1>1
    <3> QED
      BY <1>1, <2>4, <3>1
  <2>8. \A i \in 1..Len(body) : p[n + 1 + i] = body[i]
    BY <2>7
  <2> QED
    BY <2>1, <2>2, <2>3, <2>5, <2>6, <2>8
<1> HIDE DEF p, n
<1>5. Places(p, US) # {} /\ Least(Places(p, US)) = n + 1
  <2>1. n + 1 \in Places(p, US) /\ Places(p, US) \in SUBSET Int
    BY <1>1, <1>4 DEF Places
  <2>2. \A j \in Places(p, US) : n + 1 <= j
    <3>1. \A j \in 1..n : id[j] # US
      BY <1>1 DEF Places
    <3>2. \A j \in 1..n : j \notin Places(p, US)
      BY <1>4, <3>1 DEF Places
    <3>3. Places(p, US) \subseteq 1..n + 1 + Len(body)
      BY <1>4 DEF Places
    <3> QED
      BY <1>1, <3>2, <3>3
  <2>3. Least(Places(p, US)) = n + 1
    <3> DEFINE P == Places(p, US)
               k == n + 1
    <3>1. k \in P /\ P \in SUBSET Int /\ \A j \in P : k <= j
      BY <2>1, <2>2
    <3> HIDE DEF P, k
    <3>2. Least(P) = k
      BY <3>1, LeastIs
    <3> QED
      BY <3>2 DEF P, k
  <2> QED
    BY <2>1, <2>3
<1>6. SubSeq(p, 1, n) = id
  <2>1. \A i \in 1..n : p[i] \in S
    BY <1>1, <1>4
  <2>2. /\ SubSeq(p, 1, n) \in Seq(S)
        /\ Len(SubSeq(p, 1, n)) = IF 1 <= n THEN n - 1 + 1 ELSE 0
        /\ \A i \in 1..n - 1 + 1 : SubSeq(p, 1, n)[i] = p[1 + i - 1]
    BY <1>1, <2>1, SubSeqProperties
  <2>3. Len(SubSeq(p, 1, n)) = n /\ \A i \in 1..n : SubSeq(p, 1, n)[i] = id[i]
    BY <1>1, <1>4, <2>2
  <2> QED
    BY <2>2, <2>3, SeqEqual DEF n
<1>7. SubSeq(p, n + 2, Len(p)) = body
  <2>1. \A i \in n + 2..Len(p) : p[i] \in S
    BY <1>1, <1>4, LenProperties, ElementOfSeq
  <2>2. /\ SubSeq(p, n + 2, Len(p)) \in Seq(S)
        /\ Len(SubSeq(p, n + 2, Len(p))) =
             IF n + 2 <= Len(p) THEN Len(p) - (n + 2) + 1 ELSE 0
        /\ \A i \in 1..Len(p) - (n + 2) + 1 :
             SubSeq(p, n + 2, Len(p))[i] = p[n + 2 + i - 1]
    BY <1>1, <1>4, <2>1, SubSeqProperties
  <2>3. /\ Len(SubSeq(p, n + 2, Len(p))) = Len(body)
        /\ \A i \in 1..Len(body) : SubSeq(p, n + 2, Len(p))[i] = body[i]
    BY <1>1, <1>4, <2>2
  <2> QED
    BY <2>2, <2>3, SeqEqual
<1>8. Least(Places(p, US)) - 1 = n /\ Least(Places(p, US)) + 1 = n + 2
  BY <1>1, <1>5
<1>9. ParseDhtMessagePayload(p) = [sender |-> Trim(id), body |-> body]
  BY <1>5, <1>6, <1>7, <1>8, Zenon DEF ParseDhtMessagePayload
<1>10. /\ ParseDhtMessagePayload(p).sender = id
       /\ ParseDhtMessagePayload(p).body = body
  BY <1>9
<1> QED
  BY <1>10 DEF p

-----------------------------------------------------------------------------
(* The body.                                                                 *)

LEMMA FourEnds ==
  LET E == {2, 4, 6, 8} IN
  /\ Cardinality(E) = 4
  /\ Nth(E, 1) = 2 /\ Nth(E, 2) = 4 /\ Nth(E, 3) = 6
  /\ Greatest(E) = 8
<1> DEFINE E == {2, 4, 6, 8}
           Upto(i) == {j \in E : j <= i}
<1>1. Upto(2) = {2} /\ Upto(4) = {2} \cup {4} /\ Upto(6) = Upto(4) \cup {6}
      /\ Upto(8) = Upto(6) \cup {8} /\ E = Upto(8)
      /\ 4 \notin {2} /\ 6 \notin Upto(4) /\ 8 \notin Upto(6)
  OBVIOUS
<1> HIDE DEF Upto
<1>2. IsFiniteSet({2}) /\ Cardinality({2}) = 1
  BY FS_Singleton
<1>3. IsFiniteSet(Upto(2)) /\ Cardinality(Upto(2)) = 1
  BY <1>1, <1>2
<1>4. IsFiniteSet(Upto(4)) /\ Cardinality(Upto(4)) = 2
  BY <1>1, <1>2, FS_AddElement
<1>5. IsFiniteSet(Upto(6)) /\ Cardinality(Upto(6)) = 3
  BY <1>1, <1>4, FS_AddElement
<1>6. IsFiniteSet(Upto(8)) /\ Cardinality(Upto(8)) = 4
  BY <1>1, <1>5, FS_AddElement
<1>7. \A n : Nth(E, n) = CHOOSE i \in E : Cardinality(Upto(i)) = n
  BY DEF Nth, Upto
<1>8. Nth(E, 1) = 2 /\ Nth(E, 2) = 4 /\ Nth(E, 3) = 6
  BY <1>3, <1>4, <1>5, <1>6, <1>7
<1>9. Greatest(E) = 8
  BY GreatestIs
<1> QED
  BY <1>1, <1>6, <1>8, <1>9

LEMMA OneSymbol ==
  ASSUME NEW S, NEW s \in Seq(S), NEW i \in 1..Len(s)
  PROVE  SubSeq(s, i, i) = <<s[i]>>
<1>1. Len(s) \in Nat /\ s[i] \in S /\ \A j \in i..i : s[j] \in S
  BY LenProperties, ElementOfSeq
<1>2. /\ SubSeq(s, i, i) \in Seq(S)
      /\ Len(SubSeq(s, i, i)) = IF i <= i THEN i - i + 1 ELSE 0
      /\ \A j \in 1..i - i + 1 : SubSeq(s, i, i)[j] = s[i + j - 1]
  BY <1>1, SubSeqProperties
<1>3. Len(SubSeq(s, i, i)) = 1 /\ SubSeq(s, i, i)[1] = s[i]
  <2>1. i - i + 1 = 1 /\ i <= i /\ i + 1 - 1 = i
    BY <1>1
  <2> QED
    BY <1>1, <1>2, <2>1
<1>4. <<s[i]>> \in Seq(S) /\ Len(<<s[i]>>) = 1 /\ <<s[i]>>[1] = s[i]
  BY <1>1
<1>5. \A j \in 1..Len(SubSeq(s, i, i)) : SubSeq(s, i, i)[j] = <<s[i]>>[j]
  BY <1>3, <1>4
<1>6. Len(SubSeq(s, i, i)) = Len(<<s[i]>>)
  BY <1>3, <1>4
<1> QED
  BY <1>2, <1>4, <1>5, <1>6, SeqEqual

LEMMA BodyIsRead ==
  ASSUME NEW m, NEW nonce, NEW ts, NEW box, nonce # Pipe, box # Pipe
  PROVE  ParseSecureBody(SecureBody(m, nonce, ts, box)) =
           [messageId |-> <<Block(m)>>, nonce |-> <<nonce>>,
            timestamp |-> ts, ciphertext |-> <<box>>]
<1> DEFINE b == SecureBody(m, nonce, ts, box)
<1>1. /\ Len(b) = 7 /\ DOMAIN b = 1..7
      /\ b[1] = Block(m) /\ b[2] = Pipe /\ b[3] = nonce /\ b[4] = Pipe
      /\ b[5] = Number(ts) /\ b[6] = Pipe /\ b[7] = box
  BY DEF SecureBody
<1>2. \A i \in 1..7 : SubSeq(b, i, i) = <<b[i]>>
  <2> DEFINE T == {b[i] : i \in 1..7}
  <2>1. b \in Seq(T)
    BY <1>1 DEF SecureBody
  <2> HIDE DEF b, T
  <2> QED
    BY <1>1, <2>1, OneSymbol
<1> HIDE DEF b
<1>3. Places(b, Pipe) = {2, 4, 6}
  BY <1>1, Symbols DEF Places
<1>4. Ends(b) = {2, 4, 6, 8}
  <2>1. b # <<>> /\ b[Len(b)] # Pipe
    BY <1>1
  <2> QED
    BY <1>1, <1>3, <2>1 DEF Ends
<1>5. /\ Cardinality(Ends(b)) = 4 /\ Greatest(Ends(b)) = 8
      /\ Nth(Ends(b), 1) = 2 /\ Nth(Ends(b), 2) = 4 /\ Nth(Ends(b), 3) = 6
  BY <1>4, FourEnds
<1>6. /\ Part(b, 1) = <<Block(m)>> /\ Part(b, 2) = <<nonce>>
      /\ Part(b, 3) = <<Number(ts)>>
  BY <1>1, <1>2, <1>5 DEF Part
<1>7. SubSeq(b, 6 + 1, 8 - 1) = <<box>>
  BY <1>1, <1>2
<1>8. Trim(<<Number(ts)>>) = <<Number(ts)>>
  <2> DEFINE t == <<Number(ts)>>
  <2>1. DOMAIN t = {1} /\ t[1] = Number(ts)
    OBVIOUS
  <2>2. DOMAIN t \ Places(t, Blank) = {1}
    BY <2>1, Symbols DEF Places
  <2>3. Least({1}) = 1 /\ Greatest({1}) = 1
    BY LeastIs, GreatestIs
  <2>4. SubSeq(t, 1, 1) = t
    <3>1. t \in Seq({Number(ts)}) /\ 1 \in 1..Len(t)
      OBVIOUS
    <3> QED
      BY <2>1, <3>1, OneSymbol
  <2> HIDE DEF t
  <2>5. Trim(t) = t
    BY <2>2, <2>3, <2>4 DEF Trim
  <2> QED
    BY <2>5 DEF t
<1>9. /\ <<Number(ts)>> # <<>> /\ <<Number(ts)>>[1] = Number(ts)
      /\ Number(ts)[1] = "number" /\ Number(ts)[2] = ts
  BY DEF Number
<1>10. ParseSecureBody(b) =
         [messageId |-> <<Block(m)>>, nonce |-> <<nonce>>,
          timestamp |-> ts, ciphertext |-> <<box>>]
  <2>1. ~(Cardinality(Ends(b)) < 4) /\ Trim(Part(b, 3)) = <<Number(ts)>>
    BY <1>5, <1>6, <1>8
  <2>2. SubSeq(b, Nth(Ends(b), 3) + 1, Greatest(Ends(b)) - 1) = <<box>>
    BY <1>5, <1>7
  <2> QED
    BY <1>6, <1>9, <2>1, <2>2, Zenon DEF ParseSecureBody
<1> QED
  BY <1>10 DEF b

-----------------------------------------------------------------------------
(* The profile.                                                              *)

LEMMA ProfileIsRead ==
  ASSUME NEW S, NEW id \in Seq(S), NEW key
  PROVE  KeyOfProfile(ProfilePayload(id, key)) = <<Block(key)>>
<1> DEFINE middle == <<Pipe, Block("127.0.0.1"), Colon, Number(4222), Pipe>>
           last == <<Block(key)>>
           T == S \cup {Pipe, Block("127.0.0.1"), Colon, Number(4222), Block(key)}
           n == Len(id)
           p == ProfilePayload(id, key)
<1>1. middle \in Seq(T) /\ Len(middle) = 5 /\ middle[5] = Pipe
  OBVIOUS
<1>2. last \in Seq(T) /\ Len(last) = 1 /\ last[1] = Block(key)
  OBVIOUS
<1>3. p = id \o middle \o last
  BY DEF ProfilePayload
<1>4. id \in Seq(T) /\ n \in Nat
  <2>1. S \subseteq T
    OBVIOUS
  <2> HIDE DEF T
  <2> QED
    BY <2>1, SeqMonotonic, LenProperties
<1> HIDE DEF middle, last, T, p, n
<1>5. /\ id \o middle \in Seq(T) /\ Len(id \o middle) = n + 5
      /\ (id \o middle)[n + 5] = Pipe
  <2>1. /\ id \o middle \in Seq(T)
        /\ Len(id \o middle) = Len(id) + Len(middle)
        /\ \A i \in 1..Len(id) + Len(middle) : (id \o middle)[i] =
             IF i <= Len(id) THEN id[i] ELSE middle[i - Len(id)]
    BY <1>1, <1>4, ConcatProperties
  <2>2. n + 5 \in 1..n + 5 /\ ~(n + 5 <= n) /\ n + 5 - n = 5
    BY <1>4
  <2>3. Len(id \o middle) = n + 5
    BY <1>1, <2>1 DEF n
  <2>4. (id \o middle)[n + 5] = middle[5]
    BY <1>1, <2>1, <2>2 DEF n
  <2> QED
    BY <1>1, <2>1, <2>3, <2>4
<1>6. /\ p \in Seq(T) /\ Len(p) = n + 6 /\ DOMAIN p = 1..n + 6
      /\ p[n + 5] = Pipe /\ p[n + 6] = Block(key)
  <2>1. /\ (id \o middle) \o last \in Seq(T)
        /\ Len((id \o middle) \o last) = Len(id \o middle) + Len(last)
        /\ \A i \in 1..Len(id \o middle) + Len(last) : ((id \o middle) \o last)[i] =
             IF i <= Len(id \o middle) THEN (id \o middle)[i]
                                      ELSE last[i - Len(id \o middle)]
    <3> DEFINE q == id \o middle
    <3>1. q \in Seq(T)
      BY <1>5
    <3> HIDE DEF q
    <3>2. /\ q \o last \in Seq(T)
          /\ Len(q \o last) = Len(q) + Len(last)
          /\ \A i \in 1..Len(q) + Len(last) : (q \o last)[i] =
               IF i <= Len(q) THEN q[i] ELSE last[i - Len(q)]
      BY <1>2, <3>1, ConcatProperties
    <3> QED
      BY <3>2 DEF q
  <2>2. /\ p \in Seq(T)
        /\ Len(p) = Len(id \o middle) + Len(last)
        /\ \A i \in 1..Len(id \o middle) + Len(last) : p[i] =
             IF i <= Len(id \o middle) THEN (id \o middle)[i]
                                      ELSE last[i - Len(id \o middle)]
    BY <1>3, <2>1, Zenon
  <2>3. DOMAIN p = 1..Len(p)
    BY <2>2, LenProperties
  <2>4. /\ n + 5 + 1 = n + 6 /\ n + 5 \in 1..n + 6 /\ n + 5 <= n + 5
        /\ n + 6 \in 1..n + 6 /\ ~(n + 6 <= n + 5) /\ n + 6 - (n + 5) = 1
    BY <1>4
  <2>5. Len(id \o middle) + Len(last) = n + 6
    BY <1>2, <1>5, <2>4
  <2>6. \A i \in 1..n + 6 : p[i] = IF i <= n + 5 THEN (id \o middle)[i]
                                               ELSE last[i - (n + 5)]
    BY <1>5, <2>2, <2>5
  <2>7. p[n + 5] = (id \o middle)[n + 5]
    BY <2>4, <2>6
  <2>8. p[n + 6] = last[1]
    BY <1>4, <2>4, <2>6
  <2> QED
    BY <1>2, <1>5, <2>2, <2>3, <2>5, <2>7, <2>8
<1>7. Places(p, Pipe) # {} /\ Greatest(Places(p, Pipe)) = n + 5
  <2>1. n + 5 \in Places(p, Pipe) /\ Places(p, Pipe) \in SUBSET Int
    BY <1>4, <1>6 DEF Places
  <2>2. n + 6 \notin Places(p, Pipe)
    BY <1>6, Symbols DEF Places
  <2>3. \A j \in Places(p, Pipe) : n + 5 >= j
    BY <1>4, <1>6, <2>2 DEF Places
  <2>4. Greatest(Places(p, Pipe)) = n + 5
    <3> DEFINE P == Places(p, Pipe)
               k == n + 5
    <3>1. k \in P /\ P \in SUBSET Int /\ \A j \in P : k >= j
      BY <2>1, <2>3
    <3> HIDE DEF P, k
    <3>2. Greatest(P) = k
      BY <3>1, GreatestIs
    <3> QED
      BY <3>2 DEF P, k
  <2> QED
    BY <2>1, <2>4
<1>8. SubSeq(p, n + 6, n + 6) = <<Block(key)>>
  <2>1. n + 6 \in 1..Len(p)
    BY <1>4, <1>6
  <2> QED
    BY <1>6, <2>1, OneSymbol
<1>9. Greatest(Places(p, Pipe)) + 1 = n + 6 /\ Len(p) = n + 6
  BY <1>4, <1>6, <1>7
<1>10. KeyOfProfile(p) = <<Block(key)>>
  BY <1>7, <1>8, <1>9, Zenon DEF KeyOfProfile
<1> QED
  BY <1>10 DEF p

-----------------------------------------------------------------------------
\* Whatever symbols but the unit separator the sender's ID is made of, the listener
\* takes every message apart as it was put together and finds the key in every profile
\* put under that ID.
THEOREM WireLosesNothing == Spec => []WireIsTransparent
<1>1. SealMatchesHeader => WireIsTransparent
  <2> SUFFICES ASSUME SealMatchesHeader, NEW m \in Messages, sent[m] # NoPacket
               PROVE  LET id   == sent[m].from
                          read == ParseDhtMessagePayload(Payload(m))
                      IN  /\ read.sender = Spelling[id]
                          /\ ParseSecureBody(read.body) =
                               [messageId |-> <<Block(m)>>, nonce |-> <<Nonce(m)>>,
                                timestamp |-> sent[m].ts, ciphertext |-> <<Ciphertext(m)>>]
                          /\ \A key \in Profile(id) :
                               KeyOfProfile(ProfilePayload(read.sender, key)) =
                                 <<Block(key)>>
    BY DEF WireIsTransparent
  <2> DEFINE id == sent[m].from
             text == Spelling[id]
             body == SecureBody(m, Nonce(m), sent[m].ts, Ciphertext(m))
             S == Range(text) \cup {US} \cup {body[i] : i \in 1..7}
  <2>1. id \in OwnIds
    BY DEF SealMatchesHeader
  <2>2. /\ text \in Seq(Range(text)) /\ text # <<>>
        /\ Trim(text) = text /\ Places(text, US) = {}
    BY <2>1, SpellingIsTrimmed
  <2>3. text \in Seq(S)
    <3>1. Range(text) \subseteq S
      OBVIOUS
    <3> HIDE DEF S, text
    <3> QED
      BY <2>2, <3>1, SeqMonotonic
  <2>4. body \in Seq(S) /\ US \in S
    BY DEF SecureBody
  <2>5. Nonce(m) # Pipe /\ Ciphertext(m) # Pipe
    BY Symbols DEF Nonce, Ciphertext
  <2>6. Payload(m) = FullPayload(text, body)
    BY DEF Payload
  <2> HIDE DEF S, text
  <2>7. /\ ParseDhtMessagePayload(Payload(m)).sender = text
        /\ ParseDhtMessagePayload(Payload(m)).body = body
    BY <2>2, <2>3, <2>4, <2>6, HeaderIsRead
  <2>8. ParseSecureBody(body) =
          [messageId |-> <<Block(m)>>, nonce |-> <<Nonce(m)>>,
           timestamp |-> sent[m].ts, ciphertext |-> <<Ciphertext(m)>>]
    BY <2>5, BodyIsRead
  <2>9. ASSUME NEW key \in Profile(id)
        PROVE  KeyOfProfile(ProfilePayload(text, key)) = <<Block(key)>>
    BY <2>3, ProfileIsRead
  <2> QED
    BY <2>7, <2>8, <2>9 DEF text
<1> QED
  BY <1>1, HeaderMatchesSeal, PTL
=============================================================================
