------------------------------ MODULE WireFormat ------------------------------
(***************************************************************************)
(* The texts that go through the DHT: the payload of an inbox value        *)
(* (P2PNode::sendPacket builds it, ParseDhtMessagePayload and              *)
(* ParseSecureBody take it apart) and the profile.                         *)
(*                                                                         *)
(* A text is a sequence of symbols. What is separated by nothing the       *)
(* parsers look for is one symbol: a letter of an ID, a message ID, a      *)
(* base64 text, a number.                                                  *)
(***************************************************************************)
EXTENDS Integers, Sequences, FiniteSets

US        == <<"US">>             \* kDhtFieldSep
Pipe      == <<"|">>
Colon     == <<":">>
Blank     == <<" ">>
Block(x)  == <<"block", x>>
Number(n) == <<"number", n>>

Places(s, x) == {i \in DOMAIN s : s[i] = x}

Least(S)    == CHOOSE i \in S : \A j \in S : i <= j
Greatest(S) == CHOOSE i \in S : \A j \in S : i >= j

\* The n-th of a set of places.
Nth(S, n) == CHOOSE i \in S : Cardinality({j \in S : j <= i}) = n

\* White space at both ends goes.
Trim(s) ==
  LET kept == DOMAIN s \ Places(s, Blank)
  IN  IF kept = {} THEN <<>> ELSE SubSeq(s, Least(kept), Greatest(kept))

-----------------------------------------------------------------------------
(* Building.                                                                 *)

SecureBody(messageId, nonce, timestamp, ciphertext) ==
  <<Block(messageId), Pipe, nonce, Pipe, Number(timestamp), Pipe, ciphertext>>

FullPayload(id, body) == id \o <<US>> \o body

\* displayName|tcpEndpoint|key: AppController::start makes the name of the ID.
ProfilePayload(id, key) ==
  id \o <<Pipe, Block("127.0.0.1"), Colon, Number(4222), Pipe>> \o <<Block(key)>>

-----------------------------------------------------------------------------
(* Taking apart.                                                             *)

\* Mutant: the legacy separator is looked for first.
ParseLegacyFirst(payload) ==
  LET seps == IF Places(payload, Colon) # {} THEN Places(payload, Colon)
                                             ELSE Places(payload, US)
  IN  IF seps = {} THEN [sender |-> <<>>, body |-> <<>>]
      ELSE [sender |-> Trim(SubSeq(payload, 1, Least(seps) - 1)),
            body   |-> SubSeq(payload, Least(seps) + 1, Len(payload))]

\* The header ends at the first unit separator, or, as in Sprint 2, at the first
\* colon. An empty sender means that the payload is refused.
ParseDhtMessagePayload(payload) ==
  LET seps == IF Places(payload, US) # {} THEN Places(payload, US)
                                          ELSE Places(payload, Colon)
  IN  IF seps = {} THEN [sender |-> <<>>, body |-> <<>>]
      ELSE [sender |-> Trim(SubSeq(payload, 1, Least(seps) - 1)),
            body   |-> SubSeq(payload, Least(seps) + 1, Len(payload))]

Refused == [messageId |-> <<>>]

\* std::getline: a last part that is empty is no part.
Ends(body) ==
  Places(body, Pipe) \cup
    IF body = <<>> \/ body[Len(body)] = Pipe THEN {} ELSE {Len(body) + 1}

\* What the n-th std::getline reads.
Part(body, n) ==
  SubSeq(body, IF n = 1 THEN 1 ELSE Nth(Ends(body), n - 1) + 1, Nth(Ends(body), n) - 1)

\* Four parts, the third a number (std::stoll reads as much of it as is one); the
\* ciphertext gets the further parts back.
ParseSecureBody(body) ==
  IF Cardinality(Ends(body)) < 4 THEN Refused
  ELSE LET digits == Trim(Part(body, 3))
       IN  IF digits = <<>> \/ digits[1][1] # "number" THEN Refused
           ELSE [messageId  |-> Part(body, 1),
                 nonce      |-> Part(body, 2),
                 timestamp  |-> digits[1][2],
                 ciphertext |-> SubSeq(body, Nth(Ends(body), 3) + 1, Greatest(Ends(body)) - 1)]

\* The key of a profile is what follows the last '|'.
KeyOfProfile(payload) ==
  IF Places(payload, Pipe) = {} THEN <<>>
  ELSE SubSeq(payload, Greatest(Places(payload, Pipe)) + 1, Len(payload))
=============================================================================
