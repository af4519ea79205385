----------------------------- MODULE MessengerWire -----------------------------
(***************************************************************************)
(* Messenger with the texts its two processes exchange: what the listener  *)
(* and the lookup's callback make of what publishProfile and sendEncrypted *)
(* put.                                                                    *)
(***************************************************************************)
EXTENDS Messenger, WireFormat

CONSTANT Spelling   \* the text of an ID

\* P2PNode keeps IDs trimmed; nobody types a unit separator.
ASSUME SpellingIsTrimmed ==
  /\ \A id \in OwnIds : Spelling[id] \in Seq(Range(Spelling[id]))
  /\ \A id \in OwnIds : Spelling[id] # <<>> /\ Trim(Spelling[id]) = Spelling[id]
  /\ \A id \in OwnIds : Places(Spelling[id], US) = {}

\* What stands for the nonce and the box of a message, and what sendEncrypted puts.
Nonce(m)      == Block(<<"nonce", m>>)
Ciphertext(m) == Block(<<"box", m>>)

Payload(m) ==
  FullPayload(Spelling[sent[m].from],
              SecureBody(m, Nonce(m), sent[m].ts, Ciphertext(m)))

\* The listener takes every message apart as the sender put it together, and the
\* lookup finds the key in every profile under the sender's ID, although an ID may hold
\* the legacy separator, '|' and blanks, and the profile repeats it.
WireIsTransparent ==
  \A m \in Messages : sent[m] # NoPacket =>
    LET id   == sent[m].from
        read == ParseDhtMessagePayload(Payload(m))
    IN  /\ read.sender = Spelling[id]
        /\ ParseSecureBody(read.body) =
             [messageId |-> <<Block(m)>>, nonce |-> <<Nonce(m)>>,
              timestamp |-> sent[m].ts, ciphertext |-> <<Ciphertext(m)>>]
        /\ \A key \in Profile(id) :
             KeyOfProfile(ProfilePayload(read.sender, key)) = <<Block(key)>>
=============================================================================
