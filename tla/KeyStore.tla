------------------------------- MODULE KeyStore --------------------------------
(***************************************************************************)
(* The key files of one peer ID: how P2PNode::startNode finds, loads or    *)
(* makes the key pair, how CryptoService::saveKeyPair writes it, and what  *)
(* is left on disk when the process ends, or a file operation fails,       *)
(* somewhere in between.                                                   *)
(*                                                                         *)
(* Half a pair is known by the pair it belongs to and by whether all of it *)
(* is there: an ofstream truncates when it opens and writes when it        *)
(* closes, so a file may hold a proper prefix, mostly the empty one.       *)
(***************************************************************************)
EXTENDS Naturals

CONSTANTS
  Pairs,      \* key pairs, each generated at most once
  NoFile,     \* the file does not exist
  NoKeys,     \* m_myKeys of a new process
  MaxFaults   \* bound: file operations that fail

Half == [pair : Pairs, whole : BOOLEAN]

ASSUME KeyStoreConstants ==
  /\ NoFile \notin Half
  /\ NoKeys \notin [pub : Half, priv : Half]
  /\ MaxFaults \in Nat

VARIABLES
  pub,        \* <ID>_public.key
  priv,       \* <ID>_private.key
  keys,       \* P2PNode::m_myKeys
  pc,         \* where startNode is; "up" when the profile is published
  used,       \* the pairs generated so far
  published,  \* history: the public keys of the profiles published
  faults      \* file operations that failed

files == <<pub, priv>>
vars  == <<files, keys, pc, used, published, faults>>

Steps == {"down", "load", "generate", "openPub", "writePub", "openPriv",
          "writePriv", "ready", "up"}

TypeOK ==
  /\ pub \in Half \cup {NoFile} /\ priv \in Half \cup {NoFile}
  /\ keys \in [pub : Half, priv : Half] \cup {NoKeys}
  /\ pc \in Steps
  /\ used \subseteq Pairs
  /\ published \subseteq Half
  /\ faults \in 0..MaxFaults

Init ==
  /\ pub = NoFile /\ priv = NoFile
  /\ keys = NoKeys /\ pc = "down"
  /\ used = {} /\ published = {} /\ faults = 0

\* A file operation that fails: a file that cannot be opened, a disk that is full.
Fault == faults < MaxFaults /\ faults' = faults + 1

Whole(p) == [pair |-> p, whole |-> TRUE]
Cut(p)   == [pair |-> p, whole |-> FALSE]

-----------------------------------------------------------------------------
(* startNode: load the pair, or make one.                                    *)

\* Mutant: existing files are not looked for.
StartNodeAfresh ==
  /\ pc = "down"
  /\ pc' = "generate"
  /\ UNCHANGED <<files, keys, used, published, faults>>

\* Mutant: one file is enough.
StartNodeEither ==
  /\ pc = "down"
  /\ pc' = IF pub # NoFile \/ priv # NoFile THEN "load" ELSE "generate"
  /\ UNCHANGED <<files, keys, used, published, faults>>

\* Only when both files exist are they loaded.
StartNode ==
  /\ pc = "down"
  /\ pc' = IF pub # NoFile /\ priv # NoFile THEN "load" ELSE "generate"
  /\ UNCHANGED <<files, keys, used, published, faults>>

\* loadKeyPair takes what is there: an empty file is valid base64, and the size
\* of neither half is looked at.
LoadKeyPair ==
  /\ pc = "load"
  /\ keys' = [pub |-> pub, priv |-> priv]
  /\ pc' = "ready"
  /\ UNCHANGED <<files, used, published, faults>>

\* It throws when a file does not open, or when the base64 text ends too early.
LoadFails ==
  /\ pc = "load"
  /\ Fault \/ (~pub.whole /\ UNCHANGED faults)
  /\ pc' = "generate"
  /\ UNCHANGED <<files, keys, used, published>>

\* Mutant: the new pair is not saved.
GenerateUnsaved(p) ==
  /\ pc = "generate" /\ p \notin used
  /\ used' = used \cup {p}
  /\ keys' = [pub |-> Whole(p), priv |-> Whole(p)]
  /\ pc' = "ready"
  /\ UNCHANGED <<files, published, faults>>

GenerateKeyPair(p) ==
  /\ pc = "generate" /\ p \notin used
  /\ used' = used \cup {p}
  /\ keys' = [pub |-> Whole(p), priv |-> Whole(p)]
  /\ pc' = "openPub"
  /\ UNCHANGED <<files, published, faults>>

-----------------------------------------------------------------------------
(* saveKeyPair. Whether the files open decides how far it gets, whether they *)
(* can be written is not looked at; startNode goes on in any case.           *)

\* Mutant: a public key that is already there is kept.
OpenPubKeeping ==
  /\ pc = "openPub"
  /\ pc' = IF pub = NoFile THEN "writePub" ELSE "openPriv"
  /\ pub' = IF pub = NoFile THEN Cut(keys.pub.pair) ELSE pub
  /\ UNCHANGED <<priv, keys, used, published, faults>>

OpenPub ==
  /\ pc = "openPub"
  /\ \/ pc' = "writePub" /\ pub' = Cut(keys.pub.pair) /\ UNCHANGED faults
     \/ Fault /\ pc' = "ready" /\ UNCHANGED pub
  /\ UNCHANGED <<priv, keys, used, published>>

WritePub ==
  /\ pc = "writePub"
  /\ \/ pub' = keys.pub /\ UNCHANGED faults
     \/ Fault /\ UNCHANGED pub
  /\ pc' = "openPriv"
  /\ UNCHANGED <<priv, keys, used, published>>

OpenPriv ==
  /\ pc = "openPriv"
  /\ \/ pc' = "writePriv" /\ priv' = Cut(keys.priv.pair) /\ UNCHANGED faults
     \/ Fault /\ pc' = "ready" /\ UNCHANGED priv
  /\ UNCHANGED <<pub, keys, used, published>>

WritePriv ==
  /\ pc = "writePriv"
  /\ \/ priv' = keys.priv /\ UNCHANGED faults
     \/ Fault /\ UNCHANGED priv
  /\ pc' = "ready"
  /\ UNCHANGED <<pub, keys, used, published>>

-----------------------------------------------------------------------------
\* The session's public key goes out with the profile.
PublishProfile ==
  /\ pc = "ready" /\ pc' = "up"
  /\ published' = published \cup {keys.pub}
  /\ UNCHANGED <<files, keys, used, faults>>

\* A restart: m_myKeys is kept until the next start replaces it.
StopNode ==
  /\ pc = "up" /\ pc' = "down"
  /\ UNCHANGED <<files, keys, used, published, faults>>

\* The process dies, at any step, and is launched again.
Crash ==
  /\ pc # "down" /\ pc' = "down"
  /\ keys' = NoKeys
  /\ UNCHANGED <<files, used, published, faults>>

Next ==
  \/ StartNode \/ LoadKeyPair \/ LoadFails
  \/ \E p \in Pairs : GenerateKeyPair(p)
  \/ OpenPub \/ WritePub \/ OpenPriv \/ WritePriv
  \/ PublishProfile \/ StopNode \/ Crash

Spec == Init /\ [][Next]_vars

-----------------------------------------------------------------------------
(* Properties. They are about crashes alone: "faults" is 0 as long as every  *)
(* file operation did what it was asked to.                                  *)

Running == pc \in {"ready", "up"}

\* A peer shows one public key for ever, whatever its launches went through:
\* a key is published only once both files are written, and loaded from then on.
OneIdentity ==
  faults = 0 => \A k, l \in published : k = l

\* The halves of two pairs are never mixed, although the files are written one
\* after the other and a crash may leave only the first (CryptoService.cpp:43).
HalvesMatch ==
  faults = 0 /\ Running => keys.pub.pair = keys.priv.pair

\* An identity saved in full is never overwritten or truncated.
Saved == /\ pub # NoFile /\ priv # NoFile
         /\ pub.whole /\ priv.whole

SavedIdentityIsKept ==
  [][faults' = 0 /\ Saved => UNCHANGED files]_vars

\* "Keys have been successfully taken from disk" (P2PNode.cpp:169): the session
\* runs with a public key and the complete private key that belongs to it.
RunsWithAPair ==
  Running => /\ keys.pub.whole /\ keys.priv.whole
             /\ keys.pub.pair = keys.priv.pair
=============================================================================
