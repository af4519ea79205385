---------------------------- MODULE KeyStoreProofs -----------------------------
(***************************************************************************)
(* For any number of key pairs and of failing file operations: as long as  *)
(* no file operation failed, crashes at any step leave a peer with one     *)
(* public key, never mix two pairs and never touch a saved identity.       *)
(***************************************************************************)
EXTENDS KeyStore, TLAPS

-----------------------------------------------------------------------------
(* Types. TypeOK is inductive with what the steps of startNode know.         *)

Located ==
  /\ pc = "load" => pub # NoFile /\ priv # NoFile
  /\ pc \notin {"down", "load", "generate"} => keys # NoKeys

Typed == TypeOK /\ Located

\* What is written to a file is half a pair; what is in memory is two halves.
LEMMA Halves ==
  /\ \A p \in Pairs : Whole(p) \in Half /\ Cut(p) \in Half
  /\ \A p \in Pairs : [pub |-> Whole(p), priv |-> Whole(p)]
                         \in [pub : Half, priv : Half] \ {NoKeys}
<1>1. \A p \in Pairs : Whole(p) \in Half /\ Cut(p) \in Half
  BY DEF Half, Whole, Cut
<1>2. \A h \in Half : [pub |-> h, priv |-> h] \in [pub : Half, priv : Half]
  OBVIOUS
<1>3. NoKeys \notin [pub : Half, priv : Half]
  BY KeyStoreConstants
<1> QED
  BY <1>1, <1>2, <1>3

LEMMA InitTyped == Init => Typed
  BY KeyStoreConstants DEF Init, Typed, TypeOK, Located, Steps

LEMMA NextTyped == Typed /\ [Next]_vars => Typed'
<1> SUFFICES ASSUME Typed, [Next]_vars PROVE Typed'
  OBVIOUS
<1> USE KeyStoreConstants DEF Typed, TypeOK, Located, Steps, Fault, files
<1>1. CASE StartNode
  BY <1>1 DEF StartNode
<1>2. CASE LoadKeyPair
  BY <1>2 DEF LoadKeyPair
<1>3. CASE LoadFails
  BY <1>3 DEF LoadFails
<1>4. ASSUME NEW p \in Pairs, GenerateKeyPair(p) PROVE Typed'
  BY <1>4, Halves DEF GenerateKeyPair
<1>5. CASE OpenPub
  <2>1. keys.pub.pair \in Pairs
    BY <1>5 DEF OpenPub, Half
  <2> QED
    BY <1>5, <2>1, Halves DEF OpenPub
<1>6. CASE WritePub
  <2>1. keys.pub \in Half
    BY <1>6 DEF WritePub
  <2> QED
    BY <1>6, <2>1 DEF WritePub
<1>7. CASE OpenPriv
  <2>1. keys.priv.pair \in Pairs
    BY <1>7 DEF OpenPriv, Half
  <2> QED
    BY <1>7, <2>1, Halves DEF OpenPriv
<1>8. CASE WritePriv
  BY <1>8 DEF WritePriv
<1>9. CASE PublishProfile
  BY <1>9 DEF PublishProfile
<1>10. CASE StopNode
  BY <1>10 DEF StopNode
<1>11. CASE Crash
  BY <1>11 DEF Crash
<1>12. CASE UNCHANGED vars
  BY <1>12 DEF vars
<1> QED
  BY <1>1, <1>2, <1>3, <1>4, <1>5, <1>6, <1>7, <1>8, <1>9, <1>10, <1>11, <1>12
  DEF Next

\* The files, the pair in memory and the faults are what they are meant to be,
\* whatever fails and whenever the process dies.
THEOREM TypeCorrect == Spec => []TypeOK
<1>1. Typed => TypeOK
  BY DEF Typed
<1> QED
  BY <1>1, InitTyped, NextTyped, PTL DEF Spec

-----------------------------------------------------------------------------
(* What the disk looks like while nothing but crashes happened.              *)

\* A private key file is opened last: there is one only next to the complete
\* public key of the same pair.
PrivateComesLast ==
  priv # NoFile => /\ pub # NoFile /\ pub.whole
                   /\ pub.pair = priv.pair

\* A pair is generated only while there is no private key file, and saved in
\* the order public, private.
SavingInOrder ==
  /\ pc \in {"generate", "openPub", "writePub", "openPriv"} => priv = NoFile
  /\ pc \in {"openPub", "writePub", "openPriv", "writePriv"} =>
       keys.pub.whole /\ keys.pub.pair = keys.priv.pair
  /\ pc = "writePub" => pub = Cut(keys.pub.pair)
  /\ pc \in {"openPriv", "writePriv"} => pub = keys.pub
  /\ pc = "writePriv" => priv = Cut(keys.priv.pair)

\* A session runs with what is on the disk, or with more of the private key.
DiskIsSession ==
  Running => /\ priv # NoFile
             /\ keys.pub = pub /\ keys.priv.pair = priv.pair

\* What was published is on the disk.
PublishedIsSaved ==
  published # {} => priv # NoFile /\ published = {pub}

OnlyCrashes ==
  faults = 0 => /\ PrivateComesLast /\ SavingInOrder
                /\ DiskIsSession /\ PublishedIsSaved

LEMMA InitOnlyCrashes == Init => OnlyCrashes
  BY DEF Init, OnlyCrashes, PrivateComesLast, SavingInOrder, DiskIsSession,
         PublishedIsSaved, Running

LEMMA NextOnlyCrashes == Typed /\ OnlyCrashes /\ [Next]_vars => OnlyCrashes'
<1> SUFFICES ASSUME Typed, OnlyCrashes, [Next]_vars, faults' = 0
             PROVE  /\ PrivateComesLast' /\ SavingInOrder'
                    /\ DiskIsSession' /\ PublishedIsSaved'
  BY DEF OnlyCrashes
<1> USE KeyStoreConstants
    DEF Typed, TypeOK, Located, Half, files, Fault, Running,
        PrivateComesLast, SavingInOrder, DiskIsSession, PublishedIsSaved
<1>0. faults = 0
  BY DEF Next, vars, StartNode, LoadKeyPair, LoadFails, GenerateKeyPair, OpenPub,
         WritePub, OpenPriv, WritePriv, PublishProfile, StopNode, Crash
<1>a. PrivateComesLast /\ SavingInOrder /\ DiskIsSession /\ PublishedIsSaved
  BY <1>0 DEF OnlyCrashes
<1> USE <1>0, <1>a
<1>1. CASE StartNode
  BY <1>1 DEF StartNode
<1>2. CASE LoadKeyPair
  BY <1>2 DEF LoadKeyPair
<1>3. ~LoadFails
  BY DEF LoadFails
<1>4. ASSUME NEW p \in Pairs, GenerateKeyPair(p)
      PROVE  /\ PrivateComesLast' /\ SavingInOrder'
             /\ DiskIsSession' /\ PublishedIsSaved'
  BY <1>4 DEF GenerateKeyPair, Whole
<1>5. CASE OpenPub
  BY <1>5 DEF OpenPub, Cut
<1>6. CASE WritePub
  BY <1>6 DEF WritePub, Cut
<1>7. CASE OpenPriv
  BY <1>7 DEF OpenPriv, Cut
<1>8. CASE WritePriv
  BY <1>8 DEF WritePriv, Cut
<1>9. CASE PublishProfile
  BY <1>9 DEF PublishProfile
<1>10. CASE StopNode
  BY <1>10 DEF StopNode
<1>11. CASE Crash
  BY <1>11 DEF Crash
<1>12. CASE UNCHANGED vars
  BY <1>12 DEF vars
<1> QED
  BY <1>1, <1>2, <1>3, <1>4, <1>5, <1>6, <1>7, <1>8, <1>9, <1>10, <1>11, <1>12
  DEF Next

LEMMA Invariance == Spec => [](Typed /\ OnlyCrashes)
  BY InitTyped, NextTyped, InitOnlyCrashes, NextOnlyCrashes, PTL DEF Spec

-----------------------------------------------------------------------------
\* Crashes alone never make a peer publish two different keys.
THEOREM OneIdentityForever == Spec => []OneIdentity
<1>1. Typed /\ OnlyCrashes => OneIdentity
  BY DEF OnlyCrashes, PublishedIsSaved, OneIdentity
<1> QED
  BY <1>1, Invariance, PTL

\* Crashes alone never make a session run with the halves of two pairs.
THEOREM HalvesNeverMix == Spec => []HalvesMatch
<1>1. Typed /\ OnlyCrashes => HalvesMatch
  BY DEF OnlyCrashes, PrivateComesLast, DiskIsSession, HalvesMatch
<1> QED
  BY <1>1, Invariance, PTL

\* Once both files are complete, no step touches them, unless a file operation
\* fails: a pair is saved only where none was.
THEOREM SavedIdentityStays == Spec => SavedIdentityIsKept
<1>1. ASSUME Typed, OnlyCrashes, [Next]_vars, faults' = 0, Saved
      PROVE  UNCHANGED files
  <2> USE DEF Typed, TypeOK, Located, Saved, files
  <2>1. faults = 0
    BY <1>1 DEF Next, vars, Fault, StartNode, LoadKeyPair, LoadFails, GenerateKeyPair,
       OpenPub, WritePub, OpenPriv, WritePriv, PublishProfile, StopNode, Crash
  <2>2. pc \notin {"openPub", "writePub", "openPriv", "writePriv"}
    BY <1>1, <2>1 DEF OnlyCrashes, SavingInOrder, Cut
  <2> QED
    BY <1>1, <2>2 DEF Next, vars, StartNode, LoadKeyPair, LoadFails, GenerateKeyPair,
       OpenPub, WritePub, OpenPriv, WritePriv, PublishProfile, StopNode, Crash
<1> QED
  BY <1>1, Invariance, PTL DEF Spec, SavedIdentityIsKept

-----------------------------------------------------------------------------
(* What the counterexample of RunsWithAPair depends on.                      *)

\* The process does not die between the opening and the closing of the private key
\* file.
PrivateIsWrittenWhole == [][Crash => pc # "writePriv"]_vars

PrivateIsWhole ==
  faults = 0 => /\ priv # NoFile => priv.whole \/ pc = "writePriv"
                /\ keys # NoKeys => keys.pub.whole /\ keys.priv.whole

LEMMA NextPrivateIsWhole ==
  Typed /\ OnlyCrashes /\ PrivateIsWhole /\ [Next]_vars /\ (Crash => pc # "writePriv")
    => PrivateIsWhole'
<1> SUFFICES ASSUME Typed, OnlyCrashes, PrivateIsWhole, [Next]_vars,
                    Crash => pc # "writePriv", faults' = 0
             PROVE  /\ priv' # NoFile => priv'.whole \/ pc' = "writePriv"
                    /\ keys' # NoKeys => keys'.pub.whole /\ keys'.priv.whole
  BY DEF PrivateIsWhole
<1> DEFINE Kept == /\ priv' # NoFile => priv'.whole \/ pc' = "writePriv"
                   /\ keys' # NoKeys => keys'.pub.whole /\ keys'.priv.whole
<1> USE KeyStoreConstants DEF Typed, TypeOK, Located, files, Fault
<1>0. faults = 0
  BY DEF Next, vars, StartNode, LoadKeyPair, LoadFails, GenerateKeyPair, OpenPub,
         WritePub, OpenPriv, WritePriv, PublishProfile, StopNode, Crash
<1>a. /\ PrivateComesLast /\ SavingInOrder
      /\ priv # NoFile => priv.whole \/ pc = "writePriv"
      /\ keys # NoKeys => keys.pub.whole /\ keys.priv.whole
  BY <1>0 DEF OnlyCrashes, PrivateIsWhole
<1> USE <1>0, <1>a
<1>1. CASE StartNode
  BY <1>1 DEF StartNode
<1>2. CASE LoadKeyPair
  BY <1>2 DEF LoadKeyPair, PrivateComesLast
<1>3. ~LoadFails
  BY DEF LoadFails, PrivateComesLast
<1>4. ASSUME NEW p \in Pairs, GenerateKeyPair(p) PROVE Kept
  BY <1>4 DEF GenerateKeyPair, Whole
<1>5. CASE OpenPub
  BY <1>5 DEF OpenPub
<1>6. CASE WritePub
  BY <1>6 DEF WritePub
<1>7. CASE OpenPriv
  BY <1>7 DEF OpenPriv
<1>8. CASE WritePriv
  BY <1>8 DEF WritePriv
<1>9. CASE PublishProfile
  BY <1>9 DEF PublishProfile
<1>10. CASE StopNode
  BY <1>10 DEF StopNode
<1>11. CASE Crash
  BY <1>11 DEF Crash
<1>12. CASE UNCHANGED vars
  BY <1>12 DEF vars
<1> QED
  BY <1>1, <1>2, <1>3, <1>4, <1>5, <1>6, <1>7, <1>8, <1>9, <1>10, <1>11, <1>12
  DEF Next

\* Crashes at any other step, however many, leave every session with a complete
\* pair: the moment between the opening and the closing of the private key file is
\* the whole of the defect.
THEOREM WholePrivateKeepsPairs ==
  Spec /\ PrivateIsWrittenWhole => [](faults = 0 => RunsWithAPair)
<1>1. Init => PrivateIsWhole
  BY DEF Init, PrivateIsWhole
<1>2. Typed /\ OnlyCrashes /\ PrivateIsWhole /\ [Next]_vars /\ [Crash => pc # "writePriv"]_vars
        => PrivateIsWhole'
  <2>1. CASE UNCHANGED vars
    BY <2>1 DEF vars, files, PrivateIsWhole
  <2> QED
    BY <2>1, NextPrivateIsWhole
<1>3. Typed /\ OnlyCrashes /\ PrivateIsWhole => (faults = 0 => RunsWithAPair)
  BY DEF Typed, Located, OnlyCrashes, PrivateComesLast, DiskIsSession, PrivateIsWhole,
         RunsWithAPair, Running
<1> QED
  BY <1>1, <1>2, <1>3, Invariance, PTL DEF Spec, PrivateIsWrittenWhole

=============================================================================
