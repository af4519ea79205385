--------------------------- MODULE MessageStoreProofs ---------------------------
(***************************************************************************)
(* MessageStorage for any messages and any number of saves, crashes and    *)
(* failing file operations: no message twice, nothing saved is lost but by *)
(* the accidents the model names, and the file is a log.                   *)
(***************************************************************************)
EXTENDS MessageStore, SequenceTheorems, TLAPS

\* A sequence in which nothing occurs twice.
Distinct(s) == \A i, j \in DOMAIN s : s[i] = s[j] => i = j

\* Adding what is not there yet keeps a sequence free of duplicates.
LEMMA AppendKeepsDistinct ==
  ASSUME NEW S, NEW s \in Seq(S), NEW e \in S, Distinct(s), e \notin Range(s)
  PROVE  Distinct(Append(s, e))
<1>1. /\ DOMAIN s = 1..Len(s) /\ Len(s) \in Nat
      /\ DOMAIN Append(s, e) = 1..Len(s) + 1
      /\ \A i \in 1..Len(s) : Append(s, e)[i] = s[i]
      /\ Append(s, e)[Len(s) + 1] = e
  BY AppendProperties, LenProperties
<1>2. \A i \in DOMAIN s : s[i] # e
  BY DEF Range
<1> QED
  BY <1>1, <1>2 DEF Distinct

LEMMA EmptyArray == <<>> \in Seq(Messages)
BY EmptySeq

\* An array written to the file is read back.
LEMMA ParsedArray ==
  /\ \A s \in Seq(Messages) : Parsed(s) = s
  /\ Parsed(NoFile) = <<>> /\ Parsed(Torn) = <<>>
BY MessageStoreConstants DEF Parsed

LEMMA ParsedIsArray == TypeOK => Parsed(file) \in Seq(Messages)
BY EmptySeq DEF TypeOK, Parsed

LEMMA DumpedIsArray == TypeOK => Dumped \in Seq(Messages)
BY AppendProperties DEF TypeOK, Dumped

-----------------------------------------------------------------------------
LEMMA TypeInit == Init => TypeOK
<1> SUFFICES ASSUME Init PROVE TypeOK
  OBVIOUS
<1>1. faults \in 0..MaxFaults
  BY MessageStoreConstants DEF Init
<1> QED
  BY <1>1, EmptyArray DEF Init, TypeOK

LEMMA TypeStep == TypeOK /\ [Next]_vars => TypeOK'
<1> SUFFICES ASSUME TypeOK, [Next]_vars PROVE TypeOK'
  OBVIOUS
<1> USE MessageStoreConstants, EmptyArray
<1>1. CASE Construct
  BY <1>1 DEF Construct, TypeOK, history
<1>2. CASE \E m \in Messages : SaveMessage(m)
  BY <1>2 DEF SaveMessage, TypeOK, history
<1>3. CASE MessageExists
  <2>1. faults' \in 0..MaxFaults
    BY <1>3 DEF MessageExists, Read, Fault, TypeOK
  <2>2. misread' \in BOOLEAN
    BY <1>3 DEF MessageExists, Read, TypeOK
  <2> QED
    BY <1>3, <2>1, <2>2 DEF MessageExists, TypeOK
<1>4. CASE ReadAll
  <2>1. all' \in Seq(Messages)
    BY <1>4, ParsedIsArray DEF ReadAll
  <2>2. faults' \in 0..MaxFaults
    BY <1>4 DEF ReadAll, Read, Fault, TypeOK
  <2>3. misread' \in BOOLEAN
    BY <1>4 DEF ReadAll, Read, TypeOK
  <2> QED
    BY <1>4, <2>1, <2>2, <2>3 DEF ReadAll, TypeOK
<1>5. CASE OpenForWriting
  <2>1. faults' \in 0..MaxFaults
    BY <1>5 DEF OpenForWriting, Fault, TypeOK
  <2>2. damaged' \in BOOLEAN
    BY <1>5 DEF OpenForWriting, TypeOK
  <2> QED
    BY <1>5, <2>1, <2>2 DEF OpenForWriting, Recorded, TypeOK
<1>6. CASE DumpThrows
  BY <1>6 DEF DumpThrows, Recorded, TypeOK
<1>7. CASE WriteFile
  <2>1. faults' \in 0..MaxFaults
    BY <1>7 DEF WriteFile, Fault, TypeOK
  <2>3. file' \in Seq(Messages) \cup {NoFile, Torn} /\ damaged' \in BOOLEAN
    BY <1>7, DumpedIsArray DEF WriteFile, TypeOK
  <2>2. saved' \in Seq(Messages)
    BY <1>7, AppendProperties DEF WriteFile, Recorded, TypeOK
  <2> QED
    BY <1>7, <2>1, <2>2, <2>3 DEF WriteFile, TypeOK
<1>8. CASE Crash
  BY <1>8 DEF Crash, Recorded, TypeOK
<1>9. CASE UNCHANGED vars
  BY <1>9 DEF TypeOK, vars, calls, history
<1> QED
  BY <1>1, <1>2, <1>3, <1>4, <1>5, <1>6, <1>7, <1>8, <1>9 DEF Next

\* The state of the store is well typed.
THEOREM TypeCorrect == Spec => []TypeOK
BY TypeInit, TypeStep, PTL DEF Spec

-----------------------------------------------------------------------------
(* No duplicates. The check and the array that is written are two reads of   *)
(* the file, with nothing in between that could change it.                   *)

CheckedInv ==
  ~misread =>
    /\ Distinct(Parsed(file))
    /\ pc = "check" => message \in Messages
    /\ pc = "read" => message \in Messages /\ message \notin Range(Parsed(file))
    /\ pc \in {"open", "write"} =>
         Distinct(all) /\ (message # NoMessage => message \notin Range(all))

LEMMA CheckedInit == Init => CheckedInv
BY ParsedArray DEF Init, CheckedInv, Distinct

LEMMA CheckedStep == TypeOK /\ CheckedInv /\ [Next]_vars => CheckedInv'
<1> SUFFICES ASSUME TypeOK, CheckedInv, [Next]_vars, ~misread' PROVE CheckedInv'
  BY DEF CheckedInv
<1> USE MessageStoreConstants
<1>1. CASE Construct
  BY <1>1 DEF Construct, CheckedInv, Distinct, history
<1>2. CASE \E m \in Messages : SaveMessage(m)
  BY <1>2 DEF SaveMessage, CheckedInv, history
<1>3. CASE MessageExists
  <2>1. \E found : found = Parsed(file) /\ ~misread
                   /\ pc' = IF message \in Range(found) THEN "idle" ELSE "read"
    BY <1>3 DEF MessageExists, Read
  <2>2. pc' = "read" => message \notin Range(Parsed(file))
    BY <2>1
  <2>3. message \in Messages
    BY <1>3, <2>1 DEF MessageExists, CheckedInv
  <2> QED
    BY <1>3, <2>1, <2>2, <2>3 DEF MessageExists, CheckedInv
<1>4. CASE ReadAll
  BY <1>4 DEF ReadAll, Read, CheckedInv
<1>5. CASE OpenForWriting
  BY <1>5, ParsedArray DEF OpenForWriting, CheckedInv, Distinct
<1>6. CASE DumpThrows
  BY <1>6 DEF DumpThrows, CheckedInv
<1>7. CASE WriteFile
  <2>1. Distinct(Dumped)
    BY <1>7, AppendKeepsDistinct DEF WriteFile, CheckedInv, Dumped, TypeOK
  <2>2. Distinct(Parsed(file))'
    BY <1>7, <2>1, ParsedArray, DumpedIsArray DEF WriteFile, CheckedInv
  <2> QED
    BY <1>7, <2>2 DEF WriteFile, CheckedInv
<1>8. CASE Crash
  BY <1>8 DEF Crash, CheckedInv
<1>9. CASE UNCHANGED vars
  BY <1>9 DEF CheckedInv, vars, calls, history
<1> QED
  BY <1>1, <1>2, <1>3, <1>4, <1>5, <1>6, <1>7, <1>8, <1>9 DEF Next

-----------------------------------------------------------------------------
(* What was saved is kept.                                                   *)

LEMMA KeptInit == Init => SavedIsKept
BY ParsedArray DEF Init, SavedIsKept, Held, LoadAll

LEMMA KeptStep == TypeOK /\ SavedIsKept /\ [Next]_vars => SavedIsKept'
<1> SUFFICES ASSUME TypeOK, SavedIsKept, [Next]_vars, ~damaged' PROVE (Held = saved)'
  BY DEF SavedIsKept
<1> USE DEF SavedIsKept, Held, LoadAll
<1>1. CASE Construct
  BY <1>1 DEF Construct, history
<1>2. CASE \E m \in Messages : SaveMessage(m)
  BY <1>2 DEF SaveMessage, history
<1>3. CASE MessageExists
  BY <1>3 DEF MessageExists
<1>4. CASE ReadAll
  BY <1>4 DEF ReadAll
<1>5. CASE OpenForWriting
  BY <1>5 DEF OpenForWriting, Recorded
<1>6. CASE DumpThrows
  BY <1>6 DEF DumpThrows
<1>7. CASE WriteFile
  <2>1. /\ pc = "write" /\ pc' = "idle" /\ file' = Dumped /\ ~damaged
        /\ saved' = IF message = NoMessage THEN saved ELSE Append(saved, message)
    BY <1>7 DEF WriteFile, Recorded
  <2>2. all = saved
    BY <2>1
  <2>3. saved' = Dumped
    BY <2>1, <2>2 DEF Dumped
  <2>4. Parsed(file') = Dumped
    BY <2>1, ParsedArray, DumpedIsArray
  <2> QED
    BY <2>1, <2>3, <2>4 DEF Parsed
<1>8. CASE Crash
  BY <1>8 DEF Crash, Recorded
<1>9. CASE UNCHANGED vars
  BY <1>9 DEF vars, calls, history, Parsed
<1> QED
  BY <1>1, <1>2, <1>3, <1>4, <1>5, <1>6, <1>7, <1>8, <1>9 DEF Next

\* No message is stored twice, as long as the file could be read.
THEOREM StoredOnce == Spec => []NoDuplicates
<1>1. CheckedInv => NoDuplicates
  BY DEF CheckedInv, NoDuplicates, Distinct
<1>2. Spec => []CheckedInv
  BY CheckedInit, CheckedStep, TypeCorrect, PTL DEF Spec
<1> QED
  BY <1>1, <1>2, PTL

\* What was saved is in the file, in order, but for the accidents the model names.
THEOREM SavedStays == Spec => []SavedIsKept
BY KeptInit, KeptStep, TypeCorrect, PTL DEF Spec

-----------------------------------------------------------------------------
(* The store is a log. A truncated file holds nothing by itself, and what is *)
(* written next is either the file's content or, after a misread, nothing.   *)

WritingInv ==
  /\ pc = "open" => all \in {Parsed(file), <<>>}
  /\ pc = "write" => file = Torn

LEMMA WritingStep == WritingInv /\ [Next]_vars => WritingInv'
<1> SUFFICES ASSUME WritingInv, [Next]_vars PROVE WritingInv'
  OBVIOUS
<1> USE DEF WritingInv
<1>1. CASE Construct
  BY <1>1 DEF Construct
<1>2. CASE \E m \in Messages : SaveMessage(m)
  BY <1>2 DEF SaveMessage
<1>3. CASE MessageExists
  BY <1>3 DEF MessageExists
<1>4. CASE ReadAll
  BY <1>4 DEF ReadAll, Parsed
<1>5. CASE OpenForWriting
  BY <1>5 DEF OpenForWriting
<1>6. CASE DumpThrows \/ WriteFile
  BY <1>6 DEF DumpThrows, WriteFile
<1>7. CASE Crash
  BY <1>7 DEF Crash
<1>8. CASE UNCHANGED vars
  BY <1>8 DEF vars, calls, Parsed
<1> QED
  BY <1>1, <1>2, <1>3, <1>4, <1>5, <1>6, <1>7, <1>8 DEF Next

\* A step of the store adds to the log, loses it, or leaves it alone.
LEMMA LogStep ==
  TypeOK /\ WritingInv /\ [Next]_vars => [Log!Next]_Held
<1> SUFFICES ASSUME TypeOK, WritingInv, [Next]_vars
             PROVE  Held' = Held \/ Held' = <<>> \/ \E m \in Messages : Held' = Append(Held, m)
  BY DEF Log!Next, Log!Add, Log!Lose
<1> USE DEF Held, LoadAll, WritingInv
<1>1. CASE Construct
  BY <1>1 DEF Construct, Parsed
<1>2. CASE \E m \in Messages : SaveMessage(m)
  BY <1>2 DEF SaveMessage, Parsed
<1>3. CASE MessageExists
  BY <1>3 DEF MessageExists, Parsed
<1>4. CASE ReadAll
  BY <1>4 DEF ReadAll, Parsed
<1>5. CASE OpenForWriting
  BY <1>5 DEF OpenForWriting, Parsed
<1>6. CASE DumpThrows
  BY <1>6, ParsedArray DEF DumpThrows
<1>7. CASE WriteFile
  <2>1. CASE file' = Dumped
    <3>1. Held' = Dumped
      BY <1>7, <2>1, ParsedArray, DumpedIsArray DEF WriteFile, Parsed
    <3> QED
      BY <1>7, <3>1 DEF WriteFile, Dumped, TypeOK
  <2>2. CASE file' = file
    BY <1>7, <2>2, ParsedArray DEF WriteFile
  <2> QED
    BY <1>7, <2>1, <2>2 DEF WriteFile
<1>8. CASE Crash
  BY <1>8, ParsedArray DEF Crash, Parsed
<1>9. CASE UNCHANGED vars
  BY <1>9 DEF vars, calls, Parsed
<1> QED
  BY <1>1, <1>2, <1>3, <1>4, <1>5, <1>6, <1>7, <1>8, <1>9 DEF Next

\* The store implements the log: messages are added at the end, or all are lost.
THEOREM ImplementsLog == Spec => LogSpec
<1>1. Init => Log!Init /\ WritingInv
  BY ParsedArray DEF Init, Log!Init, WritingInv, Held, LoadAll
<1>2. Spec => []WritingInv
  BY <1>1, WritingStep, PTL DEF Spec
<1> QED
  BY <1>1, <1>2, LogStep, TypeCorrect, PTL DEF Spec, LogSpec, Log!Spec
=============================================================================
