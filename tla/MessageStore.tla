----------------------------- MODULE MessageStore ------------------------------
(***************************************************************************)
(* MessageStorage: a history kept as one JSON array in one file. Every     *)
(* saveMessage reads the file twice and writes all of it again; the        *)
(* process may die, and a file operation may fail, at every step.          *)
(*                                                                         *)
(* A message stands for its messageId. A file is the array in it, or Torn  *)
(* when it holds a proper prefix of one, which is never valid JSON.        *)
(***************************************************************************)
EXTENDS Naturals, Sequences, Functions

CONSTANTS
  Messages,   \* message IDs
  NotUtf8,    \* those whose plaintext is not UTF-8
  NoMessage,  \* nothing to add: the constructor writes an empty array
  NoFile, Torn,
  MaxLength,  \* bound: entries in the file
  MaxFaults   \* bound: file operations that fail

ASSUME MessageStoreConstants ==
  /\ NoMessage \notin Messages /\ NotUtf8 \subseteq Messages
  /\ NoFile \notin Seq(Messages) /\ Torn \notin Seq(Messages) /\ NoFile # Torn
  /\ MaxLength \in Nat /\ MaxFaults \in Nat

VARIABLES
  file,     \* the file at filePath_
  pc,       \* where the call is; "down" when there is no MessageStorage
  message,  \* saveMessage's argument
  all,      \* the array saveMessage read
  faults,   \* file operations that failed
  saved,    \* history: the messages saveMessage added, in order; nothing once
            \* the array is damaged
  misread,  \* history: a file that exists could not be opened for reading
  damaged   \* history: an array was cut short or replaced by less

calls   == <<pc, message, all>>
history == <<saved, misread, damaged>>
vars    == <<file, calls, faults, history>>

TypeOK ==
  /\ file \in Seq(Messages) \cup {NoFile, Torn}
  /\ pc \in {"down", "idle", "check", "read", "open", "write"}
  /\ message \in Messages \cup {NoMessage}
  /\ all \in Seq(Messages)
  /\ faults \in 0..MaxFaults
  /\ saved \in Seq(Messages)
  /\ misread \in BOOLEAN /\ damaged \in BOOLEAN

Init ==
  /\ file = NoFile
  /\ pc = "down" /\ message = NoMessage /\ all = <<>>
  /\ faults = 0
  /\ saved = <<>> /\ misread = FALSE /\ damaged = FALSE

\* The history of the saves is kept only as long as it says something.
Recorded(messages) == saved' = IF damaged' THEN <<>> ELSE messages

Fault == faults < MaxFaults /\ faults' = faults + 1

-----------------------------------------------------------------------------
\* readFile: a file that does not parse counts as empty, like a missing one.
Parsed(content) == IF content \in {NoFile, Torn} THEN <<>> ELSE content

\* loadAll, when the file opens.
LoadAll == Parsed(file)

\* What readFile returns: also nothing when the file does not open.
Read(result) ==
  \/ result = Parsed(file) /\ UNCHANGED <<faults, misread>>
  \/ result = <<>> /\ Fault /\ misread' = TRUE

Construct ==
  /\ pc = "down"
  /\ pc' = IF file = NoFile THEN "open" ELSE "idle"
  /\ message' = NoMessage /\ all' = <<>>
  /\ UNCHANGED <<file, faults, history>>

-----------------------------------------------------------------------------
(* saveMessage: messageExists, readFile, push_back, writeFile.               *)

SaveMessage(m) ==
  /\ pc = "idle"
  /\ pc' = "check" /\ message' = m
  /\ UNCHANGED <<file, all, faults, history>>

\* Mutant: the duplicate check is dropped.
MessageUnchecked ==
  /\ pc = "check"
  /\ pc' = "read"
  /\ UNCHANGED <<file, message, all, faults, history>>

MessageExists ==
  /\ pc = "check"
  /\ \E found \in {<<>>, Parsed(file)} :
       /\ Read(found)
       /\ pc' = IF message \in Range(found) THEN "idle" ELSE "read"
  /\ UNCHANGED <<file, message, all, saved, damaged>>

ReadAll ==
  /\ pc = "read"
  /\ \E found \in {<<>>, Parsed(file)} : Read(found) /\ all' = found
  /\ Len(all') < MaxLength
  /\ pc' = "open"
  /\ UNCHANGED <<file, message, saved, damaged>>

\* The ofstream truncates the file. When it does not open, writeFile throws: the
\* constructor fails, saveMessage leaves the file as it is.
OpenForWriting ==
  /\ pc = "open"
  /\ \/ /\ file' = Torn /\ pc' = "write"
        /\ damaged' = (damaged \/ all # Parsed(file))
        /\ UNCHANGED faults
     \/ /\ Fault
        /\ pc' = IF message = NoMessage THEN "down" ELSE "idle"
        /\ UNCHANGED <<file, damaged>>
  /\ Recorded(saved)
  /\ UNCHANGED <<message, all, misread>>

\* Mutant: the new entry goes to the front.
NewestFirst == IF message = NoMessage THEN all ELSE <<message>> \o all

\* Mutant: the constructor writes an empty entry.
EntryAlways == Append(all, message)

\* The array that is dumped.
Dumped == IF message = NoMessage THEN all ELSE Append(all, message)

\* dump refuses a string that is not UTF-8, after the file was truncated.
DumpThrows ==
  /\ pc = "write" /\ message \in NotUtf8
  /\ pc' = "idle"
  /\ damaged' = TRUE /\ Recorded(saved)
  /\ UNCHANGED <<file, message, all, faults, misread>>

\* The stream writes when it is closed; whether it could is not looked at.
WriteFile ==
  /\ pc = "write" /\ message \notin NotUtf8
  /\ \/ file' = Dumped /\ UNCHANGED <<faults, damaged>>
     \/ Fault /\ damaged' = TRUE /\ UNCHANGED file
  /\ Recorded(IF message = NoMessage THEN saved ELSE Append(saved, message))
  /\ pc' = "idle"
  /\ UNCHANGED <<message, all, misread>>

-----------------------------------------------------------------------------
\* The process dies; between truncation and write this costs the whole array.
Crash ==
  /\ pc # "down" /\ pc' = "down"
  /\ message' = NoMessage /\ all' = <<>>
  /\ damaged' = (damaged \/ pc = "write")
  /\ Recorded(saved)
  /\ UNCHANGED <<file, faults, misread>>

Next ==
  \/ Construct
  \/ \E m \in Messages : SaveMessage(m)
  \/ MessageExists \/ ReadAll \/ OpenForWriting \/ DumpThrows \/ WriteFile
  \/ Crash

Spec == Init /\ [][Next]_vars

-----------------------------------------------------------------------------
(* Properties.                                                               *)

\* "never store the same messageId twice" (MessageStorage.cpp:32), over any
\* number of saves, crashes and failed writes. A file that exists and cannot be
\* opened is excepted: messageExists then finds nothing, and the array read
\* next may hold the message.
NoDuplicates ==
  ~misread => \A i, j \in DOMAIN Parsed(file) :
                Parsed(file)[i] = Parsed(file)[j] => i = j

\* While the file is truncated the array is in memory only.
Held == IF pc = "write" THEN all ELSE LoadAll

\* What saveMessage added is there, in the order of the calls, unless a crash
\* fell between truncation and write, a write failed, a text was not UTF-8 or a
\* file could not be read: no other moment of a crash, and no other failure,
\* costs a message.
SavedIsKept == ~damaged => Held = saved

\* The store is a log: entries are only added at the end, or all lost at once.
Log == INSTANCE MessageLog WITH log <- Held

LogSpec == Log!Spec
=============================================================================
