---------------------------- MODULE MemoryStore ----------------------------
(***************************************************************************)
(* memory/local: the agent's long-term memory, one text file per target    *)
(* ("user" and "memory"), changed by the memory tool. The callers are tool *)
(* calls of several runs and of several worker processes that share the    *)
(* directory; flock on a lock file per target is all they have in common.  *)
(*                                                                         *)
(* A text is a sequence of pieces: the parts between the entry delimiters. *)
(* A file is one text, an entry to be written may hold the delimiter too.  *)
(* A needle (old_text) is the set of pieces it is a substring of. A piece  *)
(* with the delimiter after it counts as one unit of the size limit.       *)
(***************************************************************************)
EXTENDS SequencesExt

CONSTANTS
  Callers,   \* tool calls that can be under way at once
  Pieces,    \* texts without a delimiter
  Blocked,   \* the pieces scanContent refuses
  Needles,   \* old_text arguments: sets of pieces
  Contents,  \* content arguments: non-empty sequences of pieces
  Limit,     \* Limit[t]: the size limit of target t
  MaxChanges \* bound: calls of the tool

Targets == {"user", "memory"}
Free == "free"

MemoryAssumption ==
  /\ Blocked \subseteq Pieces
  /\ Needles \subseteq SUBSET Pieces
  /\ Contents \subseteq Seq(Pieces) \ {<<>>}
  /\ Limit \in [Targets -> Nat]
  /\ MaxChanges \in Nat
  /\ Free \notin Callers

VARIABLES
  file,     \* file[t]: the text of USER.md or MEMORY.md
  lock,     \* lock[t]: who holds flock on the target's lock file, or Free
  at,       \* at[c]: "idle", "lock", "update", "write", "rename" or "unlock"
  call,     \* call[c]: the arguments of the call
  next,     \* next[c]: the text about to be written
  temps,    \* callers whose temporary file is in the directory
  changes   \* calls made so far

memoryVars == <<file, lock, at, call, next, temps, changes>>

Requests ==
  [op : {"add"}, target : Targets, old : {{}}, content : Contents]
  \cup [op : {"replace"}, target : Targets, old : Needles, content : Contents]
  \cup [op : {"remove"}, target : Targets, old : Needles, content : {<<>>}]

NoCall == [op |-> "none", target |-> "user", old |-> {}, content |-> <<>>]

Init ==
  /\ file = [t \in Targets |-> <<>>]
  /\ lock = [t \in Targets |-> Free]
  /\ at = [c \in Callers |-> "idle"]
  /\ call = [c \in Callers |-> NoCall]
  /\ next = [c \in Callers |-> <<>>]
  /\ temps = {}
  /\ changes = 0

-----------------------------------------------------------------------------
(* What a call makes of the entries it has read. Refused stands for a      *)
(* result with Success = false: nothing is written.                        *)

Refused == <<<<>>>>

(* readEntries: a repeated part is dropped. What is read is an entry per   *)
(* piece, and it is the text they are joined to that is written.           *)
ReadEntries(text) ==
  LET first == {i \in DOMAIN text : \A j \in 1..(i - 1) : text[j] # text[i]}
  IN [k \in 1..Cardinality(first) |->
        text[CHOOSE i \in first : Cardinality({j \in first : j <= i}) = k]]

(* scanContent *)
Scanned(content) == ToSet(content) \cap Blocked = {}

(* matchingEntries *)
MatchingEntries(entries, old) == {i \in DOMAIN entries : entries[i] \in old}

(* matchesUniquely: several matches are fine when their texts are equal.   *)
MatchesUniquely(entries, matches) == \A i, j \in matches : entries[i] = entries[j]

Fits(text, target) == Len(text) <= Limit[target]

Added(entries, r) ==
  IF ~Scanned(r.content) THEN Refused
  ELSE IF \E p \in ToSet(entries) : r.content = <<p>> THEN entries
  ELSE IF Fits(entries \o r.content, r.target) THEN entries \o r.content
  ELSE Refused

(* The entry old_text identifies; 0 when there is none or more than one.   *)
Addressed(entries, old) ==
  LET matches == MatchingEntries(entries, old) IN
  IF matches = {} \/ ~MatchesUniquely(entries, matches) THEN 0
  ELSE CHOOSE i \in matches : \A j \in matches : i <= j

(* The text with another one in place of its entry i.                      *)
JoinEntries(entries, i, content) ==
  SubSeq(entries, 1, i - 1) \o content \o SubSeq(entries, i + 1, Len(entries))

Replaced(entries, r) ==
  LET i == Addressed(entries, r.old)
      text == JoinEntries(entries, i, r.content) IN
  IF ~Scanned(r.content) \/ i = 0 THEN Refused
  ELSE IF Fits(text, r.target) THEN text
  ELSE Refused

Removed(entries, r) ==
  LET i == Addressed(entries, r.old) IN
  IF i = 0 THEN Refused ELSE JoinEntries(entries, i, <<>>)

Outcome(r, text) ==
  CASE r.op = "add" -> Added(ReadEntries(text), r)
    [] r.op = "replace" -> Replaced(ReadEntries(text), r)
    [] r.op = "remove" -> Removed(ReadEntries(text), r)

-----------------------------------------------------------------------------
Target(c) == call[c].target

GoTo(c, place) == at' = [at EXCEPT ![c] = place]

Return(c) ==
  /\ GoTo(c, "idle")
  /\ call' = [call EXCEPT ![c] = NoCall]
  /\ next' = [next EXCEPT ![c] = <<>>]

(* Execute: a call that passes Validate enters mutate. One that does not,  *)
(* or whose context has ended, changes nothing.                            *)
Execute(c, r) ==
  /\ at[c] = "idle" /\ changes < MaxChanges
  /\ call' = [call EXCEPT ![c] = r]
  /\ changes' = changes + 1
  /\ GoTo(c, "lock")
  /\ UNCHANGED <<file, lock, next, temps>>

(* Mutant: the lock file is opened and never locked. *)
LockOpenedOnly(c) ==
  /\ at[c] = "lock"
  /\ lock' = [lock EXCEPT ![Target(c)] = c]
  /\ GoTo(c, "update")
  /\ UNCHANGED <<file, call, next, temps, changes>>

(* lockFile: flock waits as long as it takes, the context does not end it. *)
LockFile(c) ==
  /\ at[c] = "lock"
  /\ lock[Target(c)] = Free
  /\ lock' = [lock EXCEPT ![Target(c)] = c]
  /\ GoTo(c, "update")
  /\ UNCHANGED <<file, call, next, temps, changes>>

(* Mutant: a refused call returns without unlocking. *)
UpdateRefusedKeepsLock(c) ==
  LET text == Outcome(call[c], file[Target(c)]) IN
  /\ at[c] = "update"
  /\ IF text = Refused
     THEN GoTo(c, "idle") /\ UNCHANGED next
     ELSE GoTo(c, "write") /\ next' = [next EXCEPT ![c] = text]
  /\ UNCHANGED <<file, lock, call, temps, changes>>

(* The file is read and the new text is computed under the lock.           *)
Update(c) ==
  LET text == Outcome(call[c], file[Target(c)]) IN
  /\ at[c] = "update"
  /\ IF text = Refused
     THEN GoTo(c, "unlock") /\ UNCHANGED next
     ELSE GoTo(c, "write") /\ next' = [next EXCEPT ![c] = text]
  /\ UNCHANGED <<file, lock, call, temps, changes>>

(* writeEntriesAtomic: a temporary file is written, synced and closed ...  *)
WriteTemp(c) ==
  /\ at[c] = "write"
  /\ temps' = temps \cup {c}
  /\ GoTo(c, "rename")
  /\ UNCHANGED <<file, lock, call, next, changes>>

(* ... and takes the place of the old one.                                 *)
Rename(c) ==
  /\ at[c] = "rename"
  /\ file' = [file EXCEPT ![Target(c)] = next[c]]
  /\ temps' = temps \ {c}
  /\ GoTo(c, "unlock")
  /\ UNCHANGED <<lock, call, next, changes>>

(* Reading, writing, syncing or renaming fails: the temporary file goes    *)
(* and the call returns the error.                                         *)
IOFails(c) ==
  /\ at[c] \in {"update", "write", "rename"}
  /\ temps' = temps \ {c}
  /\ GoTo(c, "unlock")
  /\ UNCHANGED <<file, lock, call, next, changes>>

Unlock(c) ==
  /\ at[c] = "unlock"
  /\ lock' = [lock EXCEPT ![Target(c)] = Free]
  /\ Return(c)
  /\ UNCHANGED <<file, temps, changes>>

(* The process of the call dies: the kernel releases its lock, a temporary *)
(* file stays behind.                                                      *)
Crash(c) ==
  /\ at[c] # "idle"
  /\ lock' = [t \in Targets |-> IF lock[t] = c THEN Free ELSE lock[t]]
  /\ Return(c)
  /\ UNCHANGED <<file, temps, changes>>

Proceed(c) ==
  LockFile(c) \/ Update(c) \/ WriteTemp(c) \/ Rename(c) \/ IOFails(c) \/ Unlock(c)

Next ==
  \E c \in Callers :
    \/ \E r \in Requests : Execute(c, r)
    \/ Proceed(c)
    \/ Crash(c)

(* flock wakes its waiters in turn, and a call that holds it goes on.      *)
Fairness == \A c \in Callers : WF_memoryVars(Proceed(c))

SafeSpec == Init /\ [][Next]_memoryVars

Spec == SafeSpec /\ Fairness

-----------------------------------------------------------------------------
(* A file never outgrows the limit of its target and never holds a text    *)
(* scanContent refuses, whatever parts a new entry falls into when it is   *)
(* read again.                                                             *)
TypeOK ==
  /\ file \in [Targets -> Seq(Pieces)]
  /\ \A t \in Targets : Len(file[t]) <= Limit[t] /\ ToSet(file[t]) \cap Blocked = {}
  /\ lock \in [Targets -> Callers \cup {Free}]
  /\ at \in [Callers -> {"idle", "lock", "update", "write", "rename", "unlock"}]
  /\ call \in [Callers -> Requests \cup {NoCall}]
  /\ next \in [Callers -> Seq(Pieces)]
  /\ temps \subseteq Callers
  /\ changes \in 0..MaxChanges

(* mutate: a file changes only to what the call that holds its lock makes  *)
(* of the text it replaces. No change is lost to one computed from an      *)
(* older text, and none is written in part.                                *)
NoLostUpdate ==
  [][\A t \in Targets : file'[t] # file[t] =>
       \E c \in Callers :
         /\ lock[t] = c /\ Target(c) = t
         /\ Outcome(call[c], file[t]) # Refused
         /\ file'[t] = Outcome(call[c], file[t])]_memoryVars

(* Every call returns: a refusal, an error or the death of its holder      *)
(* leaves no lock behind that others wait for.                             *)
CallsReturn == \A c \in Callers : []<>(at[c] = "idle")
=============================================================================
