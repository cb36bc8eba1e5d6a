------------------------------ MODULE Streams ------------------------------
(***************************************************************************)
(* infra/mq/nats.go, initStreams: every process that connects to the       *)
(* broker makes sure that the streams of dm/stream.go exist. Streams whose *)
(* subjects overlap with theirs are deleted first, since the broker allows *)
(* no overlap, and then each is added, or updated to its configuration.    *)
(* Both loops go over a Go map, in any order.                              *)
(*                                                                         *)
(* The broker may have one stream of an earlier version, under a name that *)
(* is still in use or not. A subject is the sequence of its tokens; each   *)
(* stream has one here, and the rest of a configuration does not change.   *)
(***************************************************************************)
EXTENDS Naturals, SequencesExt

CONSTANTS
  Starters,    \* processes
  OldSubjects, \* subjects of earlier versions
  MaxFaults    \* bound: requests to the broker that fail

StreamsAssumption ==
  /\ MaxFaults \in Nat
  /\ OldSubjects \subseteq Seq(STRING)
  /\ \A s \in OldSubjects : s # <<>> /\ \A i \in 1..Len(s) - 1 : s[i] # ">"

(* StreamSubjects *)
Ours == {"TASK_STREAM", "SESSION_STREAM"}
Subject == [TASK_STREAM |-> <<"org", "*", "worker", "*", "task">>,
            SESSION_STREAM |-> <<"org", "*", "session", "*", "message", "*">>]

VARIABLES
  streams, \* the subjects of the broker's streams, by name
  process, \* where each process is: names it has still to look at or to add
  faults

vars == <<streams, process, faults>>

Init ==
  /\ streams \in {<<>>} \cup [{"OLD"} -> OldSubjects] \cup [{"TASK_STREAM"} -> OldSubjects]
  /\ process = [p \in Starters |-> [at |-> "down", names |-> {}]]
  /\ faults = 0

-----------------------------------------------------------------------------
Meet(s, t, i) == s[i] = "*" \/ t[i] = "*" \/ s[i] = t[i]

(* Mutant: a wildcard is looked for in the old subject only. *)
SubjectsOverlapOneSided(s, t) ==
  \A i \in DOMAIN s : i \in DOMAIN t => s[i] \in {"*", ">"} \/ s[i] = t[i]

(* partialMatch: a token of s, up to the first >, must be a wildcard or    *)
(* the token of t at its place.                                            *)
Reaches(s, t) ==
  \E n \in DOMAIN s :
    /\ s[n] = ">"
    /\ \A i \in 1..n - 1 : i \in DOMAIN t => s[i] = "*" \/ s[i] = t[i]

Misses(s, t) ==
  \E i \in DOMAIN s \cap DOMAIN t :
    s[i] \notin {"*", ">"} /\ s[i] # t[i] /\ \A j \in 1..i - 1 : s[j] # ">"

SubjectsOverlap(s, t) ==
  IF Len(s) # Len(t) THEN Reaches(s, t) \/ (~Misses(s, t) /\ Reaches(t, s))
  ELSE \A i \in DOMAIN s :
         Meet(s, t, i) \/ \E j \in 1..i : ">" \in {s[j], t[j]} /\ "*" \notin {s[j], t[j]}

(* The broker: a subject is taken by both.                                 *)
Takes(s, n) == IF Last(s) = ">" THEN n >= Len(s) ELSE n = Len(s)
Token(s, i) == IF i >= Len(s) /\ Last(s) = ">" THEN "*" ELSE s[i]
Overlap(s, t) ==
  LET n == IF Len(s) > Len(t) THEN Len(s) ELSE Len(t) IN
  /\ Takes(s, n) /\ Takes(t, n)
  /\ \A i \in 1..n : "*" \in {Token(s, i), Token(t, i)} \/ Token(s, i) = Token(t, i)

-----------------------------------------------------------------------------
Goto(p, at, names) == process' = [process EXCEPT ![p] = [at |-> at, names |-> names]]
Fault == faults < MaxFaults /\ faults' = faults + 1

(* StreamNames *)
ListStreams(p) ==
  /\ process[p].at \in {"down", "failed"}
  /\ Goto(p, "looking", DOMAIN streams)
  /\ UNCHANGED <<streams, faults>>

(* A stream that overlaps with one of another name is deleted. Of a stream *)
(* whose name is in use only those are seen that the loop meets before it. *)
Look(p, n) ==
  LET rest == process[p].names \ {n} IN
  /\ process[p].at = "looking" /\ n \in process[p].names
  /\ IF rest = {} THEN Goto(p, "adding", Ours) ELSE Goto(p, "looking", rest)
  /\ \/ Fault /\ UNCHANGED streams
     \/ /\ UNCHANGED faults
        /\ \E seen \in IF n \in Ours THEN SUBSET (Ours \ {n}) ELSE {Ours} :
             streams' = IF n \in DOMAIN streams
                            /\ \E c \in seen : SubjectsOverlap(streams[n], Subject[c])
                        THEN [m \in DOMAIN streams \ {n} |-> streams[m]]
                        ELSE streams

LookAtNone(p) ==
  /\ process[p].at = "looking" /\ process[p].names = {}
  /\ Goto(p, "adding", Ours)
  /\ UNCHANGED <<streams, faults>>

(* AddStream, or UpdateStream where it is there with another subject; both *)
(* are refused when a stream of another name takes the same messages.      *)
Refused(c) == \E n \in DOMAIN streams \ {c} : Overlap(streams[n], Subject[c])

AddStream(p, c) ==
  LET rest == process[p].names \ {c} IN
  /\ process[p].at = "adding" /\ c \in process[p].names
  /\ ~Refused(c)
  /\ streams' = [n \in DOMAIN streams \cup {c} |-> IF n = c THEN Subject[c] ELSE streams[n]]
  /\ IF rest = {} THEN Goto(p, "up", {}) ELSE Goto(p, "adding", rest)
  /\ UNCHANGED faults

StartFails(p, c) ==
  /\ process[p].at = "adding" /\ c \in process[p].names
  /\ IF Refused(c) THEN UNCHANGED faults ELSE Fault
  /\ Goto(p, "failed", {})
  /\ UNCHANGED streams

Next ==
  \E p \in Starters :
    \/ ListStreams(p) \/ LookAtNone(p)
    \/ \E n \in process[p].names : Look(p, n) \/ AddStream(p, n) \/ StartFails(p, n)

Spec == Init /\ [][Next]_vars

-----------------------------------------------------------------------------
(* Where subjectsOverlap differs from the broker: an old subject that ends *)
(* in > and is shorter than ours, with a word where ours has a wildcard,   *)
(* is not found; one that ends in > and is longer than ours is found,      *)
(* though it takes none of our messages.                                   *)
NotFound(s, t) ==
  Last(s) = ">" /\ Len(s) < Len(t) /\ \E i \in 1..Len(s) - 1 : s[i] # "*" /\ t[i] = "*"
FoundInVain(s, t) == Last(s) = ">" /\ Len(s) > Len(t)

(* A process that has started leaves both streams behind, and nobody that  *)
(* starts takes them away again with their messages; a stream is deleted   *)
(* only because one of ours needs its subjects; and a process fails to     *)
(* start only when a request has failed, when the old stream is not found, *)
(* or when its name is still in use, in some order of the map.             *)
StreamsStand ==
  [][/\ \A n \in Ours \cap DOMAIN streams :
          streams[n] = Subject[n] => n \in DOMAIN streams' /\ streams'[n] = Subject[n]
     /\ \A n \in DOMAIN streams \ DOMAIN streams' :
          \E c \in Ours : Overlap(streams[n], Subject[c]) \/ FoundInVain(streams[n], Subject[c])
     /\ \A p \in Starters : process'[p].at # process[p].at =>
          /\ process'[p].at = "up" => \A c \in Ours : streams'[c] = Subject[c]
          /\ process'[p].at = "failed" =>
               \/ faults' > 0
               \/ \E n \in DOMAIN streams : \E c \in Ours \ {n} :
                    /\ Overlap(streams[n], Subject[c])
                    /\ n \in Ours \/ NotFound(streams[n], Subject[c])]_vars
=============================================================================
