---------------------------- MODULE SkillLibrary ----------------------------
(***************************************************************************)
(* The skills of a worker: directories with a SKILL.md and supporting      *)
(* files (skill/store), changed by the skill_manage tool of the worker's   *)
(* own agents and of the MCP server (skill/manage), read through a catalog *)
(* in memory (skill/catalog), filled from the built-in skills and copied   *)
(* to the directories of the external CLI agents (engines/skills_sync.go)  *)
(* when the worker starts. Nothing locks the files.                        *)
(*                                                                         *)
(* A content is the name in the front matter, whether the catalog's parser *)
(* accepts it, and a sequence of text fragments, "" where one was deleted. *)
(* A temporary file of atomicWrite is not a state of its own: it is never  *)
(* read.                                                                   *)
(***************************************************************************)
EXTENDS SequencesExt

CONSTANTS
  Calls,       \* tool calls that can be under way at once
  Skills,      \* directory names
  Builtin,     \* the skills that come with the worker
  BuiltinDir,  \* BuiltinDir[d]: the files of built-in skill d
  Documents,   \* SKILL.md contents the agents write
  Fragments,   \* pieces of text
  Patches,     \* old_text, new_text ("" to delete) and replace_all arguments
  MaxCalls,    \* bound: calls of the tool
  MaxCrashes,  \* bound: crashes of the worker, and copies of skills that fail
  SkillsDirMade, \* whether the skills directory exists at first
  Installed    \* Installed[d]: the files in it at first

Manifest == "SKILL.md"
Support == "references/notes.md"
Files == {Manifest, Support}
NoName == "no name"

FileContents == [name : Skills \cup {NoName}, loads : BOOLEAN, text : Seq(Fragments \cup {""})]
Absent == [name |-> NoName, loads |-> FALSE, text |-> <<>>]
Truncated == [name |-> NoName, loads |-> TRUE, text |-> <<>>]
CutHeader == [name |-> NoName, loads |-> FALSE, text |-> <<"">>]
Text(t) == [name |-> NoName, loads |-> TRUE, text |-> t]
Blank(t) == \A i \in DOMAIN t : t[i] = ""

LibraryAssumption ==
  /\ Builtin \subseteq Skills /\ NoName \notin Skills /\ "broken" \notin Skills
  /\ "" \notin Fragments
  /\ BuiltinDir \in [Builtin -> [Files -> FileContents]]
  /\ Documents \cup {BuiltinDir[d][Manifest] : d \in Builtin} \subseteq
       [name : Skills, loads : BOOLEAN, text : Seq(Fragments) \ {<<>>}]
  /\ Patches \subseteq [old : Fragments, new : Fragments \cup {""}, all : BOOLEAN]
  /\ MaxCalls \in Nat /\ MaxCrashes \in Nat
  /\ SkillsDirMade \in BOOLEAN
  /\ Installed \in [Skills -> [Files -> FileContents]]
  /\ \A d \in Skills : Installed[d][Manifest] = Absent \/ ~Blank(Installed[d][Manifest].text)

VARIABLES
  hasCLI,    \* an external CLI agent is installed
  rootMade,  \* the skills directory exists
  dirs,      \* skill directories
  disk,      \* disk[d][f]: the content of a file, or Absent
  external,  \* external[d][f]: the same for the external CLI agents
  step,      \* step[c]: "idle", "find", "write", "remove" or "after"
  request,   \* request[c]: the arguments of the call
  content,   \* content[c]: what the call is about to write
  timer,     \* PostProcessor.timer: "nil", "armed" or "fired"
  reload,    \* reload[i]: a post-processing run and the catalog it has read
  catalog,   \* the catalog the agents see
  worker,    \* "down", "loading", "syncing", "exporting" or "up"
  calls, crashes, \* counters
  misled,    \* calls whose Find may have met a directory that vanished
  touched,   \* history: calls whose skill changed after they looked at it
  silent,    \* history: the disk changed with no run of the post-processor due
  overlapped, \* history: the last scan began while another run was under way
  cut        \* history: built-in skills of which the last copy stopped before
             \* their SKILL.md was there in full

skillVars == <<hasCLI, rootMade, dirs, disk, external, step, request, content, timer, reload,
               catalog, worker, calls, crashes, misled, touched, silent, overlapped, cut>>

Runs == 1..2
Broken == [broken |-> "no catalog"]
NoRun == [at |-> "idle", catalog |-> <<>>]

Arguments(op, file, contents, patches) ==
  [via : {"agent", "mcp"}, op : {op}, skill : Skills, file : file, new : contents, patch : patches]

NoPatch == [old |-> "", new |-> "", all |-> FALSE]

Requests ==
  Arguments("create", {Manifest}, Documents, {NoPatch})
  \cup Arguments("patch", Files, {Absent}, Patches)
  \cup Arguments("write_file", {Support}, {Text(<<x>>) : x \in Fragments}, {NoPatch})
  \cup Arguments("remove_file", {Support}, {Absent}, {NoPatch})

NoRequest == [via |-> "agent", op |-> "none", skill |-> CHOOSE d \in Skills : TRUE,
              file |-> Support, new |-> Absent, patch |-> NoPatch]

-----------------------------------------------------------------------------
(* newCatalog: directories without a SKILL.md are passed over; a document  *)
(* that does not parse and a name that comes twice end the scan. A         *)
(* document without a name takes that of its directory.                    *)
Shown == {d \in Skills : disk[d][Manifest] # Absent}

NameOf(d) == IF disk[d][Manifest].name = NoName THEN d ELSE disk[d][Manifest].name

ScanOfDisk ==
  IF \/ ~rootMade
     \/ \E d \in Shown : ~disk[d][Manifest].loads
     \/ \E d, e \in Shown : d # e /\ NameOf(d) = NameOf(e)
  THEN Broken
  ELSE [n \in {NameOf(d) : d \in Shown} |->
         disk[CHOOSE d \in Shown : NameOf(d) = n][Manifest]]

(* Find: the directory of that name that has a SKILL.md. It fails when a   *)
(* directory it walks through before has vanished.                         *)
Find(c) ==
  {disk[request[c].skill][Manifest] # Absent} \cup (IF c \in misled THEN {FALSE} ELSE {})

Count(text, x) == Len(SelectSeq(text, LAMBDA y : y = x))

(* What Patch makes of a file; Absent when it refuses.                     *)
Patched(r) ==
  LET old == disk[r.skill][r.file]
      p == r.patch
      text == ReplaceAll(old.text, p.old, p.new)
  IN IF \/ old = Absent
        \/ Count(old.text, p.old) = 0
        \/ Count(old.text, p.old) > 1 /\ ~p.all
        \/ r.file = Manifest /\ Blank(text)
     THEN Absent
     ELSE [old EXCEPT !.text = text]

-----------------------------------------------------------------------------
Init ==
  /\ hasCLI \in BOOLEAN
  /\ rootMade = SkillsDirMade
  /\ dirs = {d \in Skills : \E f \in Files : Installed[d][f] # Absent}
  /\ disk = Installed
  /\ external = [d \in Skills |-> [f \in Files |-> Absent]]
  /\ step = [c \in Calls |-> "idle"]
  /\ request = [c \in Calls |-> NoRequest]
  /\ content = [c \in Calls |-> Absent]
  /\ timer = "nil"
  /\ reload = [i \in Runs |-> NoRun]
  /\ catalog = <<>>
  /\ worker = "down"
  /\ calls = 0
  /\ crashes = 0
  /\ misled = {}
  /\ touched = {}
  /\ silent = FALSE
  /\ overlapped = FALSE
  /\ cut = {}

workerVars == <<hasCLI, external, timer, reload, catalog, worker, crashes, overlapped, cut>>

Return(c) ==
  /\ step' = [step EXCEPT ![c] = "idle"]
  /\ request' = [request EXCEPT ![c] = NoRequest]
  /\ content' = [content EXCEPT ![c] = Absent]

GoTo(c, s) == step' = [step EXCEPT ![c] = s] /\ UNCHANGED request

(* Calls that have looked, or are looking, at the skill.                   *)
Watching(d) ==
  {c \in Calls : step[c] \in {"find", "write", "remove"} /\ request[c].skill = d}

(* Execute: a call that passes the checks of Validate and of the store.    *)
(* The MCP server is up while the worker still loads.                      *)
Execute(c, r) ==
  /\ step[c] = "idle" /\ calls < MaxCalls
  /\ worker = "up" \/ (worker # "down" /\ r.via = "mcp")
  /\ step' = [step EXCEPT ![c] = "find"]
  /\ request' = [request EXCEPT ![c] = r]
  /\ calls' = calls + 1
  /\ touched' = touched \ {c}
  /\ misled' = misled \ {c}
  /\ UNCHANGED <<rootMade, dirs, disk, content, silent>> /\ UNCHANGED workerVars

(* Mutant: Create does not look for a skill of that name. *)
CreateLooksAway(c) ==
  LET d == request[c].skill IN
  /\ step[c] = "find" /\ request[c].op = "create"
  /\ rootMade' = TRUE
  /\ dirs' = dirs \cup {d}
  /\ content' = [content EXCEPT ![c] = request[c].new]
  /\ GoTo(c, "write")
  /\ UNCHANGED <<disk, calls, misled, touched, silent>> /\ UNCHANGED workerVars

(* Create goes on when Find fails or finds nothing: the directory is made. *)
CreateLooks(c) ==
  LET d == request[c].skill IN
  /\ step[c] = "find" /\ request[c].op = "create"
  /\ \E found \in Find(c) : IF found
     THEN Return(c) /\ UNCHANGED <<rootMade, dirs>>
     ELSE /\ rootMade' = TRUE
          /\ dirs' = dirs \cup {d}
          /\ content' = [content EXCEPT ![c] = request[c].new]
          /\ GoTo(c, "write")
  /\ UNCHANGED <<disk, calls, misled, touched, silent>> /\ UNCHANGED workerVars

PatchLooks(c) ==
  /\ step[c] = "find" /\ request[c].op = "patch"
  /\ \E found \in Find(c) : IF found /\ Patched(request[c]) # Absent
     THEN /\ content' = [content EXCEPT ![c] = Patched(request[c])]
          /\ GoTo(c, "write")
     ELSE Return(c)
  /\ UNCHANGED <<rootMade, dirs, disk, calls, misled, touched, silent>> /\ UNCHANGED workerVars

WriteFileLooks(c) ==
  /\ step[c] = "find" /\ request[c].op = "write_file"
  /\ \E found \in Find(c) : IF found
     THEN /\ content' = [content EXCEPT ![c] = request[c].new]
          /\ GoTo(c, "write")
     ELSE Return(c)
  /\ UNCHANGED <<rootMade, dirs, disk, calls, misled, touched, silent>> /\ UNCHANGED workerVars

RemoveFileLooks(c) ==
  /\ step[c] = "find" /\ request[c].op = "remove_file"
  /\ \E found \in Find(c) : IF found
     THEN GoTo(c, "remove") /\ UNCHANGED content ELSE Return(c)
  /\ UNCHANGED <<rootMade, dirs, disk, calls, misled, touched, silent>> /\ UNCHANGED workerVars

(* atomicWrite, whatever the file holds by now.                            *)
AtomicWrite(c) ==
  LET d == request[c].skill IN
  /\ step[c] = "write"
  /\ disk' = [disk EXCEPT ![d][request[c].file] = content[c]]
  /\ touched' = touched \cup (Watching(d) \ {c})
  /\ silent' = (silent \/ request[c].via = "mcp")
  /\ GoTo(c, "after")
  /\ UNCHANGED <<rootMade, dirs, content, calls, misled>> /\ UNCHANGED workerVars

(* The file is removed, and its directory when it is left empty.           *)
RemoveFile(c) ==
  LET d == request[c].skill IN
  /\ step[c] = "remove"
  /\ IF disk[d][Support] = Absent
     THEN Return(c) /\ UNCHANGED <<disk, misled, touched, silent>>
     ELSE /\ disk' = [disk EXCEPT ![d][Support] = Absent]
          /\ touched' = touched \cup (Watching(d) \ {c})
          /\ misled' = misled \cup {b \in Calls : step[b] = "find" /\ request[b].skill # d}
          /\ silent' = (silent \/ request[c].via = "mcp")
          /\ GoTo(c, "after") /\ UNCHANGED content
  /\ UNCHANGED <<rootMade, dirs, calls>> /\ UNCHANGED workerVars

WriteFails(c) ==
  /\ step[c] \in {"write", "remove"}
  /\ Return(c)
  /\ UNCHANGED <<rootMade, dirs, disk, calls, misled, touched, silent>> /\ UNCHANGED workerVars

(* Mutant: a timer that is there already is left as it is. *)
AfterMutationOnce(c) ==
  /\ step[c] = "after"
  /\ timer' = IF request[c].via = "agent" /\ timer = "nil" THEN "armed" ELSE timer
  /\ Return(c)
  /\ UNCHANGED <<hasCLI, rootMade, dirs, disk, external, reload, catalog, worker, calls, crashes,
                 misled, touched, silent, overlapped, cut>>

(* AfterMutation stops the timer and sets a new one. The tool of the MCP   *)
(* server has a post-processor of its own, without a catalog to reload.    *)
AfterMutation(c) ==
  /\ step[c] = "after"
  /\ timer' = IF request[c].via = "agent" THEN "armed" ELSE timer
  /\ Return(c)
  /\ UNCHANGED <<hasCLI, rootMade, dirs, disk, external, reload, catalog, worker, calls, crashes,
                 misled, touched, silent, overlapped, cut>>

-----------------------------------------------------------------------------
callVars == <<step, request, content, calls, misled, touched>>

(* PostProcessor: the delay is over, the timer's goroutine runs.           *)
TimerFires(i) ==
  /\ timer = "armed" /\ reload[i] = NoRun
  /\ timer' = "fired"
  /\ reload' = [reload EXCEPT ![i].at = "scan"]
  /\ UNCHANGED <<hasCLI, rootMade, dirs, disk, external, catalog, worker, crashes, silent, overlapped,
                 cut>>
  /\ UNCHANGED callVars

(* Reload reads the whole directory ...                                    *)
ReloadScans(i) ==
  /\ reload[i].at = "scan"
  /\ reload' = [reload EXCEPT ![i] = [at |-> "store", catalog |-> ScanOfDisk]]
  /\ silent' = FALSE
  /\ overlapped' = \E j \in Runs \ {i} : reload[j].at = "store"
  /\ UNCHANGED <<hasCLI, rootMade, dirs, disk, external, timer, catalog, worker, crashes, cut>>
  /\ UNCHANGED callVars

(* ... and then stores the catalog under its lock; a scan that failed      *)
(* leaves the old one. The sync that follows names no directory, and       *)
(* SyncFromLerosToExternal(nil) copies nothing.                            *)
ReloadStores(i) ==
  /\ reload[i].at = "store"
  /\ catalog' = IF reload[i].catalog = Broken THEN catalog ELSE reload[i].catalog
  /\ reload' = [reload EXCEPT ![i] = NoRun]
  /\ UNCHANGED <<hasCLI, rootMade, dirs, disk, external, timer, worker, crashes, silent, overlapped, cut>>
  /\ UNCHANGED callVars

-----------------------------------------------------------------------------
(* runTaskWorker: the MCP server listens ...                               *)
WorkerStarts ==
  /\ worker = "down"
  /\ worker' = "loading"
  /\ UNCHANGED <<hasCLI, rootMade, dirs, disk, external, timer, reload, catalog, crashes, silent,
                 overlapped, cut>>
  /\ UNCHANGED callVars

Dies ==
  /\ worker' = "down"
  /\ step' = [c \in Calls |-> "idle"]
  /\ request' = [c \in Calls |-> NoRequest]
  /\ content' = [c \in Calls |-> Absent]
  /\ timer' = "nil"
  /\ reload' = [i \in Runs |-> NoRun]
  /\ misled' = {}
  /\ touched' = {}
  /\ UNCHANGED calls

(* ... agentruntime.NewService loads the catalog, and its error is fatal.  *)
LoadCatalog ==
  /\ worker = "loading"
  /\ IF ScanOfDisk = Broken
     THEN Dies /\ UNCHANGED <<catalog, crashes, silent, overlapped>>
     ELSE /\ catalog' = ScanOfDisk
          /\ worker' = "syncing"
          /\ silent' = FALSE
          /\ overlapped' = FALSE
          /\ UNCHANGED <<timer, reload, crashes>> /\ UNCHANGED callVars
  /\ UNCHANGED <<hasCLI, rootMade, dirs, disk, external, cut>>

(* syncSingleSkillDir: the files of the source are copied over the target. *)
Copied(source, target) == [f \in Files |-> IF source[f] = Absent THEN target[f] ELSE source[f]]

(* copyFileIfChanged truncates a file that differs before it copies: what  *)
(* is left of x in a file f when the copy stops. A SKILL.md that is cut in *)
(* its front matter does not parse; one that is empty does.                *)
Remains(f, x) ==
  {[x EXCEPT !.text = SubSeq(x.text, 1, n)] : n \in 0..(Len(x.text) - 1)}
  \cup (IF f = Manifest THEN {Truncated, CutHeader} ELSE {})

Interrupted(f, source, target) ==
  {target[f]} \cup (IF source[f] \in {target[f], Absent} THEN {} ELSE Remains(f, source[f]))

(* The files of a skill are copied in order, SKILL.md first, up to one     *)
(* that cannot be read, opened or written.                                 *)
PartlyCopied(source, target) ==
  {[target EXCEPT ![Manifest] = x] : x \in Interrupted(Manifest, source, target)}
  \cup {[Copied(source, target) EXCEPT ![Support] = x] : x \in Interrupted(Support, source, target)}

(* Bootstrap ends at once when no CLI agent is installed.                  *)
SyncNothing ==
  /\ worker = "syncing" /\ ~hasCLI
  /\ worker' = "up"
  /\ UNCHANGED <<hasCLI, rootMade, dirs, disk, external, timer, reload, catalog, crashes, silent,
                 overlapped, cut>>
  /\ UNCHANGED callVars

(* SyncToLerosDir: a built-in document that differs is truncated and       *)
(* copied. The catalog has been loaded already.                            *)
SyncBuiltin ==
  /\ worker = "syncing" /\ hasCLI
  /\ rootMade' = TRUE
  /\ dirs' = dirs \cup Builtin
  /\ disk' = [d \in Skills |-> IF d \in Builtin THEN Copied(BuiltinDir[d], disk[d]) ELSE disk[d]]
  /\ touched' = touched \cup UNION {Watching(d) : d \in Builtin}
  /\ silent' = (silent \/ disk' # disk)
  /\ cut' = {}
  /\ worker' = "exporting"
  /\ UNCHANGED <<hasCLI, external, timer, reload, catalog, crashes, overlapped,
                 step, request, content, calls, misled>>

(* The copy stops in skill d, with the skills in done copied before it.    *)
CopyStops(d, done) ==
  /\ worker = "syncing" /\ hasCLI
  /\ crashes < MaxCrashes /\ crashes' = crashes + 1
  /\ rootMade' = TRUE
  /\ \E files \in PartlyCopied(BuiltinDir[d], disk[d]) :
       /\ dirs' \in {dirs \cup done, dirs \cup done \cup {d}}
       /\ files # disk[d] => d \in dirs'
       /\ disk' = [e \in Skills |-> IF e = d THEN files
                                    ELSE IF e \in done THEN Copied(BuiltinDir[e], disk[e]) ELSE disk[e]]
       /\ cut' = (cut \ (done \cup {d})) \cup
                   (IF files[Manifest] = BuiltinDir[d][Manifest] THEN {} ELSE {d})

(* An error ends the sync; Bootstrap only warns of it, and the worker goes *)
(* on with what there is.                                                  *)
SyncFails(d, done) ==
  /\ CopyStops(d, done)
  /\ touched' = touched \cup UNION {Watching(e) : e \in done \cup {d}}
  /\ silent' = (silent \/ disk' # disk)
  /\ worker' = "exporting"
  /\ UNCHANGED <<hasCLI, external, timer, reload, catalog, overlapped,
                 step, request, content, calls, misled>>

(* The worker dies while it copies.                                        *)
CrashInSync(d, done) ==
  /\ CopyStops(d, done)
  /\ Dies
  /\ UNCHANGED <<hasCLI, external, catalog, silent, overlapped>>

(* SyncFromLerosToExternal with the directories of the CLI agents: a       *)
(* directory without a SKILL.md ends it before anything is copied, and     *)
(* nothing is ever removed. Bootstrap only warns.                          *)
ExportToCLIs ==
  /\ worker = "exporting"
  /\ external' = IF \E d \in dirs : disk[d][Manifest] = Absent THEN external
                 ELSE [d \in Skills |-> Copied(disk[d], external[d])]
  /\ worker' = "up"
  /\ UNCHANGED <<hasCLI, rootMade, dirs, disk, timer, reload, catalog, crashes, silent, overlapped, cut>>
  /\ UNCHANGED callVars

(* The same with an error in skill d: the sync of that directory ends.     *)
ExportFails(d, done) ==
  /\ worker = "exporting"
  /\ crashes < MaxCrashes /\ crashes' = crashes + 1
  /\ \A e \in dirs : disk[e][Manifest] # Absent
  /\ \E files \in PartlyCopied(disk[d], external[d]) :
       external' = [e \in Skills |-> IF e = d THEN files
                                    ELSE IF e \in done THEN Copied(disk[e], external[e]) ELSE external[e]]
  /\ worker' = "up"
  /\ UNCHANGED <<hasCLI, rootMade, dirs, disk, timer, reload, catalog, silent, overlapped, cut>>
  /\ UNCHANGED callVars

WorkerCrashes ==
  /\ worker # "down"
  /\ crashes < MaxCrashes /\ crashes' = crashes + 1
  /\ Dies
  /\ UNCHANGED <<hasCLI, rootMade, dirs, disk, external, catalog, silent, overlapped, cut>>

CallSteps(c) ==
  \/ CreateLooks(c) \/ PatchLooks(c) \/ WriteFileLooks(c) \/ RemoveFileLooks(c)
  \/ AtomicWrite(c) \/ RemoveFile(c) \/ WriteFails(c) \/ AfterMutation(c)

StartSteps == WorkerStarts \/ LoadCatalog \/ SyncNothing \/ SyncBuiltin \/ ExportToCLIs

PostSteps(i) == TimerFires(i) \/ ReloadScans(i) \/ ReloadStores(i)

Next ==
  \/ \E c \in Calls : (\E r \in Requests : Execute(c, r)) \/ CallSteps(c)
  \/ \E i \in Runs : PostSteps(i)
  \/ StartSteps
  \/ \E d \in Builtin : \E done \in SUBSET (Builtin \ {d}) : SyncFails(d, done) \/ CrashInSync(d, done)
  \/ \E d \in dirs : \E done \in SUBSET (dirs \ {d}) : ExportFails(d, done)
  \/ WorkerCrashes

Spec == Init /\ [][Next]_skillVars

-----------------------------------------------------------------------------
(* Every SKILL.md has text, since documents are validated before they are  *)
(* written and written in one piece, but for a built-in one of which the   *)
(* last copy was cut short, by an error or the worker's death; only the    *)
(* next sync that gets through repairs it.                                 *)
DocumentsWhole ==
  \A d \in Skills :
    disk[d][Manifest] # Absent /\ Blank(disk[d][Manifest].text) => d \in Builtin /\ d \in cut

Lost(d, f, x) == x \in ToSet(disk[d][f].text) \ ToSet(disk'[d][f].text)

Asks(c, x) ==
  \/ request[c].op = "patch" /\ request[c].patch.old = x
  \/ request[c].op \in {"write_file", "remove_file"}

(* SkillStore: text leaves a skill only because a call asked for it, a     *)
(* call wrote over a change it had not seen, Create took a Find that met a *)
(* vanished directory for a name that is free, or a start copied the       *)
(* built-in files over the worker's own.                                   *)
TextLeavesKnowingly ==
  [][\A d \in Skills, f \in Files, x \in Fragments : Lost(d, f, x) =>
       \/ \E c \in Calls :
            /\ step[c] \in {"write", "remove"}
            /\ request[c].skill = d /\ request[c].file = f
            /\ \/ Asks(c, x)
               \/ c \in touched
               \/ request[c].op = "create" /\ c \in misled
       \/ d \in Builtin /\ worker = "syncing"]_skillVars

(* FileCatalogProvider: the catalog of a running worker is what a scan of  *)
(* the directory gives, unless such a scan fails, a reload is due, the     *)
(* last change came from the MCP server or the start itself, or two        *)
(* reloads overlapped.                                                     *)
StaleIsExplained ==
  worker = "up" /\ catalog # ScanOfDisk =>
    \/ ScanOfDisk = Broken
    \/ timer = "armed" \/ \E i \in Runs : reload[i] # NoRun
    \/ \E c \in Calls : step[c] = "after"
    \/ silent \/ overlapped

(* The documents are whole, and the worker runs with those that are there. *)
CatalogHolds == DocumentsWhole /\ StaleIsExplained
=============================================================================
