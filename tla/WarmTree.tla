------------------------------- MODULE WarmTree ------------------------------
(***************************************************************************)
(* The MCP server (treesmith-mcp) and the workspace it keeps warm.         *)
(*                                                                         *)
(* Four parties touch the working tree.  The server scans it once, then    *)
(* answers one tools/call at a time from memory.  The watcher's thread     *)
(* moves the paths it is told of into the dirty set, which the next call   *)
(* drains and re-parses.  Editors, git and other processes change files    *)
(* whenever they like.  The server may be killed between any two steps.    *)
(*                                                                         *)
(* Every system call is a step of its own: the walk's look at a path, the  *)
(* stat and the read of a refresh, the two halves of fs::write (the file   *)
(* is truncated, then filled).                                             *)
(***************************************************************************)
EXTENDS TreeGraph

CONSTANTS
  Toml,             \* the path of treesmith.toml, one of Files
  DefaultConfig,    \* the gate configuration when there is no treesmith.toml
  InitialTrees,     \* the working trees the server may find at first
  EditContents,     \* what an editor may leave in a file
  MaxEdits,         \* bound on the steps of the editors
  MaxKills          \* bound on the kills of the server

(* treesmith.toml never sniffs as an item and item files hold no configuration. *)
HeldBy(f) == IF f = Toml THEN Configs \cup {Alien, Absent} ELSE Contents \ Configs
Trees == {tree \in [Files -> Contents] : \A f \in Files : tree[f] \in HeldBy(f)}

ASSUME TomlAssumption == Toml \in Files /\ DefaultConfig \in Configs
ASSUME InputsAssumption ==
  InitialTrees \subseteq Trees /\ EditContents \subseteq Contents
ASSUME BoundsAssumption == MaxEdits \in Nat /\ MaxKills \in Nat

VARIABLES
  disk,      \* the working tree: what each path holds
  watcher,   \* "unborn", "alive", or "failed": rebuild before every call
  chan,      \* events sent by the watcher, not yet taken by its thread
  dirty,     \* the dirty set shared with the request loop
  files,     \* Graph.files: the parsed record of each path, or None
  repo,      \* Graph.repo_set: the paths known to exist
  config,    \* Workspace.gate_config
  pc,        \* where the request loop is
  then,      \* where it goes when the refresh or scan under way is done
  todo,      \* paths the refresh or the walk has not looked at
  cand,      \* paths found to exist that are still to be read and parsed
  write,     \* the write a call has decided on: file, bytes, bytes it replaces
  edits, kills,
  missed,    \* history: paths changed with no event on its way to dirty
  excused    \* history: paths this call cannot be expected to know about

fsVars == <<disk, chan, missed, excused>>
graphVars == <<files, repo, todo, cand>>
bounds == <<edits, kills>>
vars == <<fsVars, graphVars, bounds, watcher, dirty, config, pc, then, write>>

NoWrite == [file |-> Toml, bytes |-> Alien, base |-> Alien]
Writes == [file : Files, bytes : Contents, base : Contents]

TypeOK ==
  /\ disk \in Trees
  /\ watcher \in {"unborn", "alive", "failed"}
  /\ chan \subseteq Files /\ dirty \subseteq Files
  /\ files \in [Files -> FileRecords \cup {None}]
  /\ repo \subseteq Files
  /\ config \in Configs
  /\ pc \in {"down", "walk", "parse", "refresh", "watch", "idle",
             "reload", "exec", "truncate", "fill"}
  /\ then \in {"watch", "reload", "exec", "idle"}
  /\ todo \subseteq Files /\ cand \subseteq Files
  /\ write \in Writes
  /\ edits \in 0..MaxEdits /\ kills \in 0..MaxKills
  /\ missed \subseteq Files /\ excused \subseteq Files

Init ==
  /\ disk \in InitialTrees
  /\ watcher = "unborn" /\ chan = {} /\ dirty = {}
  /\ files = [f \in Files |-> None] /\ repo = {}
  /\ config = DefaultConfig
  /\ pc = "down" /\ then = "watch"
  /\ todo = {} /\ cand = {} /\ write = NoWrite
  /\ edits = 0 /\ kills = 0
  /\ missed = {} /\ excused = {}

-----------------------------------------------------------------------------
(* A change of the working tree: the watcher, once alive, sends an event.  *)
Change(f, content) ==
  /\ disk' = [disk EXCEPT ![f] = content]
  /\ excused' = excused \cup {f}
  /\ IF watcher = "alive"
       THEN chan' = chan \cup {f} /\ UNCHANGED missed
       ELSE missed' = missed \cup {f} /\ UNCHANGED chan

Edit(f, content) ==
  /\ edits < MaxEdits
  /\ edits' = edits + 1
  /\ content # disk[f]
  /\ Change(f, content)
  /\ UNCHANGED <<graphVars, kills, watcher, dirty, config, pc, then, write>>

(* The watcher's thread: an event's paths go into the dirty set, an error   *)
(* is dropped with the paths it would have named.                           *)
Deliver(f) ==
  /\ f \in chan
  /\ chan' = chan \ {f}
  /\ dirty' = dirty \cup {f}
  /\ UNCHANGED <<disk, missed, excused, graphVars, bounds, watcher, config, pc,
                 then, write>>

DropError(f) ==
  /\ f \in chan
  /\ chan' = chan \ {f}
  /\ missed' = missed \cup {f}
  /\ UNCHANGED <<disk, excused, graphVars, bounds, watcher, dirty, config, pc,
                 then, write>>

-----------------------------------------------------------------------------
(* scan: the graph is emptied, the tree walked, every file found is parsed. *)
StartScan(after) ==
  /\ files' = [f \in Files |-> None]
  /\ repo' = {}
  /\ todo' = Files /\ cand' = {}
  /\ pc' = "walk" /\ then' = after

(* Workspace::open; with a treesmith.toml that does not parse it refuses.   *)
Open ==
  /\ pc = "down"
  /\ disk[Toml] # Alien
  /\ config' = IF disk[Toml] = Absent THEN DefaultConfig ELSE disk[Toml]
  /\ StartScan("watch")
  /\ UNCHANGED <<fsVars, bounds, watcher, dirty, write>>

(* Where the request loop is once t is still to be refreshed, c to be read. *)
Resume(t, c) == IF c # {} THEN "parse" ELSE IF t # {} THEN "refresh" ELSE then

WalkOne(f) ==
  /\ pc = "walk" /\ f \in todo
  /\ todo' = todo \ {f}
  /\ IF disk[f] = Absent
       THEN UNCHANGED <<repo, cand>>
       ELSE repo' = repo \cup {f} /\ cand' = cand \cup {f}
  /\ pc' = IF todo' # {} THEN "walk" ELSE Resume({}, cand')
  /\ missed' = missed \ {f}
  /\ UNCHANGED <<disk, chan, excused, files, bounds, watcher, dirty, config,
                 then, write>>

ParseOne(f) ==
  /\ pc = "parse" /\ f \in cand
  /\ files' = [files EXCEPT ![f] = ParseFile(disk[f])]
  /\ cand' = cand \ {f}
  /\ pc' = Resume(todo, cand')
  /\ UNCHANGED <<fsVars, repo, todo, bounds, watcher, dirty, config, then, write>>

(* Mutant: a file that was read before is not read again.                   *)
RefreshOneKnown(f) ==
  /\ pc = "refresh" /\ f \in todo
  /\ \A g \in todo : f <= g
  /\ todo' = todo \ {f}
  /\ repo' = IF disk[f] = Absent THEN repo \ {f} ELSE repo \cup {f}
  /\ files' = IF disk[f] = Absent THEN [files EXCEPT ![f] = None] ELSE files
  /\ cand' = IF disk[f] = Absent \/ files[f] # None THEN cand ELSE {f}
  /\ pc' = Resume(todo', cand')
  /\ missed' = missed \ {f}
  /\ UNCHANGED <<disk, chan, excused, bounds, watcher, dirty, config, then, write>>

(* refresh_one, on the first path of the sorted set: a path that is gone is *)
(* dropped, one that exists is tracked and read.                            *)
RefreshOne(f) ==
  /\ pc = "refresh" /\ f \in todo
  /\ \A g \in todo : f <= g
  /\ todo' = todo \ {f}
  /\ IF disk[f] = Absent
       THEN /\ files' = [files EXCEPT ![f] = None]
            /\ repo' = repo \ {f}
            /\ UNCHANGED cand
       ELSE /\ repo' = repo \cup {f}
            /\ cand' = {f}
            /\ UNCHANGED files
  /\ pc' = Resume(todo', cand')
  /\ missed' = missed \ {f}
  /\ UNCHANGED <<disk, chan, excused, bounds, watcher, dirty, config, then, write>>

(* start_watcher: it watches from now on, or every call rebuilds.           *)
StartWatcher(outcome) ==
  /\ pc = "watch"
  /\ watcher' = outcome
  /\ pc' = "idle"
  /\ UNCHANGED <<fsVars, graphVars, bounds, dirty, config, then, write>>

-----------------------------------------------------------------------------
(* Mutant: the set is drained, its paths are not re-parsed.                 *)
RefreshBeforeCallLosesPaths ==
  IF watcher = "failed"
    THEN StartScan("reload") /\ UNCHANGED dirty
    ELSE dirty' = {} /\ pc' = "exec" /\ UNCHANGED <<graphVars, then>>

(* Mutant: the set is left for later.                                       *)
RefreshBeforeCallSkipped ==
  IF watcher = "failed"
    THEN StartScan("reload") /\ UNCHANGED dirty
    ELSE pc' = "exec" /\ UNCHANGED <<graphVars, dirty, then>>

(* Mutant: rebuild scans the tree and returns.                              *)
RefreshBeforeCallKeepsConfig ==
  IF watcher = "failed"
    THEN StartScan("exec") /\ UNCHANGED dirty
    ELSE /\ todo' = dirty /\ dirty' = {}
         /\ pc' = IF dirty = {} THEN "exec" ELSE "refresh"
         /\ then' = "exec"
         /\ UNCHANGED <<files, repo, cand>>

(* A tools/call: refresh_before_call rebuilds or drains the dirty set.      *)
RefreshBeforeCall ==
  IF watcher = "failed"
    THEN /\ StartScan("reload")
         /\ UNCHANGED dirty
    ELSE /\ todo' = dirty /\ dirty' = {}
         /\ pc' = IF dirty = {} THEN "exec" ELSE "refresh"
         /\ then' = "exec"
         /\ UNCHANGED <<files, repo, cand>>

BeginCall ==
  /\ pc = "idle"
  /\ RefreshBeforeCall
  /\ excused' = IF watcher = "failed" THEN {} ELSE chan \cup missed
  /\ UNCHANGED <<disk, chan, missed, bounds, watcher, config, write>>

(* Mutant: rebuild takes whatever treesmith.toml holds.                     *)
ReloadConfigUnchecked ==
  /\ pc = "reload"
  /\ config' = disk[Toml]
  /\ pc' = "exec"
  /\ UNCHANGED <<fsVars, graphVars, bounds, watcher, dirty, then, write>>

(* The end of rebuild: a treesmith.toml that does not parse keeps the old   *)
(* configuration.                                                           *)
ReloadConfig ==
  /\ pc = "reload"
  /\ config' = IF disk[Toml] = Absent THEN DefaultConfig
               ELSE IF disk[Toml] = Alien THEN config ELSE disk[Toml]
  /\ pc' = "exec"
  /\ UNCHANGED <<fsVars, graphVars, bounds, watcher, dirty, then, write>>

(* A read, or a request that is refused: a faulted tree, an unknown item, a *)
(* rejected value.  It is answered from the graph as it is.                 *)
Answer ==
  /\ pc = "exec"
  /\ pc' = "idle"
  /\ UNCHANGED <<fsVars, graphVars, bounds, watcher, dirty, config, then, write>>

Decide(f, bytes, base) ==
  /\ write' = [file |-> f, bytes |-> bytes, base |-> base]
  /\ pc' = "truncate"
  /\ UNCHANGED <<fsVars, graphVars, bounds, watcher, dirty, config, then>>

(* set_field: the document in memory, with the value changed, for its file. *)
SetField(id, v) ==
  /\ pc = "exec"
  /\ Faults(files) = {}
  /\ id \in ItemIds(files)
  /\ LET f == FileOf(files, id)
     IN  Decide(f, [files[f] EXCEPT !.val = v], files[f])

(* Mutant: forge does not look whether the file exists.                     *)
ForgeOverwrites(id, f, v) ==
  /\ pc = "exec"
  /\ Faults(files) = {}
  /\ id \notin ItemIds(files)
  /\ f # Toml
  /\ Decide(f, [id |-> id, val |-> v], Absent)

(* forge: a new id in a file that did not exist when it looked.             *)
Forge(id, f, v) ==
  /\ pc = "exec"
  /\ Faults(files) = {}
  /\ id \notin ItemIds(files)
  /\ f # Toml /\ disk[f] = Absent
  /\ Decide(f, [id |-> id, val |-> v], Absent)

(* fs::write empties the file first, or fails and leaves it alone.          *)
Truncate ==
  /\ pc = "truncate"
  /\ \/ Change(write.file, Alien) /\ pc' = "fill" /\ UNCHANGED write
     \/ pc' = "idle" /\ write' = NoWrite /\ UNCHANGED fsVars
  /\ UNCHANGED <<graphVars, bounds, watcher, dirty, config, then>>

(* What a write that fails half way leaves: nothing of use, or a document   *)
(* that parses as far as it got.                                            *)
Partial(doc) == {Alien, Broken} \cup {[doc EXCEPT !.val = v] : v \in Vals}

(* ... then fills it, and the graph re-parses the path; an error leaves the *)
(* file as far as it got and returns before the refresh.                    *)
Fill ==
  /\ pc = "fill"
  /\ \/ /\ Change(write.file, write.bytes)
        /\ todo' = {write.file} /\ pc' = "refresh" /\ then' = "idle"
     \/ \E partial \in Partial(write.bytes) : Change(write.file, partial)
        /\ pc' = "idle" /\ UNCHANGED <<todo, then>>
  /\ write' = NoWrite
  /\ UNCHANGED <<files, repo, cand, bounds, watcher, dirty, config>>

-----------------------------------------------------------------------------
(* The server dies, its memory, watcher and channel with it.                *)
Kill ==
  /\ pc # "down" /\ kills < MaxKills
  /\ kills' = kills + 1
  /\ pc' = "down"
  /\ watcher' = "unborn" /\ chan' = {} /\ dirty' = {}
  /\ files' = [f \in Files |-> None] /\ repo' = {}
  /\ config' = DefaultConfig /\ write' = NoWrite
  /\ todo' = {} /\ cand' = {} /\ then' = "watch"
  /\ missed' = {} /\ excused' = {}
  /\ UNCHANGED <<disk, edits>>

ServerStep ==
  \/ \E f \in Files : WalkOne(f) \/ ParseOne(f) \/ RefreshOne(f)
  \/ \E outcome \in {"alive", "failed"} : StartWatcher(outcome)
  \/ ReloadConfig \/ Answer
  \/ \E id \in Ids, v \in Vals : SetField(id, v)
  \/ \E id \in Ids, f \in Files, v \in Vals : Forge(id, f, v)
  \/ Truncate \/ Fill

Next ==
  \/ ServerStep
  \/ Open \/ BeginCall \/ Kill
  \/ \E f \in Files : Deliver(f) \/ DropError(f)
  \/ \E f \in Files : \E content \in EditContents \cap HeldBy(f) : Edit(f, content)

(***************************************************************************)
(* The request loop never stops in the middle of a call, and the watcher's *)
(* thread takes every event out of the channel.  Nobody has to edit, to    *)
(* make a call or to launch the server.                                    *)
(***************************************************************************)
Fairness ==
  /\ WF_vars(ServerStep)
  /\ \A f \in Files : WF_vars(Deliver(f) \/ DropError(f))

Spec == Init /\ [][Next]_vars
FairSpec == Spec /\ Fairness

-----------------------------------------------------------------------------
Fresh(f) ==
  /\ files[f] = ParseFile(disk[f])
  /\ f \in repo <=> disk[f] # Absent
Stale == {f \in Files : ~Fresh(f)}

(* The graph may disagree with the working tree only about paths whose     *)
(* change is on its way to it: in the channel, in the dirty set, in the    *)
(* refresh under way, or lost before it reached the dirty set.  No order   *)
(* of edits, events, drains and writes makes the server forget a path.     *)
StaleIsTracked ==
  pc # "down" => Stale \subseteq chan \cup dirty \cup todo \cup cand \cup missed

(* A call is answered from a graph that disagrees with the working tree    *)
(* only about paths changed since the call began and, when there is a      *)
(* watcher, paths whose event had not reached the dirty set by then.  A    *)
(* server that rebuilds before every call has no such excuse.              *)
AnswerIsCurrent == pc = "exec" => Stale \subseteq excused

(* A write of the server replaces the very document it was computed from,  *)
(* or creates a file; what it destroys otherwise was changed while an      *)
(* event for that path was still on its way.                               *)
WritesReplaceWhatWasRead ==
  [][pc = "truncate" /\ pc' = "fill" =>
       \/ disk[write.file] = write.base
       \/ write.file \in chan \cup dirty \cup missed]_vars

(* When the server rebuilds before every call, the configuration the gates *)
(* run with is the working tree's, an earlier one only while               *)
(* treesmith.toml does not parse or since it changed during this call.     *)
RebuildReloadsConfig ==
  pc = "exec" /\ watcher = "failed" =>
    \/ Toml \in excused
    \/ disk[Toml] \in {Alien, config}
    \/ disk[Toml] = Absent /\ config = DefaultConfig

(* As long as the client keeps calling, a path the graph is wrong about    *)
(* becomes right, unless the watcher is alive and never reported it.       *)
StaleIsRepaired ==
  []<>(pc = "exec") =>
    \A f \in Files :
      (f \in Stale) ~> (f \notin Stale \/ (watcher = "alive" /\ f \in missed))

-----------------------------------------------------------------------------
(* A claim of docs/mcp.md that the code does not keep: a run finds the     *)
(* counterexample.                                                         *)

NothingOnItsWay == chan = {} /\ dirty = {}

(* The server keeps graph and gate configuration in memory, "each          *)
(* tools/call drains that set first and re-parses only the changed files,  *)
(* so results always reflect the working tree".  Not so the graph when an  *)
(* edit was made after the scan of Workspace::open and before              *)
(* start_watcher, or when its event is an error, which the watcher's       *)
(* thread drops; nor the configuration, which refresh_paths never loads.   *)
ResultsReflectTheTree ==
  pc = "exec" /\ watcher = "alive" /\ NothingOnItsWay =>
    /\ Stale = {}
    /\ \/ disk[Toml] \in {Alien, config}
       \/ disk[Toml] = Absent /\ config = DefaultConfig
=============================================================================
