---------------------------- MODULE WarmTreeProofs ---------------------------
(***************************************************************************)
(* Theorems of WarmTree, for every set of files, of ids and of contents,   *)
(* every initial tree and every bound.                                     *)
(*                                                                         *)
(* StaleIsTracked is not inductive: that a path leaves the tracked sets    *)
(* only when the graph agrees with the tree again depends on where the     *)
(* request loop is (Phases), on what the walk and the stat of a refresh    *)
(* found before the file is read (Candidates), and on which paths the      *)
(* history variables have recorded (Excuses).                              *)
(***************************************************************************)
EXTENDS WarmTree, TLAPS

Scanning == pc \in {"walk", "parse", "refresh"}
InCall == (Scanning /\ then \in {"reload", "exec"}) \/ pc \in {"reload", "exec"}
Opening == (Scanning /\ then = "watch") \/ pc \in {"down", "watch"}
OnItsWay == chan \cup dirty \cup missed

(* Where the request loop is, and what is left to look at and to read.     *)
Phases ==
  /\ ~Scanning => todo = {} /\ cand = {}
  /\ pc = "refresh" => cand = {}
  /\ pc = "walk" => \A f \in todo : files[f] = None /\ f \notin repo
  /\ Opening => watcher = "unborn"
  /\ watcher # "alive" => chan = {} /\ dirty = {}

(* A path is read because it was seen to exist; if it is gone by then, the *)
(* change that removed it is recorded.                                     *)
Candidates ==
  \A f \in cand : /\ f \in repo /\ f \notin todo
                  /\ disk[f] = Absent => f \in OnItsWay

(* The graph has no item from treesmith.toml, and no write goes there.     *)
WriteTarget ==
  /\ files[Toml] = None
  /\ pc \in {"truncate", "fill"} => write.file # Toml /\ write.bytes \in Items

(* A write still replaces what it was computed from, or a change recorded. *)
WriteBase ==
  pc = "truncate" => \/ disk[write.file] = write.base
                     \/ write.file \in OnItsWay

Excuses ==
  InCall => chan \cup dirty \subseteq excused /\ missed \subseteq excused \cup todo

IInv ==
  /\ TypeOK /\ Phases /\ Candidates /\ WriteTarget /\ WriteBase /\ Excuses
  /\ StaleIsTracked

-----------------------------------------------------------------------------
(* What a change of the tree does to the disk and to the history of it.    *)
LEMMA ChangeEffect ==
  ASSUME TypeOK, NEW f \in Files, NEW content \in HeldBy(f), Change(f, content),
         dirty' = dirty
  PROVE  /\ disk' \in Trees
         /\ disk'[f] = content
         /\ \A g \in Files \ {f} : disk'[g] = disk[g]
         /\ chan \subseteq chan' /\ missed \subseteq missed'
         /\ chan' \subseteq chan \cup {f} /\ missed' \subseteq missed \cup {f}
         /\ f \in chan' \cup missed'
         /\ watcher # "alive" => chan' = chan
         /\ excused' = excused \cup {f}
  <1>1. content \in Contents
    BY TomlAssumption DEF HeldBy, Contents
  <1>2. disk' = [disk EXCEPT ![f] = content] /\ disk \in [Files -> Contents]
    BY DEF Change, TypeOK, Trees
  <1>3. disk' \in Trees
    BY <1>1, <1>2 DEF TypeOK, Trees
  <1>4. QED
    BY <1>2, <1>3 DEF Change

(* The record of a path, and whether the graph is right about it.          *)
LEMMA ParseFileType ==
  ASSUME NEW content PROVE ParseFile(content) \in FileRecords \cup {None}
  BY DEF ParseFile

(* A change leaves the graph and the request loop's sets alone: what was   *)
(* tracked stays tracked and the changed path becomes so.                  *)
LEMMA ChangeKeepsTracking ==
  ASSUME IInv, NEW f \in Files, NEW content \in HeldBy(f), Change(f, content),
         UNCHANGED <<dirty, files, repo, cand>>, todo \subseteq todo', pc # "down"
  PROVE  Stale' \subseteq chan' \cup dirty' \cup todo' \cup cand' \cup missed'
  <1>1. TypeOK /\ StaleIsTracked
    BY DEF IInv
  <1>2. SUFFICES ASSUME NEW g \in Files, g # f, ~Fresh(g)'
                 PROVE  g \in chan' \cup dirty' \cup todo' \cup cand' \cup missed'
    BY <1>1, ChangeEffect DEF Stale
  <1>3. disk'[g] = disk[g]
    BY <1>1, <1>2, ChangeEffect
  <1>4. g \in Stale
    BY <1>2, <1>3 DEF Stale, Fresh
  <1>5. QED
    BY <1>1, <1>4, ChangeEffect DEF StaleIsTracked

LEMMA ChangeKeepsCandidates ==
  ASSUME IInv, NEW f \in Files, NEW content \in HeldBy(f), Change(f, content),
         UNCHANGED <<dirty, repo, cand>>, cand # {} => todo' = todo
  PROVE  Candidates'
  <1>1. TypeOK /\ Candidates
    BY DEF IInv
  <1>2. SUFFICES ASSUME NEW g \in cand
                 PROVE  /\ g \in repo' /\ g \notin todo'
                        /\ disk'[g] = Absent => g \in OnItsWay'
    BY DEF Candidates
  <1>3. g \in Files
    BY <1>1 DEF TypeOK
  <1>4. QED
    BY <1>1, <1>2, <1>3, ChangeEffect DEF Candidates, OnItsWay

-----------------------------------------------------------------------------
(* One lemma per action, one step per conjunct the action can disturb.     *)
LEMMA EditStep ==
  ASSUME IInv, NEW f \in Files, NEW content \in HeldBy(f), Edit(f, content)
  PROVE  IInv'
  <1>1. TypeOK /\ Change(f, content)
    BY DEF IInv, Edit
  <1>2. UNCHANGED <<graphVars, kills, watcher, dirty, config, pc, then, write>>
    BY DEF Edit
  <1> USE DEF graphVars
  <1>3. TypeOK'
    BY <1>1, <1>2, ChangeEffect, BoundsAssumption DEF TypeOK, Edit
  <1>4. Phases'
    BY <1>1, <1>2, ChangeEffect DEF IInv, Phases, Scanning, Opening
  <1>5. Candidates'
    BY <1>1, <1>2, ChangeKeepsCandidates
  <1>6. WriteTarget'
    BY <1>2 DEF IInv, WriteTarget
  <1>7. WriteBase'
    BY <1>1, <1>2, ChangeEffect DEF IInv, WriteBase, OnItsWay, TypeOK, Writes
  <1>8. Excuses'
    BY <1>1, <1>2, ChangeEffect DEF IInv, Excuses, InCall, Scanning
  <1>9. StaleIsTracked'
    BY <1>1, <1>2, ChangeKeepsTracking DEF StaleIsTracked
  <1>10. QED
    BY <1>3, <1>4, <1>5, <1>6, <1>7, <1>8, <1>9 DEF IInv

LEMMA DeliverStep ==
  ASSUME IInv, NEW f \in Files, Deliver(f) \/ DropError(f)
  PROVE  IInv'
  <1>1. UNCHANGED <<disk, excused, graphVars, bounds, watcher, config, pc, then,
                    write>>
    BY DEF Deliver, DropError
  <1>2. OnItsWay' = OnItsWay /\ f \in chan /\ chan' \subseteq chan
    BY DEF Deliver, DropError, OnItsWay
  <1>3. dirty' \cup missed' \subseteq dirty \cup missed \cup {f}
    BY DEF Deliver, DropError
  <1>4. chan' \cup dirty' \subseteq chan \cup dirty
    BY DEF Deliver, DropError
  <1> USE DEF graphVars, bounds
  <1>5. TypeOK'
    BY <1>1, <1>2, <1>3 DEF IInv, TypeOK
  <1>6. Phases'
    BY <1>1, <1>2, <1>3, <1>4 DEF IInv, Phases, Scanning, Opening
  <1>7. Candidates' /\ WriteTarget' /\ WriteBase'
    BY <1>1, <1>2 DEF IInv, Candidates, WriteTarget, WriteBase
  <1>8. Excuses'
    BY <1>1, <1>2, <1>3, <1>4 DEF IInv, Excuses, InCall, Scanning
  <1>9. StaleIsTracked'
    BY <1>1, <1>2 DEF IInv, StaleIsTracked, Stale, Fresh, OnItsWay
  <1>10. QED
    BY <1>5, <1>6, <1>7, <1>8, <1>9 DEF IInv

LEMMA OpenStep ==
  ASSUME IInv, Open
  PROVE  IInv'
  <1>1. pc = "down" /\ UNCHANGED <<fsVars, bounds, watcher, dirty, write>>
    BY DEF Open
  <1>2. /\ files' = [f \in Files |-> None] /\ repo' = {}
        /\ todo' = Files /\ cand' = {} /\ pc' = "walk" /\ then' = "watch"
    BY DEF Open, StartScan
  <1>3. config' \in Configs
    BY TomlAssumption DEF IInv, TypeOK, Open, Trees, HeldBy
  <1> USE DEF fsVars, bounds
  <1>4. TypeOK'
    BY <1>1, <1>2, <1>3 DEF IInv, TypeOK
  <1>5. Phases' /\ Candidates' /\ WriteBase'
    BY <1>1, <1>2 DEF IInv, Phases, Candidates, WriteBase, Scanning, Opening
  <1>6. WriteTarget'
    BY <1>2, TomlAssumption DEF WriteTarget
  <1>7. Excuses'
    BY <1>2 DEF Excuses, InCall, Scanning
  <1>8. StaleIsTracked'
    BY <1>2 DEF StaleIsTracked, Stale
  <1>9. QED
    BY <1>4, <1>5, <1>6, <1>7, <1>8 DEF IInv

(* Resume hands over only when nothing is left to look at or to read.      *)
LEMMA ResumePlace ==
  ASSUME TypeOK, NEW t, NEW c
  PROVE  /\ Resume(t, c) \in {"parse", "refresh", "watch", "reload", "exec", "idle"}
         /\ Resume(t, c) \notin {"parse", "refresh"} =>
              t = {} /\ c = {} /\ Resume(t, c) = then
         /\ Resume(t, c) = "refresh" => c = {}
  BY DEF Resume, TypeOK

LEMMA WalkStep ==
  ASSUME IInv, NEW f \in Files, WalkOne(f)
  PROVE  IInv'
  <1>1. /\ pc = "walk" /\ f \in todo /\ todo' = todo \ {f}
        /\ missed' = missed \ {f}
        /\ UNCHANGED <<disk, chan, excused, files, bounds, watcher, dirty, config,
                       then, write>>
    BY DEF WalkOne
  <1>2. IF disk[f] = Absent
          THEN UNCHANGED <<repo, cand>>
          ELSE repo' = repo \cup {f} /\ cand' = cand \cup {f}
    BY DEF WalkOne
  <1>3. pc' = IF todo' # {} THEN "walk" ELSE Resume(todo', cand')
    BY DEF WalkOne
  <1>4. TypeOK /\ files[f] = None /\ f \notin repo
    BY <1>1 DEF IInv, Phases
  <1> USE DEF bounds
  <1>5. TypeOK'
    BY <1>1, <1>2, <1>3, <1>4, ResumePlace DEF TypeOK
  <1>6. Phases'
    BY <1>1, <1>2, <1>3, <1>4, ResumePlace DEF IInv, Phases, Scanning, Opening
  <1>7. Candidates'
    BY <1>1, <1>2, <1>4 DEF IInv, Candidates, OnItsWay
  <1>8. WriteTarget' /\ WriteBase'
    BY <1>1, <1>3, <1>4, ResumePlace DEF IInv, WriteTarget, WriteBase, TypeOK
  <1>9. Excuses'
    BY <1>1, <1>3, <1>4, ResumePlace DEF IInv, Excuses, InCall, Scanning, TypeOK
  <1>10. StaleIsTracked'
    <2>1. Fresh(f)' \/ f \in cand'
      BY <1>1, <1>2, <1>4 DEF Fresh, ParseFile, None, FileRecords, Items
    <2>2. \A g \in Files \ {f} : Fresh(g)' <=> Fresh(g)
      BY <1>1, <1>2 DEF Fresh
    <2>3. QED
      BY <1>1, <1>2, <2>1, <2>2 DEF IInv, StaleIsTracked, Stale
  <1>11. QED
    BY <1>5, <1>6, <1>7, <1>8, <1>9, <1>10 DEF IInv

LEMMA ParseStep ==
  ASSUME IInv, NEW f \in Files, ParseOne(f)
  PROVE  IInv'
  <1>1. /\ pc = "parse" /\ f \in cand /\ cand' = cand \ {f}
        /\ pc' = Resume(todo, cand')
        /\ UNCHANGED <<fsVars, repo, todo, bounds, watcher, dirty, config, then,
                       write>>
    BY DEF ParseOne
  <1>2. files' = [files EXCEPT ![f] = ParseFile(disk[f])]
    BY DEF ParseOne
  <1>3. TypeOK
    BY DEF IInv
  <1> USE DEF fsVars, bounds
  <1>4. TypeOK'
    BY <1>1, <1>2, <1>3, ResumePlace, ParseFileType DEF TypeOK
  <1>5. Phases'
    BY <1>1, <1>3, ResumePlace DEF IInv, Phases, Scanning, Opening
  <1>6. Candidates'
    BY <1>1 DEF IInv, Candidates, OnItsWay
  <1>7. WriteTarget'
    <2>1. disk[Toml] \notin FileRecords
      BY <1>3, TomlAssumption, ContentsAssumption
      DEF TypeOK, Trees, HeldBy, FileRecords
    <2>2. files'[Toml] = None
      BY <1>2, <1>3, <2>1 DEF IInv, WriteTarget, ParseFile, TypeOK
    <2>3. QED
      BY <1>1, <1>3, <2>2, ResumePlace DEF WriteTarget
  <1>8. WriteBase'
    BY <1>1, <1>3, ResumePlace DEF WriteBase
  <1>9. Excuses'
    BY <1>1, <1>3, ResumePlace DEF IInv, Excuses, InCall, Scanning, TypeOK
  <1>10. StaleIsTracked'
    <2>1. Fresh(f)' \/ f \in OnItsWay
      BY <1>1, <1>2, <1>3 DEF IInv, Candidates, Fresh, TypeOK
    <2>2. \A g \in Files \ {f} : Fresh(g)' <=> Fresh(g)
      BY <1>1, <1>2, <1>3 DEF Fresh, TypeOK
    <2>3. QED
      BY <1>1, <2>1, <2>2 DEF IInv, StaleIsTracked, Stale, OnItsWay
  <1>11. QED
    BY <1>4, <1>5, <1>6, <1>7, <1>8, <1>9, <1>10 DEF IInv

LEMMA RefreshStep ==
  ASSUME IInv, NEW f \in Files, RefreshOne(f)
  PROVE  IInv'
  <1>1. /\ pc = "refresh" /\ f \in todo /\ todo' = todo \ {f}
        /\ pc' = Resume(todo', cand') /\ missed' = missed \ {f}
        /\ UNCHANGED <<disk, chan, excused, bounds, watcher, dirty, config, then,
                       write>>
    BY DEF RefreshOne
  <1>2. IF disk[f] = Absent
          THEN /\ files' = [files EXCEPT ![f] = None] /\ repo' = repo \ {f}
               /\ UNCHANGED cand
          ELSE repo' = repo \cup {f} /\ cand' = {f} /\ UNCHANGED files
    BY DEF RefreshOne
  <1>3. TypeOK /\ cand = {}
    BY <1>1 DEF IInv, Phases
  <1> USE DEF bounds
  <1>4. TypeOK'
    BY <1>1, <1>2, <1>3, ResumePlace DEF TypeOK
  <1>5. Phases'
    BY <1>1, <1>3, ResumePlace DEF IInv, Phases, Scanning, Opening
  <1>6. Candidates'
    BY <1>1, <1>2, <1>3 DEF Candidates
  <1>7. WriteTarget' /\ WriteBase'
    BY <1>1, <1>2, <1>3, ResumePlace, TomlAssumption
    DEF IInv, WriteTarget, WriteBase, TypeOK
  <1>8. Excuses'
    BY <1>1, <1>3, ResumePlace DEF IInv, Excuses, InCall, Scanning, TypeOK
  <1>9. StaleIsTracked'
    <2>1. Fresh(f)' \/ f \in cand'
      BY <1>1, <1>2, <1>3 DEF Fresh, ParseFile, None, TypeOK
    <2>2. \A g \in Files \ {f} : Fresh(g)' <=> Fresh(g)
      BY <1>1, <1>2, <1>3 DEF Fresh, TypeOK
    <2>3. QED
      BY <1>1, <1>3, <2>1, <2>2 DEF IInv, StaleIsTracked, Stale
  <1>10. QED
    BY <1>4, <1>5, <1>6, <1>7, <1>8, <1>9 DEF IInv

LEMMA StartWatcherStep ==
  ASSUME IInv, NEW outcome \in {"alive", "failed"}, StartWatcher(outcome)
  PROVE  IInv'
  <1>1. /\ pc = "watch" /\ watcher' = outcome /\ pc' = "idle"
        /\ UNCHANGED <<fsVars, graphVars, bounds, dirty, config, then, write>>
    BY DEF StartWatcher
  <1> USE <1>1 DEF fsVars, graphVars, bounds, IInv
  <1>2. TypeOK'
    BY DEF TypeOK
  <1>3. Phases'
    BY DEF Phases, Scanning, Opening
  <1>4. Candidates' /\ WriteTarget' /\ WriteBase'
    BY DEF Candidates, WriteTarget, WriteBase, OnItsWay
  <1>5. Excuses'
    BY DEF Excuses, InCall, Scanning
  <1>6. StaleIsTracked'
    BY DEF StaleIsTracked, Stale, Fresh
  <1>7. QED
    BY <1>2, <1>3, <1>4, <1>5, <1>6

LEMMA BeginCallStep ==
  ASSUME IInv, BeginCall
  PROVE  IInv'
  <1>1. /\ pc = "idle" /\ todo = {} /\ cand = {}
        /\ excused' = IF watcher = "failed" THEN {} ELSE chan \cup missed
        /\ UNCHANGED <<disk, chan, missed, bounds, watcher, config, write>>
    BY DEF BeginCall, IInv, Phases, Scanning
  <1> USE <1>1 DEF bounds
  <1>2. CASE watcher = "failed"
    <2>1. /\ files' = [f \in Files |-> None] /\ repo' = {}
          /\ todo' = Files /\ cand' = {} /\ pc' = "walk" /\ then' = "reload"
          /\ dirty' = dirty /\ chan = {} /\ dirty = {}
      BY <1>2 DEF BeginCall, RefreshBeforeCall, StartScan, IInv, Phases
    <2>2. TypeOK'
      BY <2>1 DEF IInv, TypeOK
    <2>3. Phases' /\ Candidates' /\ WriteTarget' /\ WriteBase'
      BY <1>2, <2>1, TomlAssumption
      DEF Phases, Scanning, Opening, Candidates, WriteTarget, WriteBase
    <2>4. Excuses' /\ StaleIsTracked'
      BY <2>1 DEF IInv, TypeOK, Excuses, StaleIsTracked, Stale
    <2>5. QED
      BY <2>2, <2>3, <2>4 DEF IInv
  <1>3. CASE watcher # "failed"
    <2>1. /\ todo' = dirty /\ dirty' = {} /\ then' = "exec"
          /\ pc' = IF dirty = {} THEN "exec" ELSE "refresh"
          /\ UNCHANGED <<files, repo, cand>>
      BY <1>3 DEF BeginCall, RefreshBeforeCall
    <2>2. TypeOK'
      BY <2>1 DEF IInv, TypeOK
    <2>3. Phases'
      BY <2>1 DEF IInv, Phases, Scanning, Opening
    <2>4. Candidates' /\ WriteTarget' /\ WriteBase'
      BY <2>1 DEF IInv, Candidates, WriteTarget, WriteBase
    <2>5. Excuses'
      BY <1>3, <2>1 DEF Excuses
    <2>6. StaleIsTracked'
      BY <2>1 DEF IInv, StaleIsTracked, Stale, Fresh
    <2>7. QED
      BY <2>2, <2>3, <2>4, <2>5, <2>6 DEF IInv
  <1>4. QED
    BY <1>2, <1>3

LEMMA ReloadConfigStep ==
  ASSUME IInv, ReloadConfig
  PROVE  IInv'
  <1>1. /\ pc = "reload" /\ pc' = "exec"
        /\ UNCHANGED <<fsVars, graphVars, bounds, watcher, dirty, then, write>>
    BY DEF ReloadConfig
  <1>2. config' \in Configs
    BY TomlAssumption DEF IInv, TypeOK, ReloadConfig, Trees, HeldBy
  <1> USE <1>1 DEF fsVars, graphVars, bounds, IInv
  <1>3. TypeOK'
    BY <1>2 DEF TypeOK
  <1>4. Phases' /\ Excuses'
    BY DEF Phases, Scanning, Opening, Excuses, InCall
  <1>5. Candidates' /\ WriteTarget' /\ WriteBase'
    BY DEF Candidates, WriteTarget, WriteBase, OnItsWay
  <1>6. StaleIsTracked'
    BY DEF StaleIsTracked, Stale, Fresh
  <1>7. QED
    BY <1>3, <1>4, <1>5, <1>6

LEMMA AnswerStep ==
  ASSUME IInv, Answer
  PROVE  IInv'
  <1>1. /\ pc = "exec" /\ pc' = "idle"
        /\ UNCHANGED <<fsVars, graphVars, bounds, watcher, dirty, config, then,
                       write>>
    BY DEF Answer
  <1> USE <1>1 DEF fsVars, graphVars, bounds, IInv
  <1>2. TypeOK'
    BY DEF TypeOK
  <1>3. Phases' /\ Excuses'
    BY DEF Phases, Scanning, Opening, Excuses, InCall
  <1>4. Candidates' /\ WriteTarget' /\ WriteBase'
    BY DEF Candidates, WriteTarget, WriteBase, OnItsWay
  <1>5. StaleIsTracked'
    BY DEF StaleIsTracked, Stale, Fresh
  <1>6. QED
    BY <1>2, <1>3, <1>4, <1>5

(* The writes set_field and forge decide on: an item, for an item's file,  *)
(* computed from what the graph holds or from seeing that nothing is there.*)
LEMMA DecideStep ==
  ASSUME IInv, pc = "exec", NEW f \in Files \ {Toml}, NEW bytes \in Items,
         NEW base \in Contents, disk[f] = base \/ f \in OnItsWay,
         Decide(f, bytes, base)
  PROVE  IInv'
  <1>1. /\ write' = [file |-> f, bytes |-> bytes, base |-> base]
        /\ pc' = "truncate"
        /\ UNCHANGED <<fsVars, graphVars, bounds, watcher, dirty, config, then>>
    BY DEF Decide
  <1> USE <1>1 DEF fsVars, graphVars, bounds, IInv
  <1>2. TypeOK'
    BY DEF TypeOK, Writes, Contents
  <1>3. Phases' /\ Excuses'
    BY DEF Phases, Scanning, Opening, Excuses, InCall
  <1>4. Candidates' /\ WriteTarget' /\ WriteBase'
    BY DEF Candidates, WriteTarget, WriteBase, OnItsWay
  <1>5. StaleIsTracked'
    BY DEF StaleIsTracked, Stale, Fresh
  <1>6. QED
    BY <1>2, <1>3, <1>4, <1>5

LEMMA SetFieldStep ==
  ASSUME IInv, NEW id \in Ids, NEW v \in Vals, SetField(id, v)
  PROVE  IInv'
  <1> DEFINE f == FileOf(files, id)
             bytes == [files[f] EXCEPT !.val = v]
  <1>1. pc = "exec" /\ id \in ItemIds(files) /\ Decide(f, bytes, files[f])
    BY DEF SetField
  <1>2. f \in Files /\ Kept(files, f)
    BY <1>1 DEF ItemIds, FileOf
  <1>3. files[f] \in Items /\ files[f] # None
    BY <1>2, ContentsAssumption DEF Kept, None
  <1>4. f # Toml /\ bytes \in Items
    BY <1>3 DEF IInv, WriteTarget, Items
  <1>5. disk[f] = files[f] \/ f \in OnItsWay
    <2>1. todo = {} /\ cand = {}
      BY <1>1 DEF IInv, Phases, Scanning
    <2>2. Fresh(f) => disk[f] = files[f]
      BY <1>3 DEF Fresh, ParseFile
    <2>3. QED
      BY <1>1, <1>2, <2>1, <2>2 DEF IInv, StaleIsTracked, Stale, OnItsWay
  <1>6. files[f] \in Contents
    BY <1>3 DEF Contents
  <1>7. QED
    <2> HIDE DEF f, bytes
    <2> QED
      BY <1>1, <1>2, <1>4, <1>5, <1>6, DecideStep

LEMMA ForgeStep ==
  ASSUME IInv, NEW id \in Ids, NEW f \in Files, NEW v \in Vals, Forge(id, f, v)
  PROVE  IInv'
  <1>1. /\ pc = "exec" /\ f # Toml /\ disk[f] = Absent
        /\ Decide(f, [id |-> id, val |-> v], Absent)
    BY DEF Forge
  <1>2. [id |-> id, val |-> v] \in Items /\ Absent \in Contents
    BY DEF Items, Contents
  <1>3. QED
    BY <1>1, <1>2, DecideStep

LEMMA TruncateStep ==
  ASSUME IInv, Truncate
  PROVE  IInv'
  <1>1. /\ pc = "truncate"
        /\ UNCHANGED <<graphVars, bounds, watcher, dirty, config, then>>
    BY DEF Truncate
  <1>2. TypeOK /\ write.file \in Files /\ write.file # Toml /\ write.bytes \in Items
    BY <1>1 DEF IInv, TypeOK, Writes, WriteTarget
  <1> USE <1>1 DEF graphVars, bounds
  <1>3. CASE Change(write.file, Alien) /\ pc' = "fill" /\ UNCHANGED write
    <2>1. Alien \in HeldBy(write.file)
      BY <1>2, ContentsAssumption DEF HeldBy, Contents
    <2>2. TypeOK'
      BY <1>2, <1>3, <2>1, ChangeEffect DEF TypeOK
    <2>3. Phases'
      BY <1>2, <1>3, <2>1, ChangeEffect DEF IInv, Phases, Scanning, Opening
    <2>4. Candidates'
      BY <1>2, <1>3, <2>1, ChangeKeepsCandidates
    <2>5. WriteTarget' /\ WriteBase' /\ Excuses'
      BY <1>2, <1>3
      DEF IInv, WriteTarget, WriteBase, Excuses, InCall, Scanning
    <2>6. StaleIsTracked'
      BY <1>2, <1>3, <2>1, ChangeKeepsTracking DEF StaleIsTracked
    <2>7. QED
      BY <2>2, <2>3, <2>4, <2>5, <2>6 DEF IInv
  <1>4. CASE pc' = "idle" /\ write' = NoWrite /\ UNCHANGED fsVars
    <2> USE <1>4 DEF fsVars, IInv
    <2>1. TypeOK'
      BY TomlAssumption DEF TypeOK, NoWrite, Writes, Contents
    <2>2. Phases' /\ Excuses'
      BY DEF Phases, Scanning, Opening, Excuses, InCall
    <2>3. Candidates' /\ WriteTarget' /\ WriteBase'
      BY DEF Candidates, WriteTarget, WriteBase, OnItsWay
    <2>4. StaleIsTracked'
      BY DEF StaleIsTracked, Stale, Fresh
    <2>5. QED
      BY <2>1, <2>2, <2>3, <2>4
  <1>5. QED
    BY <1>3, <1>4 DEF Truncate

LEMMA FillStep ==
  ASSUME IInv, Fill
  PROVE  IInv'
  <1>1. /\ pc = "fill" /\ write' = NoWrite
        /\ UNCHANGED <<files, repo, cand, bounds, watcher, dirty, config>>
    BY DEF Fill
  <1>2. /\ TypeOK /\ write.file \in Files /\ write.file # Toml
        /\ write.bytes \in Items /\ todo = {} /\ cand = {}
    BY <1>1 DEF IInv, TypeOK, Writes, WriteTarget, Phases, Scanning
  <1>3. PICK content \in {write.bytes} \cup Partial(write.bytes) :
          Change(write.file, content)
    BY DEF Fill
  <1>4. \/ todo' = {write.file} /\ pc' = "refresh" /\ then' = "idle"
        \/ todo' = todo /\ pc' = "idle" /\ then' = then
    BY DEF Fill
  <1>5. content \in HeldBy(write.file)
    <2>1. Partial(write.bytes) \subseteq Items \cup {Alien, Broken}
      BY <1>2 DEF Partial, Items
    <2>2. content \in Items \cup {Alien, Broken}
      BY <1>2, <1>3, <2>1
    <2>3. QED
      BY <1>2, <2>2, ContentsAssumption DEF HeldBy, Contents
  <1> USE <1>1 DEF bounds
  <1>6. TypeOK'
    BY <1>2, <1>3, <1>4, <1>5, ChangeEffect, TomlAssumption
    DEF TypeOK, NoWrite, Writes, Contents
  <1>7. Phases'
    BY <1>2, <1>3, <1>4, <1>5, ChangeEffect DEF IInv, Phases, Scanning, Opening
  <1>8. Candidates'
    BY <1>2 DEF Candidates
  <1>9. WriteTarget' /\ WriteBase' /\ Excuses'
    BY <1>4 DEF IInv, WriteTarget, WriteBase, Excuses, InCall, Scanning
  <1>10. StaleIsTracked'
    BY <1>2, <1>3, <1>4, <1>5, ChangeKeepsTracking DEF StaleIsTracked
  <1>11. QED
    BY <1>6, <1>7, <1>8, <1>9, <1>10 DEF IInv

LEMMA KillStep ==
  ASSUME IInv, Kill
  PROVE  IInv'
  <1>1. /\ kills < MaxKills /\ kills' = kills + 1 /\ UNCHANGED <<disk, edits>>
        /\ pc' = "down" /\ watcher' = "unborn" /\ chan' = {} /\ dirty' = {}
        /\ files' = [f \in Files |-> None] /\ repo' = {}
        /\ config' = DefaultConfig /\ write' = NoWrite
        /\ todo' = {} /\ cand' = {} /\ then' = "watch"
        /\ missed' = {} /\ excused' = {}
    BY DEF Kill
  <1>2. TypeOK'
    BY <1>1, BoundsAssumption, TomlAssumption
    DEF IInv, TypeOK, NoWrite, Writes, Contents
  <1>3. QED
    BY <1>1, <1>2, TomlAssumption DEF IInv, Phases, Candidates, WriteTarget,
      WriteBase, Excuses, InCall, Scanning, Opening, StaleIsTracked

-----------------------------------------------------------------------------
LEMMA InitHolds == Init => IInv
  <1> SUFFICES ASSUME Init PROVE IInv
    OBVIOUS
  <1>1. TypeOK
    BY TomlAssumption, InputsAssumption, BoundsAssumption
    DEF Init, TypeOK, NoWrite, Writes, Contents
  <1>2. QED
    BY <1>1, TomlAssumption DEF Init, IInv, Phases, Candidates, WriteTarget,
      WriteBase, Excuses, InCall, Scanning, Opening, StaleIsTracked

LEMMA StutterStep == IInv /\ UNCHANGED vars => IInv'
  <1> SUFFICES ASSUME IInv, UNCHANGED vars PROVE IInv'
    OBVIOUS
  <1> USE DEF vars, fsVars, graphVars, bounds, IInv
  <1>1. TypeOK' /\ Phases' /\ Candidates' /\ Excuses'
    BY DEF TypeOK, Phases, Candidates, Excuses, Scanning, InCall, Opening, OnItsWay
  <1>2. WriteTarget' /\ WriteBase'
    BY DEF WriteTarget, WriteBase, OnItsWay
  <1>3. StaleIsTracked'
    BY DEF StaleIsTracked, Stale, Fresh
  <1>4. QED
    BY <1>1, <1>2, <1>3

LEMMA NextKeeps == IInv /\ Next => IInv'
  <1> SUFFICES ASSUME IInv, Next PROVE IInv'
    OBVIOUS
  <1>1. CASE ServerStep
    BY <1>1, WalkStep, ParseStep, RefreshStep, StartWatcherStep, ReloadConfigStep,
      AnswerStep, SetFieldStep, ForgeStep, TruncateStep, FillStep DEF ServerStep
  <1>2. CASE Open \/ BeginCall \/ Kill
    BY <1>2, OpenStep, BeginCallStep, KillStep
  <1>3. CASE \E f \in Files : Deliver(f) \/ DropError(f)
    BY <1>3, DeliverStep
  <1>4. CASE \E f \in Files : \E content \in EditContents \cap HeldBy(f) : Edit(f, content)
    BY <1>4, EditStep
  <1>5. QED
    BY <1>1, <1>2, <1>3, <1>4 DEF Next

LEMMA Invariance == Spec => []IInv
  BY InitHolds, StutterStep, NextKeeps, PTL DEF Spec

-----------------------------------------------------------------------------
(* A server that rebuilds reaches a call only through the reload of the    *)
(* configuration; afterwards it and treesmith.toml part only by an edit.   *)
ConfigInv ==
  /\ Scanning /\ watcher = "failed" => then # "exec"
  /\ RebuildReloadsConfig

(* An editor's change is of another file or excuses this one.              *)
LEMMA EditKeepsConfig ==
  ASSUME IInv, ConfigInv, NEW f \in Files, NEW content \in HeldBy(f),
         Edit(f, content)
  PROVE  ConfigInv'
  <1>1. /\ TypeOK /\ Change(f, content)
        /\ UNCHANGED <<watcher, dirty, config, pc, then>>
    BY DEF IInv, Edit
  <1>2. excused' = excused \cup {f} /\ (f # Toml => disk'[Toml] = disk[Toml])
    BY <1>1, ChangeEffect, TomlAssumption
  <1>3. QED
    BY <1>1, <1>2 DEF ConfigInv, RebuildReloadsConfig, Scanning

(* The end of a scan or a refresh under failed watching is not a call.     *)
LEMMA ScanKeepsConfig ==
  ASSUME IInv, ConfigInv, NEW f \in Files,
         WalkOne(f) \/ ParseOne(f) \/ RefreshOne(f)
  PROVE  ConfigInv'
  <1>1. Scanning /\ UNCHANGED <<watcher, then>>
    BY DEF WalkOne, ParseOne, RefreshOne, Scanning
  <1>2. \/ pc' = "walk"
        \/ pc' = Resume({}, cand') \/ pc' = Resume(todo, cand')
        \/ pc' = Resume(todo', cand')
    BY DEF WalkOne, ParseOne, RefreshOne
  <1>3. pc' = "exec" => then = "exec"
    BY <1>2, ResumePlace DEF IInv
  <1>4. QED
    BY <1>1, <1>3 DEF ConfigInv, RebuildReloadsConfig

LEMMA ConfigStep ==
  ASSUME IInv, ConfigInv, [Next]_vars
  PROVE  ConfigInv'
  <1> USE DEF fsVars, graphVars, bounds, ConfigInv, RebuildReloadsConfig, Scanning
  <1>1. CASE UNCHANGED vars
    BY <1>1 DEF vars
  <1>2. CASE \E f \in Files : WalkOne(f) \/ ParseOne(f) \/ RefreshOne(f)
    BY <1>2, ScanKeepsConfig
  <1>3. CASE \E outcome \in {"alive", "failed"} : StartWatcher(outcome)
    BY <1>3 DEF StartWatcher
  <1>4. CASE ReloadConfig
    BY <1>4 DEF ReloadConfig
  <1>5. CASE Answer \/ Truncate
    BY <1>5 DEF Answer, Truncate
  <1>6. CASE \E id \in Ids, v \in Vals : SetField(id, v)
    BY <1>6 DEF SetField, Decide
  <1>7. CASE \E id \in Ids, f \in Files, v \in Vals : Forge(id, f, v)
    BY <1>7 DEF Forge, Decide
  <1>8. CASE Fill
    BY <1>8 DEF Fill
  <1>9. CASE Open \/ Kill
    BY <1>9 DEF Open, StartScan, Kill
  <1>10. CASE BeginCall
    BY <1>10 DEF BeginCall, RefreshBeforeCall, StartScan
  <1>11. CASE \E f \in Files : Deliver(f) \/ DropError(f)
    BY <1>11 DEF Deliver, DropError
  <1>12. CASE \E f \in Files : \E content \in EditContents \cap HeldBy(f) : Edit(f, content)
    BY <1>12, EditKeepsConfig
  <1>13. QED
    BY <1>1, <1>2, <1>3, <1>4, <1>5, <1>6, <1>7, <1>8, <1>9, <1>10, <1>11, <1>12
    DEF Next, ServerStep

-----------------------------------------------------------------------------
(* The state keeps its type.                                               *)
THEOREM TypeCorrect == Spec => []TypeOK
  BY Invariance, PTL DEF IInv

(* The server never forgets a path its graph is wrong about.               *)
THEOREM NothingForgotten == Spec => []StaleIsTracked
  BY Invariance, PTL DEF IInv

(* Every call is answered from a graph that is wrong only about paths that *)
(* changed during the call or whose event had not arrived when it began.   *)
THEOREM AnswersAreCurrent == Spec => []AnswerIsCurrent
  <1>1. IInv => AnswerIsCurrent
    BY DEF IInv, AnswerIsCurrent, StaleIsTracked, Phases, Scanning, Excuses, InCall
  <1>2. QED
    BY <1>1, Invariance, PTL

(* A write that goes ahead replaces what it was computed from, or content  *)
(* whose event was still on its way.                                       *)
THEOREM WritesAreFaithful == Spec => WritesReplaceWhatWasRead
  <1>1. IInv /\ [Next]_vars =>
          [pc = "truncate" /\ pc' = "fill" =>
             \/ disk[write.file] = write.base
             \/ write.file \in chan \cup dirty \cup missed]_vars
    BY DEF IInv, WriteBase, OnItsWay
  <1>2. QED
    BY <1>1, Invariance, PTL DEF Spec, WritesReplaceWhatWasRead

(* A server that rebuilds before every call answers under the working      *)
(* tree's gate configuration, or the last one that parsed.                 *)
THEOREM ConfigIsReloaded == Spec => []RebuildReloadsConfig
  <1>1. Init => ConfigInv
    BY DEF Init, ConfigInv, RebuildReloadsConfig, Scanning
  <1>2. IInv /\ ConfigInv /\ [Next]_vars => ConfigInv'
    BY ConfigStep
  <1>3. ConfigInv => RebuildReloadsConfig
    BY DEF ConfigInv
  <1>4. QED
    BY <1>1, <1>2, <1>3, Invariance, PTL DEF Spec
=============================================================================
