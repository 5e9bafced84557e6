---------------------------- MODULE McpServerProofs --------------------------
(***************************************************************************)
(* Theorems of McpServer, for every client, every working tree, all sizes  *)
(* of the pipes and every bound.                                           *)
(*                                                                         *)
(* A session takes the steps of WarmTree, so what was proved of the warm   *)
(* tree holds in a session (Invariance of WarmTreeProofs is about another  *)
(* specification: the end of a session is a step of its own).  On top of   *)
(* it stands what becomes of the last write until its path was read again  *)
(* (AckInv).                                                               *)
(*                                                                         *)
(* The books of the client and of the server (BooksInv) rest on the line   *)
(* at hand (HandInv) and on how a sequence of lines changes at its ends:   *)
(* a line moves from the unread through the hand to the answers, and the   *)
(* ids of the three, in a row, only grow at the end, shrink at the head,   *)
(* and lose in the middle what is no request.                              *)
(***************************************************************************)
EXTENDS McpServer, WarmTreeProofs, SequenceTheorems

(* The file of the last write holds its bytes; the graph has read them or  *)
(* is about to.  A server that is down has acknowledged nothing.           *)
AckInv ==
  /\ pc = "down" => acked = NoAck
  /\ acked # NoAck =>
       /\ acked.file \in Files \ {Toml} /\ acked.bytes \in Items
       /\ disk[acked.file] = acked.bytes
       /\ \/ files[acked.file] = acked.bytes
          \/ acked.file \in todo \cup cand

SessionIInv == IInv /\ AckInv

-----------------------------------------------------------------------------
(* The end of the process leaves the working tree alone, like a kill.      *)
LEMMA EndStep ==
  ASSUME IInv, End
  PROVE  IInv'
  <1>1. /\ UNCHANGED <<disk, edits, kills>>
        /\ pc' = "down" /\ watcher' = "unborn" /\ chan' = {} /\ dirty' = {}
        /\ files' = [f \in Files |-> None] /\ repo' = {}
        /\ config' = DefaultConfig /\ write' = NoWrite
        /\ todo' = {} /\ cand' = {} /\ then' = "watch"
        /\ missed' = {} /\ excused' = {}
    BY DEF End, bounds
  <1>2. TypeOK'
    BY <1>1, BoundsAssumption, TomlAssumption
    DEF IInv, TypeOK, NoWrite, Writes, Contents
  <1>3. QED
    BY <1>1, <1>2, TomlAssumption DEF IInv, Phases, Candidates, WriteTarget,
      WriteBase, Excuses, InCall, Scanning, Opening, StaleIsTracked

(* What the server does in a session it does in WarmTree too.              *)
LEMMA WorkIsServerStep ==
  ASSUME Work
  PROVE  ServerStep
  <1>1. CASE Dispatch
    BY <1>1 DEF Dispatch, ServerStep
  <1>2. QED
    BY <1>1 DEF Work, ServerStep

LEMMA SessionKeepsTree ==
  ASSUME IInv, [SessionNext]_allVars
  PROVE  IInv'
  <1>1. CASE UNCHANGED vars
    BY <1>1, StutterStep
  <1>2. CASE Work
    BY <1>2, WorkIsServerStep, NextKeeps DEF Next
  <1>3. CASE End
    BY <1>3, EndStep
  <1>4. CASE Launch \/ Die
    BY <1>4, NextKeeps DEF Launch, Die, Next
  <1>5. CASE \E line \in Inputs : StartCall(line)
    BY <1>5, NextKeeps DEF StartCall, Next
  <1>6. CASE \E f \in Files : WatcherThread(f)
    BY <1>6, NextKeeps DEF WatcherThread, Next
  <1>7. CASE \E f \in Files : \E content \in EditContents \cap HeldBy(f) :
               Edit(f, content) /\ Elsewhere
    BY <1>7, NextKeeps DEF Next
  <1>8. CASE \/ \E line \in Inputs : Handle(line) \/ Send(line)
             \/ WriteMessage \/ Receive \/ CloseInput
    BY <1>8, <1>1 DEF Handle, Send, WriteMessage, Receive, CloseInput
  <1>9. QED
    BY <1>1, <1>2, <1>3, <1>4, <1>5, <1>6, <1>7, <1>8
    DEF SessionNext, Loop, allVars

-----------------------------------------------------------------------------
(* A step that does not end a write: the acknowledgement falls when its    *)
(* file changes and stands otherwise.                                      *)
LEMMA AcknowledgedStands ==
  ASSUME Acknowledge, ~(pc = "fill" /\ pc' = "refresh"), acked' # NoAck
  PROVE  acked' = acked /\ acked # NoAck /\ disk'[acked.file] = disk[acked.file]
  BY DEF Acknowledge

(* Such a step keeps AckInv if it reads the file, or leaves what the graph *)
(* knows and has to read alone.                                            *)
LEMMA AckKept ==
  ASSUME AckInv, Acknowledge, ~(pc = "fill" /\ pc' = "refresh"), pc # "down", pc' # "down",
         acked # NoAck /\ disk'[acked.file] = disk[acked.file] =>
           \/ files'[acked.file] = files[acked.file]
                /\ (acked.file \in todo \cup cand => acked.file \in todo' \cup cand')
           \/ files'[acked.file] = acked.bytes
           \/ acked.file \in todo' \cup cand'
  PROVE  AckInv'
  BY AcknowledgedStands DEF AckInv

(* The scan and the refresh find the file there and read it.               *)
LEMMA ReadingKeepsAck ==
  ASSUME IInv, AckInv, Acknowledge, NEW f \in Files,
         WalkOne(f) \/ ParseOne(f) \/ RefreshOne(f)
  PROVE  AckInv'
  <1>1. TypeOK /\ disk' = disk /\ pc \in {"walk", "parse", "refresh"}
    BY DEF IInv, WalkOne, ParseOne, RefreshOne, fsVars
  <1>2. pc' # "down"
    BY <1>1, ResumePlace DEF WalkOne, ParseOne, RefreshOne
  <1>3. ASSUME acked # NoAck
        PROVE  \/ files'[acked.file] = files[acked.file]
                    /\ (acked.file \in todo \cup cand => acked.file \in todo' \cup cand')
               \/ files'[acked.file] = acked.bytes
               \/ acked.file \in todo' \cup cand'
    <2>1. /\ acked.file \in Files /\ acked.bytes \in Items
          /\ disk[acked.file] = acked.bytes /\ acked.bytes # Absent
      BY <1>3, ContentsAssumption DEF AckInv
    <2>2. CASE WalkOne(f)
      BY <2>1, <2>2 DEF WalkOne
    <2>3. CASE ParseOne(f)
      BY <1>1, <2>1, <2>3 DEF ParseOne, ParseFile, FileRecords, TypeOK
    <2>4. CASE RefreshOne(f)
      <3>1. files \in [Files -> FileRecords \cup {None}] /\ cand = {}
        BY <1>1, <2>4 DEF RefreshOne, IInv, Phases, TypeOK
      <3>2. CASE acked.file = f
        BY <2>1, <2>4, <3>2 DEF RefreshOne
      <3>3. CASE acked.file # f
        BY <2>1, <2>4, <3>1, <3>3 DEF RefreshOne
      <3>4. QED
        BY <3>2, <3>3
    <2>5. QED
      BY <2>2, <2>3, <2>4
  <1>4. QED
    BY <1>1, <1>2, <1>3, AckKept

(* A write that is done is on the disk and about to be read.               *)
LEMMA FillKeepsAck ==
  ASSUME IInv, AckInv, Acknowledge, Fill
  PROVE  AckInv'
  <1>1. /\ TypeOK /\ pc = "fill" /\ todo = {} /\ cand = {}
        /\ write.file \in Files \ {Toml} /\ write.bytes \in Items
    BY DEF Fill, IInv, TypeOK, Writes, WriteTarget, Phases, Scanning
  <1>2. CASE pc' = "refresh"
    <2>1. Change(write.file, write.bytes) /\ todo' = {write.file}
      BY <1>2 DEF Fill
    <2>2. disk'[write.file] = write.bytes
      BY <1>1, <2>1 DEF Change, TypeOK, Trees
    <2>3. acked' = [file |-> write.file, bytes |-> write.bytes]
      BY <1>1, <1>2 DEF Acknowledge
    <2>4. QED
      BY <1>1, <1>2, <2>1, <2>2, <2>3 DEF AckInv
  <1>3. CASE pc' = "idle" /\ UNCHANGED todo
    BY <1>1, <1>3, AckKept DEF Fill
  <1>4. QED
    BY <1>2, <1>3 DEF Fill

LEMMA WorkKeepsAck ==
  ASSUME IInv, AckInv, Work
  PROVE  AckInv'
  <1>1. Acknowledge
    BY DEF Work
  <1> USE DEF graphVars
  <1>2. CASE \E f \in Files : WalkOne(f) \/ ParseOne(f) \/ RefreshOne(f)
    BY <1>1, <1>2, ReadingKeepsAck
  <1>3. CASE \E outcome \in {"alive", "failed"} : StartWatcher(outcome)
    BY <1>1, <1>3, AckKept DEF StartWatcher
  <1>4. CASE ReloadConfig
    BY <1>1, <1>4, AckKept DEF ReloadConfig
  <1>5. CASE Dispatch
    <2>1. pc = "exec" /\ pc' \in {"idle", "truncate"} /\ UNCHANGED <<files, todo, cand>>
      BY <1>5 DEF Dispatch, Answer, SetField, Forge, Decide
    <2>2. QED
      BY <1>1, <2>1, AckKept
  <1>6. CASE Truncate
    BY <1>1, <1>6, AckKept DEF Truncate
  <1>7. CASE Fill
    BY <1>1, <1>7, FillKeepsAck
  <1>8. QED
    BY <1>2, <1>3, <1>4, <1>5, <1>6, <1>7 DEF Work

(* A call that rebuilds has every file to read, any other leaves the graph *)
(* as it is and reads what is dirty.                                       *)
LEMMA StartCallKeepsAck ==
  ASSUME IInv, AckInv, NEW line \in Inputs, StartCall(line)
  PROVE  AckInv'
  <1>1. /\ pc = "idle" /\ todo = {} /\ cand = {} /\ disk' = disk /\ acked' = acked
        /\ pc' # "down"
    BY DEF StartCall, BeginCall, RefreshBeforeCall, StartScan, IInv, Phases, Scanning
  <1>2. todo' = Files \/ files' = files
    BY DEF StartCall, BeginCall, RefreshBeforeCall, StartScan
  <1>3. QED
    BY <1>1, <1>2 DEF AckInv

LEMMA SessionKeepsAck ==
  ASSUME IInv, AckInv, [SessionNext]_allVars
  PROVE  AckInv'
  <1> USE DEF graphVars
  <1>1. CASE UNCHANGED <<vars, acked>>
    BY <1>1 DEF vars, fsVars, AckInv
  <1>2. CASE Work
    BY <1>2, WorkKeepsAck
  <1>3. CASE End \/ Die
    BY <1>3 DEF End, Die, Gone, AckInv
  <1>4. CASE Launch
    BY <1>4 DEF Launch, Open, StartScan, AckInv
  <1>5. CASE \E line \in Inputs : StartCall(line)
    BY <1>5, StartCallKeepsAck
  <1>6. CASE \E f \in Files : WatcherThread(f)
    <2>1. Acknowledge /\ UNCHANGED <<disk, files, todo, cand, pc>>
      BY <1>6 DEF WatcherThread, Deliver, DropError, Elsewhere
    <2>2. QED
      BY <2>1 DEF Acknowledge, AckInv
  <1>7. CASE \E f \in Files : \E content \in EditContents \cap HeldBy(f) :
               Edit(f, content) /\ Elsewhere
    <2>1. Acknowledge /\ UNCHANGED <<files, todo, cand, pc>>
      BY <1>7 DEF Edit, Elsewhere
    <2>2. pc = "down" => acked' = NoAck
      BY <2>1 DEF Acknowledge, AckInv
    <2>3. QED
      BY <2>1, <2>2 DEF Acknowledge, AckInv
  <1>8. CASE \/ \E line \in Inputs : Handle(line) \/ Send(line)
             \/ WriteMessage \/ Receive \/ CloseInput
    BY <1>8, <1>1 DEF Handle, Send, WriteMessage, Receive, CloseInput
  <1>9. QED
    BY <1>1, <1>2, <1>3, <1>4, <1>5, <1>6, <1>7, <1>8
    DEF SessionNext, Loop, allVars, sessionVars

-----------------------------------------------------------------------------
LEMMA SessionInvariance == SessionSpec => []SessionIInv
  <1>1. SessionInit => SessionIInv
    BY InitHolds DEF SessionInit, SessionIInv, AckInv
  <1>2. SessionIInv /\ [SessionNext]_allVars => SessionIInv'
    BY SessionKeepsTree, SessionKeepsAck DEF SessionIInv
  <1>3. QED
    BY <1>1, <1>2, PTL DEF SessionSpec

(* What a client wrote through the server it reads back at its next call,  *)
(* whatever the watcher reports, as long as nobody else changes the file.  *)
THEOREM WritesAreReadBack == SessionSpec => []ReadsOwnWrites
  <1>1. SessionIInv => ReadsOwnWrites
    <2>1. SUFFICES ASSUME IInv, AckInv, pc \in {"idle", "exec"}, acked # NoAck
                   PROVE  /\ disk[acked.file] = acked.bytes
                          /\ files[acked.file] = ParseFile(acked.bytes)
      BY DEF SessionIInv, ReadsOwnWrites
    <2>2. todo = {} /\ cand = {}
      BY <2>1 DEF IInv, Phases, Scanning
    <2>3. acked.bytes \in Items /\ disk[acked.file] = acked.bytes
          /\ files[acked.file] = acked.bytes
      BY <2>1, <2>2 DEF AckInv
    <2>4. QED
      BY <2>3 DEF ParseFile, FileRecords
  <1>2. QED
    BY <1>1, SessionInvariance, PTL

(* A session keeps the promises of the warm tree: a call is answered from  *)
(* a graph that is wrong only about what changed while it ran or had not   *)
(* been reported when it began.                                            *)
THEOREM SessionAnswersAreCurrent == SessionSpec => []AnswerIsCurrent
  <1>1. SessionIInv => AnswerIsCurrent
    BY DEF SessionIInv, IInv, AnswerIsCurrent, StaleIsTracked, Phases, Scanning,
      Excuses, InCall
  <1>2. QED
    BY <1>1, SessionInvariance, PTL
-----------------------------------------------------------------------------
(***************************************************************************)
(* The books of the client and of the server.  First what Matches says of  *)
(* sequences of ids, then what each step does to the pipeline.             *)
(***************************************************************************)
AnyId == RequestIds \cup {NoRequest}

LEMMA NothingMatches == Matches(<<>>, <<>>)
  BY DEF Matches, ToSet

(* What is on its way is owed, and what is owed is on its way.             *)
LEMMA MatchedBothWays ==
  ASSUME NEW o, NEW p, Matches(o, p)
  PROVE  /\ \A k \in DOMAIN p : p[k] # NoRequest => p[k] \in ToSet(o)
         /\ \A j \in DOMAIN o : o[j] \in ToSet(p) /\ o[j] # NoRequest
  <1>1. \A k \in DOMAIN p : p[k] \in ToSet(p)
    BY DEF ToSet
  <1>2. \A j \in DOMAIN o : o[j] \in ToSet(o)
    BY DEF ToSet
  <1>3. QED
    BY <1>1, <1>2 DEF Matches

(* A line that is sent: a request no other has the id of, or none.         *)
LEMMA MatchesAppend ==
  ASSUME NEW o \in Seq(RequestIds), NEW p \in Seq(AnyId), NEW id \in AnyId,
         Matches(o, p), id \notin ToSet(o)
  PROVE  Matches(IF id = NoRequest THEN o ELSE Append(o, id), Append(p, id))
  <1> DEFINE q == Append(p, id)
             n == Len(p) + 1
  <1>1. /\ q \in Seq(AnyId) /\ Len(p) \in Nat /\ DOMAIN p = 1 .. Len(p)
        /\ DOMAIN q = 1 .. n /\ q[n] = id
        /\ \A k \in 1 .. Len(p) : q[k] = p[k]
    BY AppendProperties, LenProperties
  <1>2. /\ DOMAIN q = DOMAIN p \cup {n} /\ n \notin DOMAIN p
        /\ \A k \in DOMAIN p : k < n /\ k \in Int
    BY <1>1
  <1>3. ToSet(q) = ToSet(p) \cup {id}
    BY <1>1, <1>2 DEF ToSet
  <1>4. ASSUME NEW k \in DOMAIN q, NEW l \in DOMAIN q, q[k] = q[l], q[k] # NoRequest
        PROVE  k = l
    <2>1. \A m \in DOMAIN p : p[m] # NoRequest => p[m] # id
      BY MatchedBothWays
    <2>2. QED
      BY <1>1, <1>2, <1>4, <2>1 DEF Matches
  <1>5. CASE id = NoRequest
    <2>1. \A i, j \in DOMAIN o :
            i < j => \E k, l \in DOMAIN q : k < l /\ q[k] = o[i] /\ q[l] = o[j]
      BY <1>1, <1>2 DEF Matches
    <2>2. ToSet(o) = ToSet(q) \ {NoRequest}
      BY <1>3, <1>5 DEF Matches
    <2>3. QED
      BY <1>4, <1>5, <2>1, <2>2 DEF Matches
  <1>6. CASE id # NoRequest
    <2> DEFINE r == Append(o, id)
               m == Len(o) + 1
    <2>1. id \in RequestIds
      BY <1>6 DEF AnyId
    <2>2. /\ Len(o) \in Nat /\ DOMAIN o = 1 .. Len(o)
          /\ DOMAIN r = 1 .. m /\ r[m] = id
          /\ \A i \in 1 .. Len(o) : r[i] = o[i]
      BY <2>1, AppendProperties, LenProperties
    <2>3. ToSet(r) = ToSet(o) \cup {id}
      BY <2>2 DEF ToSet
    <2>4. ToSet(r) = ToSet(q) \ {NoRequest}
      BY <1>3, <1>6, <2>3 DEF Matches
    <2>5. ASSUME NEW i \in DOMAIN r, NEW j \in DOMAIN r, i < j
          PROVE  \E k, l \in DOMAIN q : k < l /\ q[k] = r[i] /\ q[l] = r[j]
      <3>1. i \in DOMAIN o /\ r[i] = o[i]
        BY <2>2, <2>5
      <3>2. CASE j = m
        <4>1. r[i] \in ToSet(p)
          BY <3>1 DEF Matches, ToSet
        <4>2. PICK k \in DOMAIN p : p[k] = r[i]
          BY <4>1 DEF ToSet
        <4>3. QED
          BY <1>1, <1>2, <2>2, <3>2, <4>2
      <3>3. CASE j # m
        <4>1. j \in DOMAIN o /\ r[j] = o[j]
          BY <2>2, <3>3
        <4>2. PICK k, l \in DOMAIN p : k < l /\ p[k] = o[i] /\ p[l] = o[j]
          BY <2>5, <3>1, <4>1 DEF Matches
        <4>3. QED
          BY <1>1, <1>2, <3>1, <4>1, <4>2
      <3>4. QED
        BY <3>2, <3>3
    <2>6. \A k, l \in DOMAIN q : q[k] = q[l] /\ q[k] # NoRequest => k = l
      BY <1>4
    <2> HIDE DEF q, r
    <2>7. Matches(r, q)
      BY <2>4, <2>5, <2>6 DEF Matches
    <2>8. QED
      BY <1>6, <2>7 DEF q, r
  <1>7. QED
    BY <1>5, <1>6

(* What is no request leaves the pipeline.                                 *)
LEMMA MatchesDrop ==
  ASSUME NEW o \in Seq(RequestIds), NEW p \in Seq(AnyId), NEW q \in Seq(AnyId),
         NEW n \in DOMAIN p, Matches(o, p), p[n] = NoRequest,
         Len(p) = Len(q) + 1,
         \A k \in DOMAIN q : q[k] = IF k < n THEN p[k] ELSE p[k + 1]
  PROVE  Matches(o, q)
  <1> DEFINE up(k) == IF k < n THEN k ELSE k + 1
             dn(k) == IF k < n THEN k ELSE k - 1
  <1>1. /\ Len(p) \in Nat /\ Len(q) \in Nat
        /\ DOMAIN p = 1 .. Len(p) /\ DOMAIN q = 1 .. Len(q) /\ n \in Int
    BY LenProperties
  <1>2. \A k \in DOMAIN q : up(k) \in DOMAIN p /\ q[k] = p[up(k)]
    BY <1>1
  <1>3. \A k \in DOMAIN p : p[k] # NoRequest =>
          dn(k) \in DOMAIN q /\ q[dn(k)] = p[k] /\ up(dn(k)) = k
    BY <1>1
  <1>4. \A k, l \in DOMAIN p : k < l /\ k # n /\ l # n => dn(k) < dn(l)
    BY <1>1
  <1>5. \A k, l \in DOMAIN q : up(k) = up(l) => k = l
    BY <1>1
  <1> HIDE DEF up, dn
  <1>6. ToSet(o) = ToSet(q) \ {NoRequest}
    <2>1. ToSet(q) \ {NoRequest} \subseteq ToSet(p) \ {NoRequest}
      BY <1>2 DEF ToSet
    <2>2. ToSet(p) \ {NoRequest} \subseteq ToSet(q) \ {NoRequest}
      <3>1. ASSUME NEW x \in ToSet(p) \ {NoRequest}
            PROVE  x \in ToSet(q)
        <4>1. PICK k \in DOMAIN p : x = p[k]
          BY DEF ToSet
        <4>2. dn(k) \in DOMAIN q /\ x = q[dn(k)]
          BY <1>3, <4>1
        <4>3. QED
          BY <4>2 DEF ToSet
      <3>2. QED
        BY <3>1
    <2>3. QED
      BY <2>1, <2>2 DEF Matches
  <1>7. \A k, l \in DOMAIN q : q[k] = q[l] /\ q[k] # NoRequest => k = l
    BY <1>2, <1>5 DEF Matches
  <1>8. ASSUME NEW i \in DOMAIN o, NEW j \in DOMAIN o, i < j
        PROVE  \E k, l \in DOMAIN q : k < l /\ q[k] = o[i] /\ q[l] = o[j]
    <2>1. PICK k, l \in DOMAIN p : k < l /\ p[k] = o[i] /\ p[l] = o[j]
      BY <1>8 DEF Matches
    <2>2. o[i] # NoRequest /\ o[j] # NoRequest
      BY MatchedBothWays
    <2>3. k # n /\ l # n
      BY <2>1, <2>2
    <2>4. dn(k) \in DOMAIN q /\ dn(l) \in DOMAIN q /\ dn(k) < dn(l)
          /\ q[dn(k)] = o[i] /\ q[dn(l)] = o[j]
      BY <1>3, <1>4, <2>1, <2>2, <2>3
    <2>5. QED
      BY <2>4
  <1>9. QED
    BY <1>6, <1>7, <1>8 DEF Matches

(* A request at the head of the pipeline is the first that is owed.        *)
LEMMA MatchesTake ==
  ASSUME NEW o \in Seq(RequestIds), NEW p \in Seq(AnyId), NEW i \in DOMAIN o,
         Matches(o, p), p # <<>>, p[1] = o[i]
  PROVE  i = 1 /\ RemoveAt(o, i) = Tail(o) /\ Matches(Tail(o), Tail(p))
  <1>1. /\ Len(o) \in Nat /\ Len(p) \in Nat \ {0} /\ i \in Int
        /\ DOMAIN o = 1 .. Len(o) /\ DOMAIN p = 1 .. Len(p)
    BY LenProperties, EmptySeq
  <1>2. \A j \in DOMAIN o : o[j] # NoRequest
    BY MatchedBothWays
  <1>3. i = 1
    <2>1. SUFFICES ASSUME i # 1 PROVE FALSE
      OBVIOUS
    <2>2. 1 \in DOMAIN o /\ 1 < i
      BY <1>1, <2>1
    <2>3. PICK k, l \in DOMAIN p : k < l /\ p[k] = o[1] /\ p[l] = o[i]
      BY <2>2 DEF Matches
    <2>4. l = 1
      BY <1>1, <1>2, <2>3 DEF Matches
    <2>5. QED
      BY <1>1, <2>3, <2>4
  <1>4. o # <<>> /\ Len(o) >= 1
    BY <1>1
  <1>5. RemoveAt(o, i) = Tail(o)
    <2>1. SubSeq(o, 1, 0) = <<>>
      BY SubSeqEmpty
    <2>2. Tail(o) = SubSeq(o, 2, Len(o)) /\ Tail(o) \in Seq(RequestIds)
      BY <1>4, TailIsSubSeq, HeadTailProperties
    <2>3. QED
      BY <1>3, <2>1, <2>2, ConcatEmptySeq DEF RemoveAt
  <1> DEFINE r == Tail(o)
             q == Tail(p)
  <1>6. /\ r \in Seq(RequestIds) /\ DOMAIN r = 1 .. Len(o) - 1
        /\ \A j \in 1 .. Len(o) - 1 : r[j] = o[j + 1]
    BY <1>1, <1>4, HeadTailProperties, LenProperties
  <1>7. /\ q \in Seq(AnyId) /\ DOMAIN q = 1 .. Len(p) - 1
        /\ \A k \in 1 .. Len(p) - 1 : q[k] = p[k + 1]
    BY <1>1, HeadTailProperties, LenProperties
  <1> HIDE DEF r, q
  <1>8. ASSUME NEW k \in DOMAIN q, NEW l \in DOMAIN q, q[k] = q[l], q[k] # NoRequest
        PROVE  k = l
    <2>1. /\ k + 1 \in DOMAIN p /\ l + 1 \in DOMAIN p /\ k \in Int /\ l \in Int
          /\ q[k] = p[k + 1] /\ q[l] = p[l + 1]
      BY <1>1, <1>7
    <2>2. k + 1 = l + 1
      BY <1>8, <2>1 DEF Matches
    <2>3. QED
      BY <2>1, <2>2
  <1>9. \A k \in DOMAIN p : k # 1 => p[k] # o[1]
    BY <1>1, <1>2, <1>3 DEF Matches
  <1>10. \A j \in DOMAIN r : \E k \in DOMAIN q : q[k] = r[j]
    <2>1. TAKE j \in DOMAIN r
    <2>2. 1 \in DOMAIN o /\ j + 1 \in DOMAIN o /\ 1 < j + 1 /\ r[j] = o[j + 1]
      BY <1>1, <1>4, <1>6
    <2>3. PICK k, l \in DOMAIN p : k < l /\ p[k] = o[1] /\ p[l] = o[j + 1]
      BY <2>2 DEF Matches
    <2>4. l - 1 \in DOMAIN q /\ q[l - 1] = r[j]
      BY <1>1, <1>7, <2>2, <2>3
    <2>5. QED
      BY <2>4
  <1>11. ASSUME NEW k \in DOMAIN q, q[k] # NoRequest
         PROVE  \E j \in DOMAIN r : r[j] = q[k]
    <2>1. k + 1 \in DOMAIN p /\ q[k] = p[k + 1] /\ k + 1 # 1
      BY <1>1, <1>7
    <2>2. p[k + 1] \in ToSet(o)
      BY <1>11, <2>1, MatchedBothWays
    <2>3. PICK j \in DOMAIN o : o[j] = p[k + 1]
      BY <2>2 DEF ToSet
    <2>4. j # 1
      BY <1>9, <2>1, <2>3
    <2>5. j - 1 \in DOMAIN r /\ r[j - 1] = q[k]
      BY <1>1, <1>6, <2>1, <2>3, <2>4
    <2>6. QED
      BY <2>5
  <1>12. ToSet(r) = ToSet(q) \ {NoRequest}
    <2>1. \A j \in DOMAIN r : r[j] # NoRequest
      BY <1>1, <1>2, <1>6
    <2>2. QED
      BY <1>10, <1>11, <2>1 DEF ToSet
  <1>13. ASSUME NEW j \in DOMAIN r, NEW m \in DOMAIN r, j < m
         PROVE  \E k, l \in DOMAIN q : k < l /\ q[k] = r[j] /\ q[l] = r[m]
    <2>1. /\ j + 1 \in DOMAIN o /\ m + 1 \in DOMAIN o /\ j + 1 < m + 1
          /\ r[j] = o[j + 1] /\ r[m] = o[m + 1]
      BY <1>1, <1>6, <1>13
    <2>2. PICK k, l \in DOMAIN p : k < l /\ p[k] = o[j + 1] /\ p[l] = o[m + 1]
      BY <2>1 DEF Matches
    <2>3. k # 1
      <3>1. SUFFICES ASSUME k = 1 PROVE FALSE
        OBVIOUS
      <3>2. 1 \in DOMAIN o /\ 1 < j + 1
        BY <1>1, <1>6
      <3>3. PICK x, y \in DOMAIN p : x < y /\ p[x] = o[1] /\ p[y] = o[j + 1]
        BY <2>1, <3>2 DEF Matches
      <3>4. y = 1
        BY <1>2, <2>1, <2>2, <3>1, <3>3 DEF Matches
      <3>5. QED
        BY <1>1, <3>3, <3>4
    <2>4. /\ k - 1 \in DOMAIN q /\ l - 1 \in DOMAIN q /\ k - 1 < l - 1
          /\ q[k - 1] = r[j] /\ q[l - 1] = r[m]
      BY <1>1, <1>7, <2>1, <2>2, <2>3
    <2>5. QED
      BY <2>4
  <1>14. Matches(r, q)
    BY <1>8, <1>12, <1>13 DEF Matches
  <1>15. QED
    BY <1>3, <1>5, <1>14 DEF r, q
-----------------------------------------------------------------------------
(* A client that follows the protocol sends notifications/initialized as   *)
(* the notification that it is; route ignores it whatever its id.          *)
InitializedIsNoRequest ==
  \A line \in Inputs : line.is = "notifications/initialized" => line.id = NoRequest

(* The line at hand.  An answer is known only of a line; one without an id *)
(* is what is not JSON, and no work is under way for it.                   *)
HandInv ==
  /\ current = NoLine => reply = "none"
  /\ current # NoLine /\ current.id = NoRequest => reply = "parse error" /\ pc = "idle"

BooksInv == SessionTypeOK /\ HandInv /\ AnswersMatchRequests

LEMMA LineTypes ==
  /\ \A line \in Inputs \cup {NoLine} : line.id \in AnyId
  /\ NoLine.id = NoRequest
  <1>1. ASSUME NEW line \in Inputs
        PROVE  line.id \in AnyId
    <2>1. line \in Line
      BY SessionAssumption
    <2>2. QED
      BY <2>1 DEF Line, AnyId
  <1>2. NoLine.id = NoRequest
    BY DEF NoLine
  <1>3. QED
    BY <1>1, <1>2 DEF AnyId

LEMMA Routed ==
  ASSUME InitializedIsNoRequest, NEW line \in Inputs, line.is # "not UTF-8"
  PROVE  /\ Route(line) \in {"parse error", "ignore", "call", "error", "result"}
         /\ Route(line) = "ignore" => line.id = NoRequest
         /\ Route(line) # "ignore" => line # NoLine
         /\ Route(line) # "ignore" /\ line.id = NoRequest => Route(line) = "parse error"
  <1>1. /\ line \in Line
        /\ line.is \in {"blank", "not JSON"} \cup Methods
        /\ line.is = "blank" => line.id = NoRequest
    BY SessionAssumption DEF Line, Methods
  <1>2. NoLine.is = "blank"
    BY DEF NoLine
  <1>3. CASE line.is = "not JSON"
    <2>1. /\ line.is \notin {"blank", "notifications/initialized"}
          /\ line.is \notin Methods \ {"notifications/initialized"}
      BY <1>3 DEF Methods
    <2>2. Route(line) = "parse error"
      BY <1>3, <2>1 DEF Route
    <2>3. QED
      BY <1>2, <1>3, <2>2
  <1>4. CASE line.is \in {"blank", "notifications/initialized"}
    <2>1. line.is # "not JSON" /\ line.is \notin Methods \ {"notifications/initialized"}
      BY <1>4 DEF Methods
    <2>2. Route(line) = "ignore"
      BY <1>4, <2>1 DEF Route
    <2>3. line.id = NoRequest
      BY <1>1, <1>4 DEF InitializedIsNoRequest
    <2>4. QED
      BY <2>2, <2>3
  <1>5. CASE line.is \in Methods \ {"notifications/initialized"}
    <2>1. line # NoLine
      BY <1>2, <1>5 DEF Methods
    <2>2. line.is # "not JSON" /\ line.is \notin {"blank", "notifications/initialized"}
      BY <1>5 DEF Methods
    <2>3. Route(line) = IF line.id = NoRequest THEN "ignore"
                        ELSE IF line.is \in Calls THEN "call"
                        ELSE IF line.is = "unknown" THEN "error"
                        ELSE "result"
      BY <1>5, <2>2 DEF Route
    <2>4. QED
      BY <2>1, <2>3
  <1>6. QED
    BY <1>1, <1>3, <1>4, <1>5

(* What the ids of a pipe are, and what becomes of them at its ends.       *)
LEMMA IdsAreASeq ==
  ASSUME NEW S, NEW lines \in Seq(S), \A x \in S : x.id \in AnyId
  PROVE  /\ IdsOf(lines) \in Seq(AnyId)
         /\ Len(IdsOf(lines)) = Len(lines)
         /\ \A i \in 1 .. Len(lines) : IdsOf(lines)[i] = lines[i].id
  <1>1. Len(lines) \in Nat /\ DOMAIN lines = 1 .. Len(lines)
        /\ \A i \in 1 .. Len(lines) : lines[i] \in S
    BY LenProperties, ElementOfSeq
  <1>2. IdsOf(lines) \in [1 .. Len(lines) -> AnyId]
    BY <1>1 DEF IdsOf
  <1>3. IdsOf(lines) \in Seq(AnyId)
    BY <1>1, <1>2, SeqDef
  <1>4. Len(IdsOf(lines)) = Len(lines)
    BY <1>1, <1>2, <1>3, LenProperties
  <1>5. QED
    BY <1>1, <1>3, <1>4 DEF IdsOf

LEMMA IdsOfAppend ==
  ASSUME NEW S, NEW lines \in Seq(S), \A x \in S : x.id \in AnyId, NEW line \in S
  PROVE  IdsOf(Append(lines, line)) = Append(IdsOf(lines), line.id)
  <1> DEFINE longer == Append(lines, line)
  <1>1. /\ longer \in Seq(S) /\ Len(longer) = Len(lines) + 1
        /\ \A i \in 1 .. Len(lines) : longer[i] = lines[i]
        /\ longer[Len(lines) + 1] = line /\ Len(lines) \in Nat
    BY AppendProperties, LenProperties
  <1> HIDE DEF longer
  <1>2. /\ IdsOf(longer) \in Seq(AnyId) /\ Len(IdsOf(longer)) = Len(lines) + 1
        /\ \A i \in 1 .. Len(lines) + 1 : IdsOf(longer)[i] = longer[i].id
    BY <1>1, IdsAreASeq
  <1>3. /\ Append(IdsOf(lines), line.id) \in Seq(AnyId)
        /\ Len(Append(IdsOf(lines), line.id)) = Len(lines) + 1
        /\ \A i \in 1 .. Len(lines) : Append(IdsOf(lines), line.id)[i] = lines[i].id
        /\ Append(IdsOf(lines), line.id)[Len(lines) + 1] = line.id
    BY IdsAreASeq, AppendProperties
  <1>4. \A i \in 1 .. Len(lines) + 1 : IdsOf(longer)[i] = Append(IdsOf(lines), line.id)[i]
    BY <1>1, <1>2, <1>3
  <1>5. IdsOf(longer) = Append(IdsOf(lines), line.id)
    BY <1>2, <1>3, <1>4, SeqEqual
  <1>6. QED
    BY <1>5 DEF longer

LEMMA IdsOfTail ==
  ASSUME NEW S, NEW lines \in Seq(S), \A x \in S : x.id \in AnyId, lines # <<>>
  PROVE  /\ IdsOf(lines) # <<>> /\ IdsOf(lines)[1] = lines[1].id
         /\ IdsOf(Tail(lines)) = Tail(IdsOf(lines))
  <1> DEFINE rest == Tail(lines)
             ids  == IdsOf(lines)
  <1>1. /\ Len(lines) \in Nat \ {0} /\ rest \in Seq(S) /\ Len(rest) = Len(lines) - 1
        /\ \A i \in 1 .. Len(lines) - 1 : rest[i] = lines[i + 1]
    BY EmptySeq, HeadTailProperties
  <1>2. /\ ids \in Seq(AnyId) /\ Len(ids) = Len(lines)
        /\ \A i \in 1 .. Len(lines) : ids[i] = lines[i].id
    BY IdsAreASeq
  <1> HIDE DEF rest, ids
  <1>3. ids # <<>> /\ ids[1] = lines[1].id
    BY <1>1, <1>2, EmptySeq
  <1>4. /\ Tail(ids) \in Seq(AnyId) /\ Len(Tail(ids)) = Len(lines) - 1
        /\ \A i \in 1 .. Len(lines) - 1 : Tail(ids)[i] = ids[i + 1]
    BY <1>2, <1>3, HeadTailProperties
  <1>5. /\ IdsOf(rest) \in Seq(AnyId) /\ Len(IdsOf(rest)) = Len(lines) - 1
        /\ \A i \in 1 .. Len(lines) - 1 : IdsOf(rest)[i] = rest[i].id
    BY <1>1, IdsAreASeq
  <1>6. \A i \in 1 .. Len(lines) - 1 : IdsOf(rest)[i] = Tail(ids)[i]
    <2>1. TAKE i \in 1 .. Len(lines) - 1
    <2>2. i \in 1 .. Len(lines) /\ i + 1 \in 1 .. Len(lines)
      BY <1>1
    <2>3. ids[i + 1] = lines[i + 1].id
      BY <1>2, <2>2
    <2>4. Tail(ids)[i] = ids[i + 1] /\ IdsOf(rest)[i] = rest[i].id /\ rest[i] = lines[i + 1]
      BY <1>1, <1>4, <1>5
    <2>5. QED
      BY <2>3, <2>4
  <1>7. IdsOf(rest) = Tail(ids)
    BY <1>4, <1>5, <1>6, SeqEqual
  <1>8. QED
    BY <1>3, <1>7 DEF rest, ids

LEMMA HandIds ==
  ASSUME NEW line \in Inputs
  PROVE  IdsOf(<<line>>) = <<line.id>> /\ <<line.id>> \in Seq(AnyId)
  <1> DEFINE one == <<line>>
             id  == line.id
  <1>1. id \in AnyId
    BY LineTypes
  <1>2. one \in Seq({line}) /\ Len(one) = 1 /\ one[1] = line
    OBVIOUS
  <1> HIDE DEF one
  <1>3. /\ IdsOf(one) \in Seq(AnyId) /\ Len(IdsOf(one)) = 1 /\ IdsOf(one)[1] = id
    BY <1>1, <1>2, IdsAreASeq
  <1>4. <<id>> \in Seq(AnyId) /\ Len(<<id>>) = 1 /\ <<id>>[1] = id
    BY <1>1
  <1>5. \A i \in 1 .. Len(IdsOf(one)) : IdsOf(one)[i] = <<id>>[i]
    BY <1>3, <1>4
  <1>6. IdsOf(one) = <<id>>
    BY <1>3, <1>4, <1>5, SeqEqual
  <1>7. QED
    BY <1>4, <1>6 DEF one

LEMMA InHandIds ==
  ASSUME current \in Inputs \cup {NoLine}
  PROVE  /\ IdsOf(InHand) = IF current = NoLine THEN <<>> ELSE <<current.id>>
         /\ IdsOf(InHand) \in Seq(AnyId)
  <1>1. CASE current = NoLine
    BY <1>1 DEF InHand, IdsOf
  <1>2. CASE current # NoLine
    BY <1>2, HandIds DEF InHand
  <1>3. QED
    BY <1>1, <1>2

-----------------------------------------------------------------------------
(* The pipeline: what is answered, at hand and unread.                     *)
LEMMA Parts ==
  ASSUME SessionTypeOK
  PROVE  /\ IdsOf(stdout) \in Seq(AnyId) /\ IdsOf(InHand) \in Seq(AnyId)
         /\ IdsOf(stdin) \in Seq(AnyId) /\ Pipeline \in Seq(AnyId)
  <1>1. IdsOf(stdout) \in Seq(AnyId)
    <2>1. stdout \in Seq([id : AnyId, is : Replies])
      BY DEF SessionTypeOK, AnyId
    <2>2. \A x \in [id : AnyId, is : Replies] : x.id \in AnyId
      OBVIOUS
    <2>3. QED
      BY <2>1, <2>2, IdsAreASeq
  <1>2. IdsOf(InHand) \in Seq(AnyId)
    BY InHandIds DEF SessionTypeOK
  <1>3. IdsOf(stdin) \in Seq(AnyId)
    BY IdsAreASeq, LineTypes DEF SessionTypeOK
  <1>4. QED
    BY <1>1, <1>2, <1>3, ConcatProperties DEF Pipeline

(* A line enters at its end.                                               *)
LEMMA PipeAppend ==
  ASSUME NEW s \in Seq(AnyId), NEW h \in Seq(AnyId), NEW t \in Seq(AnyId), NEW id \in AnyId
  PROVE  (s \o h) \o Append(t, id) = Append((s \o h) \o t, id)
  <1>1. s \o h \in Seq(AnyId) /\ <<id>> \in Seq(AnyId) /\ (s \o h) \o t \in Seq(AnyId)
    BY ConcatProperties
  <1>2. Append(t, id) = t \o <<id>> /\ Append((s \o h) \o t, id) = ((s \o h) \o t) \o <<id>>
    BY <1>1, AppendIsConcat
  <1>3. QED
    BY <1>1, <1>2, ConcatAssociative

(* A line that is read is at hand.                                         *)
LEMMA PipeRead ==
  ASSUME NEW s \in Seq(AnyId), NEW t \in Seq(AnyId), t # <<>>
  PROVE  (s \o <<>>) \o t = (s \o <<t[1]>>) \o Tail(t)
  <1>1. t[1] \in AnyId /\ Tail(t) \in Seq(AnyId) /\ Len(t) \in Nat \ {0}
    BY EmptySeq, ElementOfSeq, HeadTailProperties
  <1>2. t = <<t[1]>> \o Tail(t)
    <2>1. SubSeq(t, 1, Len(t)) = t
      BY SubSeqFull
    <2>2. SubSeq(t, 1, Len(t)) = <<t[1]>> \o SubSeq(t, 2, Len(t))
      <3>1. 1 \in 1 .. Len(t) /\ Len(t) \in 1 .. Len(t)
        BY <1>1
      <3>2. SubSeq(t, 1, Len(t)) = <<t[1]>> \o SubSeq(t, 1 + 1, Len(t))
        BY <3>1, SubSeqRecursiveFirst, Zenon
      <3>3. QED
        BY <3>2
    <2>3. QED
      BY <2>1, <2>2, TailIsSubSeq
  <1>3. <<t[1]>> \in Seq(AnyId) /\ s \o <<>> = s
    BY <1>1, ConcatEmptySeq
  <1>4. s \o (<<t[1]>> \o Tail(t)) = (s \o <<t[1]>>) \o Tail(t)
    BY <1>1, <1>3, ConcatAssociative
  <1>5. QED
    BY <1>2, <1>3, <1>4

(* The answer of what is at hand takes its place.                          *)
LEMMA PipeWrite ==
  ASSUME NEW s \in Seq(AnyId), NEW t \in Seq(AnyId), NEW id \in AnyId
  PROVE  (s \o <<id>>) \o t = (Append(s, id) \o <<>>) \o t
  <1>1. Append(s, id) = s \o <<id>> /\ Append(s, id) \in Seq(AnyId)
    BY AppendIsConcat, AppendProperties
  <1>2. Append(s, id) \o <<>> = Append(s, id)
    BY <1>1, ConcatEmptySeq
  <1>3. QED
    BY <1>1, <1>2

(* An answer leaves at its head.                                           *)
LEMMA PipeTake ==
  ASSUME NEW s \in Seq(AnyId), NEW h \in Seq(AnyId), NEW t \in Seq(AnyId), s # <<>>
  PROVE  /\ (s \o h) \o t # <<>> /\ ((s \o h) \o t)[1] = s[1]
         /\ (Tail(s) \o h) \o t = Tail((s \o h) \o t)
  <1> DEFINE u == h \o t
  <1>1. u \in Seq(AnyId) /\ (s \o h) \o t = s \o u
        /\ Tail(s) \in Seq(AnyId) /\ (Tail(s) \o h) \o t = Tail(s) \o u
    BY ConcatProperties, ConcatAssociative, HeadTailProperties
  <1> HIDE DEF u
  <1>2. /\ Len(s) \in Nat \ {0} /\ Len(u) \in Nat
        /\ s \o u \in Seq(AnyId) /\ Len(s \o u) = Len(s) + Len(u)
        /\ \A i \in 1 .. Len(s) + Len(u) :
             (s \o u)[i] = IF i <= Len(s) THEN s[i] ELSE u[i - Len(s)]
    BY <1>1, EmptySeq, LenProperties, ConcatProperties
  <1>3. s \o u # <<>> /\ (s \o u)[1] = s[1]
    <2>1. Len(s \o u) # 0 /\ 1 \in 1 .. Len(s) + Len(u) /\ 1 <= Len(s)
      BY <1>2
    <2>2. QED
      BY <1>2, <2>1, EmptySeq
  <1>4. /\ Len(Tail(s)) = Len(s) - 1
        /\ \A i \in 1 .. Len(s) - 1 : Tail(s)[i] = s[i + 1]
    BY <1>2, HeadTailProperties
  <1>5. /\ Tail(s) \o u \in Seq(AnyId) /\ Len(Tail(s) \o u) = Len(s) - 1 + Len(u)
        /\ \A i \in 1 .. Len(s) - 1 + Len(u) :
             (Tail(s) \o u)[i] = IF i <= Len(s) - 1 THEN Tail(s)[i] ELSE u[i - (Len(s) - 1)]
    BY <1>1, <1>4, ConcatProperties
  <1>6. /\ Tail(s \o u) \in Seq(AnyId) /\ Len(Tail(s \o u)) = Len(s) + Len(u) - 1
        /\ \A i \in 1 .. Len(s) + Len(u) - 1 : Tail(s \o u)[i] = (s \o u)[i + 1]
    BY <1>2, <1>3, HeadTailProperties
  <1>7. ASSUME NEW i \in 1 .. Len(s) - 1 + Len(u)
        PROVE  (Tail(s) \o u)[i] = Tail(s \o u)[i]
    <2>1. /\ i \in 1 .. Len(s) + Len(u) - 1 /\ i + 1 \in 1 .. Len(s) + Len(u)
          /\ i + 1 - Len(s) = i - (Len(s) - 1)
      BY <1>2
    <2>2. Tail(s \o u)[i] = (s \o u)[i + 1]
      BY <1>6, <2>1
    <2>3. CASE i <= Len(s) - 1
      <3>1. i + 1 <= Len(s) /\ i \in 1 .. Len(s) - 1
        BY <1>2, <2>3
      <3>2. QED
        BY <1>2, <1>4, <1>5, <2>1, <2>2, <2>3, <3>1
    <2>4. CASE ~(i <= Len(s) - 1)
      <3>1. ~(i + 1 <= Len(s))
        BY <1>2, <2>4
      <3>2. QED
        BY <1>2, <1>5, <2>1, <2>2, <2>4, <3>1
    <2>5. QED
      BY <2>3, <2>4
  <1>8. Len(Tail(s) \o u) = Len(Tail(s \o u))
    BY <1>2, <1>5, <1>6
  <1>9. Tail(s) \o u = Tail(s \o u)
    <2>1. \A i \in 1 .. Len(Tail(s) \o u) : (Tail(s) \o u)[i] = Tail(s \o u)[i]
      BY <1>5, <1>7
    <2>2. QED
      BY <1>5, <1>6, <1>8, <2>1, SeqEqual
  <1>10. QED
    BY <1>1, <1>3, <1>9

(* A line that is ignored leaves the pipeline where the unread begin.      *)
LEMMA PipeIgnore ==
  ASSUME NEW o \in Seq(RequestIds), NEW s \in Seq(AnyId), NEW t \in Seq(AnyId),
         t # <<>>, t[1] = NoRequest, Matches(o, (s \o <<>>) \o t)
  PROVE  Matches(o, (s \o <<>>) \o Tail(t))
  <1> DEFINE p == s \o t
             q == s \o Tail(t)
             n == Len(s) + 1
  <1>1. s \o <<>> = s
    BY ConcatEmptySeq
  <1>2. /\ Len(s) \in Nat /\ Len(t) \in Nat \ {0} /\ Tail(t) \in Seq(AnyId)
        /\ Len(Tail(t)) = Len(t) - 1
        /\ \A i \in 1 .. Len(t) - 1 : Tail(t)[i] = t[i + 1]
    BY LenProperties, EmptySeq, HeadTailProperties
  <1>3. /\ p \in Seq(AnyId) /\ Len(p) = Len(s) + Len(t)
        /\ \A i \in 1 .. Len(s) + Len(t) : p[i] = IF i <= Len(s) THEN s[i] ELSE t[i - Len(s)]
    BY ConcatProperties
  <1>4. /\ q \in Seq(AnyId) /\ Len(q) = Len(s) + (Len(t) - 1)
        /\ \A i \in 1 .. Len(s) + (Len(t) - 1) :
             q[i] = IF i <= Len(s) THEN s[i] ELSE Tail(t)[i - Len(s)]
    BY <1>2, ConcatProperties
  <1>5. DOMAIN p = 1 .. Len(s) + Len(t) /\ DOMAIN q = 1 .. Len(s) + (Len(t) - 1)
    BY <1>3, <1>4, LenProperties
  <1> HIDE DEF p, q
  <1>6. n \in DOMAIN p /\ p[n] = NoRequest
    BY <1>2, <1>3, <1>5
  <1>7. Len(p) = Len(q) + 1
    BY <1>2, <1>3, <1>4
  <1>8. ASSUME NEW k \in DOMAIN q
        PROVE  q[k] = IF k < n THEN p[k] ELSE p[k + 1]
    <2>1. /\ k \in 1 .. Len(s) + (Len(t) - 1) /\ k \in 1 .. Len(s) + Len(t)
          /\ k + 1 \in 1 .. Len(s) + Len(t) /\ k + 1 - Len(s) = k - Len(s) + 1
      BY <1>2, <1>5
    <2>2. CASE k < n
      <3>1. k <= Len(s)
        BY <1>2, <2>1, <2>2
      <3>2. QED
        BY <1>3, <1>4, <2>1, <2>2, <3>1
    <2>3. CASE ~(k < n)
      <3>1. /\ ~(k <= Len(s)) /\ ~(k + 1 <= Len(s)) /\ k - Len(s) \in 1 .. Len(t) - 1
        BY <1>2, <2>1, <2>3
      <3>2. Tail(t)[k - Len(s)] = t[k - Len(s) + 1]
        BY <1>2, <3>1
      <3>3. q[k] = Tail(t)[k - Len(s)]
        BY <1>4, <2>1, <3>1
      <3>4. p[k + 1] = t[k + 1 - Len(s)]
        BY <1>3, <2>1, <3>1
      <3>5. QED
        BY <2>1, <2>3, <3>2, <3>3, <3>4
    <2>4. QED
      BY <2>2, <2>3
  <1> HIDE DEF n
  <1>9. Matches(o, p)
    BY <1>1 DEF p
  <1>10. Matches(o, q)
    BY <1>3, <1>4, <1>6, <1>7, <1>8, <1>9, MatchesDrop
  <1>11. QED
    BY <1>1, <1>10 DEF q

-----------------------------------------------------------------------------
(* The steps, one by one.  First those of the client.                      *)
LEMMA SendKeepsBooks ==
  ASSUME BooksInv, NEW line \in Inputs, Send(line)
  PROVE  BooksInv'
  <1>1. /\ stdin \in Seq(Inputs) /\ owed \in Seq(RequestIds) /\ line.id \in AnyId
        /\ Matches(owed, Pipeline)
    BY LineTypes DEF BooksInv, SessionTypeOK, AnswersMatchRequests
  <1>2. /\ stdin' = Append(stdin, line) /\ line.id \notin ToSet(owed)
        /\ owed' = IF line.id = NoRequest THEN owed ELSE Append(owed, line.id)
        /\ UNCHANGED <<stdout, current, reply, pc, session>>
    BY DEF Send, vars
  <1>3. SessionTypeOK'
    <2>1. stdin' \in Seq(Inputs)
      BY <1>1, <1>2, AppendProperties
    <2>2. owed' \in Seq(RequestIds)
      BY <1>1, <1>2, AppendProperties DEF AnyId
    <2>3. QED
      BY <1>2, <2>1, <2>2 DEF BooksInv, SessionTypeOK
  <1>4. Pipeline' = Append(Pipeline, line.id)
    <2>1. IdsOf(stdin') = Append(IdsOf(stdin), line.id)
      BY <1>1, <1>2, IdsOfAppend, LineTypes
    <2>2. Pipeline' = IdsOf(stdout) \o IdsOf(InHand) \o Append(IdsOf(stdin), line.id)
      BY <1>2, <2>1 DEF Pipeline, InHand
    <2>3. QED
      BY <1>1, <2>2, Parts, PipeAppend DEF Pipeline, BooksInv
  <1>5. Matches(owed', Pipeline')
    BY <1>1, <1>2, <1>4, Parts, MatchesAppend DEF BooksInv
  <1>6. QED
    BY <1>2, <1>3, <1>5 DEF BooksInv, HandInv, AnswersMatchRequests

LEMMA ReceiveKeepsBooks ==
  ASSUME BooksInv, Receive
  PROVE  BooksInv'
  <1> DEFINE Answers == [id : AnyId, is : Replies]
  <1>1. /\ stdout \in Seq(Answers) /\ owed \in Seq(RequestIds)
        /\ Matches(owed, Pipeline)
        /\ \A i \in DOMAIN stdout : stdout[i].id = NoRequest => stdout[i].is = "parse error"
    BY DEF BooksInv, SessionTypeOK, AnswersMatchRequests, ToSet, AnyId
  <1>2. /\ stdout # <<>> /\ stdout' = Tail(stdout)
        /\ UNCHANGED <<stdin, current, reply, pc, session>>
        /\ \/ stdout[1].id \notin ToSet(owed) /\ owed' = owed
           \/ \E i \in DOMAIN owed : owed[i] = stdout[1].id /\ owed' = RemoveAt(owed, i)
    BY DEF Receive, vars
  <1>3. \A x \in Answers : x.id \in AnyId
    OBVIOUS
  <1> HIDE DEF Answers
  <1>4. /\ stdout' \in Seq(Answers)
        /\ DOMAIN stdout' = 1 .. Len(stdout) - 1 /\ DOMAIN stdout = 1 .. Len(stdout)
        /\ \A i \in 1 .. Len(stdout) - 1 : stdout'[i] = stdout[i + 1]
        /\ Len(stdout) \in Nat
    BY <1>1, <1>2, HeadTailProperties, LenProperties
  <1>5. ASSUME NEW i \in DOMAIN stdout', stdout'[i].id = NoRequest
        PROVE  stdout'[i].is = "parse error"
    <2>1. stdout'[i] = stdout[i + 1] /\ i + 1 \in DOMAIN stdout
      BY <1>4
    <2>2. QED
      BY <1>1, <1>5, <2>1
  <1>6. /\ Pipeline # <<>> /\ Pipeline[1] = stdout[1].id
        /\ Pipeline' = Tail(Pipeline)
    <2>1. /\ IdsOf(stdout) # <<>> /\ IdsOf(stdout)[1] = stdout[1].id
          /\ IdsOf(stdout') = Tail(IdsOf(stdout))
      BY <1>1, <1>2, <1>3, IdsOfTail
    <2>2. Pipeline' = Tail(IdsOf(stdout)) \o IdsOf(InHand) \o IdsOf(stdin)
      BY <1>2, <2>1 DEF Pipeline, InHand
    <2>3. QED
      BY <2>1, <2>2, Parts, PipeTake DEF Pipeline, BooksInv
  <1>7. Pipeline \in Seq(AnyId) /\ Len(Pipeline) \in Nat \ {0} /\ DOMAIN Pipeline = 1 .. Len(Pipeline)
    BY <1>6, Parts, EmptySeq, LenProperties DEF BooksInv
  <1>8. owed' \in Seq(RequestIds) /\ Matches(owed', Pipeline')
    <2>1. CASE stdout[1].id \notin ToSet(owed) /\ owed' = owed
      <3>1. 1 \in DOMAIN Pipeline
        BY <1>7
      <3>2. Pipeline[1] = NoRequest
        BY <1>1, <1>6, <2>1, <3>1, MatchedBothWays
      <3>3. /\ Pipeline' \in Seq(AnyId) /\ Len(Pipeline) = Len(Pipeline') + 1
            /\ DOMAIN Pipeline' = 1 .. Len(Pipeline) - 1
            /\ \A k \in 1 .. Len(Pipeline) - 1 : Pipeline'[k] = Pipeline[k + 1]
        <4>1. /\ Tail(Pipeline) \in Seq(AnyId) /\ Len(Tail(Pipeline)) = Len(Pipeline) - 1
              /\ \A k \in 1 .. Len(Tail(Pipeline)) : Tail(Pipeline)[k] = Pipeline[k + 1]
          BY <1>6, <1>7, HeadTailProperties
        <4>2. QED
          BY <1>6, <1>7, <4>1, LenProperties
      <3>4. \A k \in DOMAIN Pipeline' :
              Pipeline'[k] = IF k < 1 THEN Pipeline[k] ELSE Pipeline[k + 1]
        BY <1>7, <3>3
      <3>5. Matches(owed, Pipeline')
        BY <1>1, <1>7, <3>1, <3>2, <3>3, <3>4, MatchesDrop
      <3>6. QED
        BY <1>1, <2>1, <3>5
    <2>2. CASE \E i \in DOMAIN owed : owed[i] = stdout[1].id /\ owed' = RemoveAt(owed, i)
      <3>1. PICK i \in DOMAIN owed : owed[i] = stdout[1].id /\ owed' = RemoveAt(owed, i)
        BY <2>2
      <3>2. RemoveAt(owed, i) = Tail(owed) /\ Matches(Tail(owed), Tail(Pipeline))
        BY <1>1, <1>6, <1>7, <3>1, MatchesTake
      <3>3. owed # <<>>
        OBVIOUS
      <3>4. Tail(owed) \in Seq(RequestIds)
        BY <1>1, <3>3, HeadTailProperties
      <3>5. QED
        BY <1>6, <3>1, <3>2, <3>4
    <2>3. QED
      BY <1>2, <2>1, <2>2
  <1>9. SessionTypeOK'
    BY <1>2, <1>4, <1>8 DEF BooksInv, SessionTypeOK, Answers, AnyId
  <1>10. \A answer \in ToSet(stdout') : answer.id = NoRequest => answer.is = "parse error"
    BY <1>5 DEF ToSet
  <1>11. QED
    BY <1>2, <1>8, <1>9, <1>10 DEF BooksInv, HandInv, AnswersMatchRequests

-----------------------------------------------------------------------------
(* A line that is read: it is ignored, or at hand.                         *)
LEMMA ReadKeepsBooks ==
  ASSUME BooksInv, InitializedIsNoRequest, NEW line \in Inputs, ReadLine(line),
         UNCHANGED <<stdout, session, owed>>,
         \/ Route(line) = "ignore" /\ UNCHANGED <<current, reply, pc>>
         \/ Route(line) = "call" /\ current' = line /\ UNCHANGED reply
         \/ Route(line) \notin {"ignore", "call"} /\ current' = line /\ reply' = Route(line)
              /\ UNCHANGED pc
  PROVE  BooksInv'
  <1>1. /\ stdin \in Seq(Inputs) /\ owed \in Seq(RequestIds) /\ Matches(owed, Pipeline)
        /\ stdin # <<>> /\ line = stdin[1] /\ stdin' = Tail(stdin)
        /\ pc = "idle" /\ current = NoLine /\ reply = "none" /\ line.is # "not UTF-8"
    BY DEF BooksInv, SessionTypeOK, AnswersMatchRequests, ReadLine, HandInv
  <1>2. /\ Route(line) \in {"parse error", "ignore", "call", "error", "result"}
        /\ Route(line) = "ignore" => line.id = NoRequest
        /\ Route(line) # "ignore" => line # NoLine
        /\ Route(line) # "ignore" /\ line.id = NoRequest => Route(line) = "parse error"
    BY <1>1, Routed
  <1>3. SessionTypeOK'
    <2>1. stdin' \in Seq(Inputs)
      BY <1>1, HeadTailProperties
    <2>2. current' \in Inputs \cup {NoLine} /\ reply' \in Replies \cup {"none"}
      BY <1>1, <1>2 DEF Replies
    <2>3. QED
      BY <2>1, <2>2 DEF BooksInv, SessionTypeOK
  <1>4. HandInv'
    BY <1>1, <1>2 DEF HandInv
  <1>5. /\ IdsOf(stdin) # <<>> /\ IdsOf(stdin)[1] = line.id
        /\ IdsOf(stdin') = Tail(IdsOf(stdin))
    BY <1>1, IdsOfTail, LineTypes
  <1>6. Pipeline = (IdsOf(stdout) \o <<>>) \o IdsOf(stdin)
    BY <1>1, InHandIds DEF Pipeline
  <1>7. current' \in Inputs \cup {NoLine}
    BY <1>3 DEF SessionTypeOK
  <1>8. IdsOf(stdout) \in Seq(AnyId) /\ IdsOf(stdin) \in Seq(AnyId)
    BY Parts DEF BooksInv
  <1>9. Matches(owed', Pipeline')
    <2>1. CASE Route(line) = "ignore"
      <3>1. current' = NoLine
        BY <1>1, <2>1
      <3>2. IdsOf(InHand)' = <<>>
        BY <3>1 DEF InHand, IdsOf
      <3>3. Pipeline' = (IdsOf(stdout) \o <<>>) \o Tail(IdsOf(stdin))
        BY <1>5, <3>2 DEF Pipeline
      <3>4. Matches(owed, Pipeline')
        BY <1>1, <1>2, <1>5, <1>6, <1>8, <2>1, <3>3, PipeIgnore
      <3>5. QED
        BY <3>4
    <2>2. CASE Route(line) # "ignore"
      <3>1. current' = line /\ current' # NoLine
        BY <1>2, <2>2
      <3>2. IdsOf(InHand)' = <<line.id>>
        BY <3>1, HandIds DEF InHand
      <3>3. Pipeline' = (IdsOf(stdout) \o <<line.id>>) \o Tail(IdsOf(stdin))
        BY <1>5, <3>2 DEF Pipeline
      <3>4. Pipeline' = Pipeline
        BY <1>5, <1>6, <1>8, <3>3, PipeRead
      <3>5. QED
        BY <1>1, <3>4
    <2>3. QED
      BY <2>1, <2>2
  <1>10. QED
    BY <1>3, <1>4, <1>9 DEF BooksInv, AnswersMatchRequests

(* The answer is written.                                                  *)
LEMMA WriteKeepsBooks ==
  ASSUME BooksInv, WriteMessage
  PROVE  BooksInv'
  <1> DEFINE Answers == [id : AnyId, is : Replies]
             answer  == [id |-> current.id, is |-> reply]
  <1>1. /\ stdout \in Seq(Answers) /\ Matches(owed, Pipeline)
        /\ reply # "none" /\ current # NoLine /\ reply \in Replies
        /\ current \in Inputs /\ current.id \in AnyId
        /\ current.id = NoRequest => reply = "parse error"
        /\ \A i \in DOMAIN stdout : stdout[i].id = NoRequest => stdout[i].is = "parse error"
    BY LineTypes
    DEF BooksInv, SessionTypeOK, AnswersMatchRequests, HandInv, WriteMessage, ToSet, AnyId
  <1>2. /\ stdout' = Append(stdout, answer) /\ reply' = "none" /\ current' = NoLine
        /\ UNCHANGED <<stdin, owed, session>>
    BY DEF WriteMessage
  <1>3. /\ answer \in Answers /\ answer.id = current.id /\ answer.is = reply
        /\ \A x \in Answers : x.id \in AnyId
    BY <1>1
  <1> HIDE DEF Answers, answer
  <1>4. /\ stdout' \in Seq(Answers) /\ DOMAIN stdout' = 1 .. Len(stdout) + 1
        /\ DOMAIN stdout = 1 .. Len(stdout) /\ Len(stdout) \in Nat
        /\ \A i \in 1 .. Len(stdout) : stdout'[i] = stdout[i]
        /\ stdout'[Len(stdout) + 1] = answer
    <2>1. /\ stdout' \in Seq(Answers) /\ Len(stdout') = Len(stdout) + 1
          /\ \A i \in 1 .. Len(stdout) : stdout'[i] = stdout[i]
          /\ stdout'[Len(stdout) + 1] = answer
      BY <1>1, <1>2, <1>3, AppendProperties
    <2>2. /\ DOMAIN stdout = 1 .. Len(stdout) /\ Len(stdout) \in Nat
          /\ DOMAIN stdout' = 1 .. Len(stdout')
      BY <1>1, <2>1, LenProperties
    <2>3. QED
      BY <2>1, <2>2
  <1>5. ASSUME NEW i \in DOMAIN stdout', stdout'[i].id = NoRequest
        PROVE  stdout'[i].is = "parse error"
    <2>1. CASE i = Len(stdout) + 1
      BY <1>1, <1>3, <1>4, <1>5, <2>1
    <2>2. CASE i # Len(stdout) + 1
      <3>1. i \in DOMAIN stdout /\ stdout'[i] = stdout[i]
        BY <1>4, <2>2
      <3>2. QED
        BY <1>1, <1>5, <3>1
    <2>3. QED
      BY <2>1, <2>2
  <1>6. SessionTypeOK'
    BY <1>2, <1>4 DEF BooksInv, SessionTypeOK, Answers, AnyId
  <1>7. Pipeline' = Pipeline
    <2>1. IdsOf(stdout') = Append(IdsOf(stdout), current.id)
      BY <1>1, <1>2, <1>3, IdsOfAppend
    <2>2. IdsOf(InHand)' = <<>>
      BY <1>2 DEF InHand, IdsOf
    <2>3. Pipeline' = (Append(IdsOf(stdout), current.id) \o <<>>) \o IdsOf(stdin)
      BY <1>2, <2>1, <2>2 DEF Pipeline
    <2>4. Pipeline = (IdsOf(stdout) \o <<current.id>>) \o IdsOf(stdin)
      BY <1>1, InHandIds DEF Pipeline
    <2>5. QED
      BY <1>1, <2>3, <2>4, Parts, PipeWrite DEF BooksInv
  <1>8. \A x \in ToSet(stdout') : x.id = NoRequest => x.is = "parse error"
    BY <1>5 DEF ToSet
  <1>9. QED
    BY <1>1, <1>2, <1>6, <1>7, <1>8 DEF BooksInv, HandInv, AnswersMatchRequests

-----------------------------------------------------------------------------
(* Steps that leave the pipeline alone: what a call comes to is an answer  *)
(* of a tool, and no work is done for a line without an id.                *)
LEMMA QuietStepKeepsBooks ==
  ASSUME BooksInv, UNCHANGED <<stdin, stdout, current, owed>>,
         session' \in {"open", "closed", "over"}, reply' \in Replies \cup {"none"},
         HandInv'
  PROVE  BooksInv'
  <1>1. SessionTypeOK'
    BY DEF BooksInv, SessionTypeOK
  <1>2. Pipeline' = Pipeline
    BY DEF Pipeline, InHand
  <1>3. AnswersMatchRequests'
    BY <1>2 DEF BooksInv, AnswersMatchRequests
  <1>4. QED
    BY <1>1, <1>3 DEF BooksInv

LEMMA WorkKeepsBooks ==
  ASSUME BooksInv, Work
  PROVE  BooksInv'
  <1>1. pc # "idle"
    BY DEF Work, WalkOne, ParseOne, RefreshOne, StartWatcher, ReloadConfig, Dispatch,
      Answer, SetField, Forge, Decide, Truncate, Fill
  <1>2. /\ current \in Inputs \cup {NoLine} /\ reply \in Replies \cup {"none"}
        /\ session \in {"open", "closed", "over"} /\ HandInv
    BY DEF BooksInv, SessionTypeOK
  <1>3. UNCHANGED <<stdin, stdout, session, owed>> /\ Conclude
    BY DEF Work
  <1>4. Outcomes \subseteq Replies
    BY DEF Outcomes, Replies
  <1>5. /\ current' = current /\ reply' \in Replies \cup {"none"}
        /\ current = NoLine => reply' = reply
    BY <1>2, <1>3, <1>4 DEF Conclude
  <1>6. HandInv'
    BY <1>1, <1>2, <1>5 DEF HandInv
  <1>7. QED
    BY <1>2, <1>3, <1>5, <1>6, QuietStepKeepsBooks

LEMMA GoneKeepsBooks ==
  ASSUME Gone
  PROVE  BooksInv'
  <1>1. /\ stdin' = <<>> /\ stdout' = <<>> /\ current' = NoLine /\ reply' = "none"
        /\ session' = "over" /\ owed' = <<>>
    BY DEF Gone
  <1>2. SessionTypeOK' /\ HandInv'
    BY <1>1 DEF SessionTypeOK, HandInv
  <1>3. Pipeline' = <<>>
    BY <1>1 DEF Pipeline, InHand, IdsOf
  <1>4. AnswersMatchRequests'
    BY <1>1, <1>3, NothingMatches DEF AnswersMatchRequests, ToSet
  <1>5. QED
    BY <1>2, <1>4 DEF BooksInv

LEMMA SessionKeepsBooks ==
  ASSUME InitializedIsNoRequest, BooksInv, [SessionNext]_allVars
  PROVE  BooksInv'
  <1>1. HandInv /\ session \in {"open", "closed", "over"} /\ reply \in Replies \cup {"none"}
    BY DEF BooksInv, SessionTypeOK
  <1>2. CASE UNCHANGED <<stdin, stdout, current, reply, session, owed, pc>>
    BY <1>1, <1>2, QuietStepKeepsBooks DEF HandInv
  <1>3. CASE UNCHANGED allVars
    BY <1>2, <1>3 DEF allVars, sessionVars, vars
  <1>4. CASE \E line \in Inputs : Handle(line) \/ StartCall(line)
    <2>1. PICK line \in Inputs : Handle(line) \/ StartCall(line)
      BY <1>4
    <2>2. CASE Handle(line)
      BY <2>2, ReadKeepsBooks DEF Handle, vars
    <2>3. CASE StartCall(line)
      BY <2>3, ReadKeepsBooks DEF StartCall
    <2>4. QED
      BY <2>1, <2>2, <2>3
  <1>5. CASE Work
    BY <1>5, WorkKeepsBooks
  <1>6. CASE WriteMessage
    BY <1>6, WriteKeepsBooks
  <1>7. CASE End \/ Die
    BY <1>7, GoneKeepsBooks DEF End, Die
  <1>8. CASE Launch
    <2>1. pc # "idle" /\ session' = "open" /\ UNCHANGED <<stdin, stdout, current, reply, owed>>
      BY <1>8 DEF Launch, Open
    <2>2. HandInv'
      BY <1>1, <2>1 DEF HandInv
    <2>3. QED
      BY <1>1, <2>1, <2>2, QuietStepKeepsBooks
  <1>9. CASE \E line \in Inputs : Send(line)
    BY <1>9, SendKeepsBooks
  <1>10. CASE Receive
    BY <1>10, ReceiveKeepsBooks
  <1>11. CASE CloseInput
    <2>1. session' = "closed" /\ UNCHANGED <<stdin, stdout, current, reply, owed, pc>>
      BY <1>11 DEF CloseInput, vars
    <2>2. HandInv'
      BY <1>1, <2>1 DEF HandInv
    <2>3. QED
      BY <1>1, <2>1, <2>2, QuietStepKeepsBooks
  <1>12. CASE \E f \in Files : WatcherThread(f)
    BY <1>2, <1>12 DEF WatcherThread, Deliver, DropError, Elsewhere, graphVars
  <1>13. CASE \E f \in Files : \E content \in EditContents \cap HeldBy(f) :
               Edit(f, content) /\ Elsewhere
    BY <1>2, <1>13 DEF Edit, Elsewhere, graphVars
  <1>14. QED
    BY <1>3, <1>4, <1>5, <1>6, <1>7, <1>8, <1>9, <1>10, <1>11, <1>12, <1>13
    DEF SessionNext, Loop

(* Every request is answered once and in order, and nothing else is but    *)
(* what is no JSON: the client's books and the server's agree, for every   *)
(* client that sends notifications/initialized as a notification.          *)
THEOREM BooksAgree ==
  ASSUME InitializedIsNoRequest
  PROVE  SessionSpec => []AnswersMatchRequests
  <1>1. SessionInit => BooksInv
    <2>1. SUFFICES ASSUME SessionInit PROVE BooksInv
      OBVIOUS
    <2>2. /\ stdin = <<>> /\ stdout = <<>> /\ current = NoLine /\ reply = "none"
          /\ session = "over" /\ owed = <<>>
      BY <2>1 DEF SessionInit
    <2>3. SessionTypeOK /\ HandInv
      BY <2>2 DEF SessionTypeOK, HandInv
    <2>4. Pipeline = <<>>
      BY <2>2 DEF Pipeline, InHand, IdsOf
    <2>5. QED
      BY <2>2, <2>3, <2>4, NothingMatches DEF BooksInv, AnswersMatchRequests, ToSet
  <1>2. BooksInv /\ [SessionNext]_allVars => BooksInv'
    BY SessionKeepsBooks
  <1>3. BooksInv => AnswersMatchRequests
    BY DEF BooksInv
  <1>4. QED
    BY <1>1, <1>2, <1>3, PTL DEF SessionSpec
=============================================================================
