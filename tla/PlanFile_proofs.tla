--------------------------- MODULE PlanFile_proofs ---------------------------
(***************************************************************************)
(* Proofs about PlanFile for any number of plan and apply commands, of      *)
(* failing system calls and of moves of others.                             *)
(***************************************************************************)
EXTENDS PlanFile, TLAPS

(***************************************************************************)
(* The inductive invariant.  FILE is never a planner's inode before that    *)
(* planner is done with it (Published), so what a writer writes nobody      *)
(* reads; when it publishes its inode, the plan is complete (Filled).  What *)
(* a reader has seen of a whole plan is a plan it was offered (Seen): a     *)
(* block it reads was there when it opened FILE, together with the other    *)
(* one, or was put there since.                                             *)
(***************************************************************************)
Published ==
    /\ path # Linked
    /\ path \in Planners => pc[path] = "ok"
    /\ \A r \in Appliers : fd[r] \in Planners => pc[fd[r]] = "ok"

Filled ==
    \A w \in Planners :
        /\ pc[w] \in {"writeRest", "close", "rename"} => head[w] = w
        /\ pc[w] \in {"close", "rename"} => tail[w] = w

Seen ==
    \A r \in Reading :
        /\ Whole(fd[r]) => head[fd[r]] \in offered[r]
        /\ pc[r] = "readRest" =>
              (first[r] \in Plans /\ tail[fd[r]] = first[r] => first[r] \in offered[r])

Undecided == \A r \in Appliers : pc[r] \in ReaderSteps <=> got[r] = "none" /\ pc[r] # "dead"

FileInv ==
    /\ FileTypeOK /\ NothingElseWritten
    /\ Published /\ Filled /\ Seen /\ Undecided

-----------------------------------------------------------------------------
\* Planners, appliers and the other names are all different; bounds are numbers.
LEMMA Names ==
    /\ \A w \in Planners : w \notin Appliers /\ w # Old /\ w # Linked
    /\ \A w \in Planners : w \notin {"none", "link", "dir", "junk", "refused"}
    /\ Old \notin {"none", "link", "dir", "junk", "refused"}
    /\ Linked \notin {"none", "link", "dir", "junk", "refused"}
    /\ Linked \notin Plans /\ Old \in Plans /\ Planners \subseteq Plans
    /\ Plans \subseteq Inodes /\ Linked \in Inodes
    /\ "junk" \notin Plans /\ "none" \notin Plans /\ "refused" \notin Plans
    /\ MaxMoves \in Nat /\ MaxFaults \in Nat
  BY PlanFileAssumption DEF Plans, Inodes

LEMMA InitFile == FileInit => FileInv
  <1> SUFFICES ASSUME FileInit PROVE FileInv
    OBVIOUS
  <1>1. FileTypeOK
    BY PlanFileAssumption, Names DEF FileInit, FileTypeOK, Blocks, Plans, Inodes, WriterSteps, ReaderSteps
  <1>2. NothingElseWritten
    BY Names DEF FileInit, NothingElseWritten
  <1>3. Published /\ Filled /\ Seen /\ Undecided
    BY Names DEF FileInit, Published, Filled, Seen, Undecided, Reading, ReaderSteps
  <1> QED BY <1>1, <1>2, <1>3 DEF FileInv
-----------------------------------------------------------------------------
(* What each step does to the types. *)
LEMMA WriterTypes ==
    ASSUME FileTypeOK, NEW w \in Planners, WriterStep(w)
    PROVE  FileTypeOK'
  <1> USE DEF FileTypeOK, WriterSteps, ReaderSteps, Ended, Keep, file, reader
  <1>1. CASE Lstat(w)
    BY <1>1, Names DEF Lstat, goto
  <1>2. CASE CreateTemp(w)
    BY <1>2, Names DEF CreateTemp, goto, Fault, Inodes, Blocks
  <1>3. CASE Write(w) \/ WriteRest(w)
    BY <1>3, Names DEF Write, WriteRest, goto, Inodes, Blocks
  <1>4. CASE Close(w) \/ Remove(w)
    BY <1>4, Names DEF Close, Remove, goto
  <1>5. CASE WriteFails(w) \/ RenameFails(w)
    BY <1>5, Names DEF WriteFails, RenameFails, goto, Fault
  <1>6. CASE Rename(w)
    BY <1>6, Names DEF Rename, goto, Offer, Inodes, Plans
  <1> QED BY <1>1, <1>2, <1>3, <1>4, <1>5, <1>6 DEF WriterStep

LEMMA RefusesTypes ==
    ASSUME FileTypeOK, NEW r \in Appliers, Refuses(r),
           UNCHANGED <<windows, file, moves>>, faults' \in 0..MaxFaults
    PROVE  FileTypeOK'
  <1>1. r \notin Planners
    BY Names
  <1>2. /\ fd' \in [Appliers -> Inodes \cup {"none"}]
        /\ first' \in [Appliers -> Blocks]
        /\ got' \in [Appliers -> Plans \cup {"none", "refused"}]
        /\ offered' \in [Appliers -> SUBSET Plans]
    BY DEF FileTypeOK, Refuses, Closed, Blocks
  <1>3. /\ pc' \in [Planners \cup Appliers -> WriterSteps \cup ReaderSteps \cup Ended]
        /\ \A w \in Planners : pc'[w] = pc[w]
        /\ \A q \in Appliers : q # r => pc'[q] = pc[q] /\ fd'[q] = fd[q]
        /\ pc'[r] = "done"
    BY <1>1 DEF FileTypeOK, Refuses, Closed, goto, Ended
  <1> QED BY <1>2, <1>3 DEF FileTypeOK, file

LEMMA ReaderTypes ==
    ASSUME FileTypeOK, NEW r \in Appliers, ReaderStep(r)
    PROVE  FileTypeOK'
  <1> USE DEF FileTypeOK, WriterSteps, ReaderSteps, Ended, file, reader
  <1>1. r \notin Planners
    BY Names
  <1>2. CASE OpenPlan(r)
    <2>1. CASE path \in {"none", "dir"}
      BY <1>2, <2>1, RefusesTypes DEF OpenPlan
    <2>2. CASE path \notin {"none", "dir"}
      <3>1. {Held} \cap Plans \in SUBSET Plans
        OBVIOUS
      <3>2. (IF path = "link" THEN Linked ELSE path) \in Inodes
        BY <2>2, Names
      <3> QED BY <1>1, <1>2, <2>2, <3>1, <3>2, Names DEF OpenPlan, goto
    <2> QED BY <2>1, <2>2
  <1>3. CASE Read(r)
    BY <1>1, <1>3, Names DEF Read, goto
  <1>4. CASE ReadRest(r)
    BY <1>1, <1>4, Names DEF ReadRest, Decode, Closed, goto, Plans, Blocks
  <1>5. CASE ReadFails(r)
    BY <1>5, RefusesTypes, Names DEF ReadFails, Fault
  <1> QED BY <1>2, <1>3, <1>4, <1>5 DEF ReaderStep

LEMMA DiesTypes ==
    ASSUME FileTypeOK, NEW p \in Planners \cup Appliers, Dies(p)
    PROVE  FileTypeOK'
  BY Names DEF FileTypeOK, Dies, Closed, goto, file, WriterSteps, ReaderSteps, Ended, Blocks

LEMMA OthersTypes ==
    ASSUME FileTypeOK, Others
    PROVE  FileTypeOK'
  <1> USE DEF FileTypeOK, WriterSteps, ReaderSteps, Ended, file, reader, Move
  <1>1. CASE Swapped
    BY <1>1, Names DEF Swapped
  <1>2. CASE Scribbled
    BY <1>2, Names DEF Scribbled, Offer, Blocks
  <1>3. CASE PowerFails
    BY <1>3, Names DEF PowerFails, Closed, Blocks, Ended
  <1> QED BY <1>1, <1>2, <1>3 DEF Others
-----------------------------------------------------------------------------
(* What each step does to the rest of the invariant. *)
LEMMA WriterKeeps ==
    ASSUME FileInv, NEW w \in Planners, WriterStep(w)
    PROVE  /\ NothingElseWritten' /\ Published' /\ Filled'
           /\ \A r \in Appliers : pc'[r] = pc[r]
  <1> USE Names DEF FileInv, FileTypeOK, Keep, file, reader, goto, NothingElseWritten, Published, Filled
  <1>1. CASE Lstat(w)
    BY <1>1 DEF Lstat
  <1>2. CASE CreateTemp(w)
    BY <1>2 DEF CreateTemp
  <1>3. CASE Write(w)
    BY <1>3 DEF Write
  <1>4. CASE WriteRest(w)
    BY <1>4 DEF WriteRest
  <1>5. CASE Close(w)
    BY <1>5 DEF Close
  <1>6. CASE WriteFails(w)
    BY <1>6 DEF WriteFails
  <1>7. CASE Rename(w)
    BY <1>7 DEF Rename
  <1>8. CASE RenameFails(w)
    BY <1>8 DEF RenameFails
  <1>9. CASE Remove(w)
    BY <1>9 DEF Remove
  <1> QED BY <1>1, <1>2, <1>3, <1>4, <1>5, <1>6, <1>7, <1>8, <1>9 DEF WriterStep

\* A writer does not touch what a reader has open.
LEMMA WriterUnseen ==
    ASSUME FileInv, NEW w \in Planners, WriterStep(w)
    PROVE  /\ \A r \in Appliers : fd[r] # "none" =>
                  head'[fd[r]] = head[fd[r]] /\ tail'[fd[r]] = tail[fd[r]]
           /\ \A r \in Appliers : offered[r] \subseteq offered'[r]
           /\ UNCHANGED <<fd, first, got>>
  <1> USE Names DEF FileInv, FileTypeOK, Keep, file, reader, Published
  <1>1. CASE CreateTemp(w)
    BY <1>1 DEF CreateTemp
  <1>2. CASE Write(w) \/ WriteRest(w)
    BY <1>2 DEF Write, WriteRest
  <1>3. CASE Rename(w)
    BY <1>3 DEF Rename, Offer
  <1>4. CASE Lstat(w) \/ Close(w) \/ WriteFails(w) \/ RenameFails(w) \/ Remove(w)
    BY <1>4 DEF Lstat, Close, WriteFails, RenameFails, Remove
  <1> QED BY <1>1, <1>2, <1>3, <1>4 DEF WriterStep

LEMMA WriterInv ==
    ASSUME FileInv, NEW w \in Planners, WriterStep(w)
    PROVE  FileInv'
  <1>1. Reading' = Reading
    BY WriterKeeps DEF Reading
  <1>2. Seen'
    BY <1>1, WriterKeeps, WriterUnseen DEF FileInv, FileTypeOK, Seen, Reading, Whole
  <1>3. Undecided'
    BY WriterKeeps, WriterUnseen DEF FileInv, Undecided
  <1> QED BY <1>2, <1>3, WriterTypes, WriterKeeps DEF FileInv

\* A reader writes nothing.
LEMMA ReaderKeeps ==
    ASSUME FileInv, NEW r \in Appliers, ReaderStep(r)
    PROVE  /\ UNCHANGED file
           /\ \A w \in Planners : pc'[w] = pc[w]
           /\ \A q \in Appliers : q # r => /\ pc'[q] = pc[q] /\ fd'[q] = fd[q]
                                           /\ first'[q] = first[q] /\ got'[q] = got[q]
                                           /\ offered'[q] = offered[q]
  <1> USE Names DEF FileInv, FileTypeOK, goto, reader
  <1>1. CASE OpenPlan(r)
    BY <1>1 DEF OpenPlan, Refuses, Closed
  <1>2. CASE Read(r)
    BY <1>2 DEF Read
  <1>3. CASE ReadRest(r)
    BY <1>3 DEF ReadRest, Closed
  <1>4. CASE ReadFails(r)
    BY <1>4 DEF ReadFails, Refuses, Closed, file
  <1> QED BY <1>1, <1>2, <1>3, <1>4 DEF ReaderStep

\* What an applier has opened holds no plan that it was not offered.
LEMMA OpenedIsOffered ==
    ASSUME FileInv, NEW r \in Appliers, OpenPlan(r), pc'[r] = "read"
    PROVE  /\ fd'[r] \in Inodes /\ (fd'[r] \in Planners => pc[fd'[r]] = "ok")
           /\ Whole(fd'[r]) => head[fd'[r]] \in offered'[r]
  <1> USE Names DEF FileInv, FileTypeOK
  <1>1. path \notin {"none", "dir"} /\ fd'[r] = (IF path = "link" THEN Linked ELSE path)
        /\ offered'[r] = {Held} \cap Plans
    BY DEF OpenPlan, Refuses, goto
  <1>2. CASE path = "link"
    BY <1>1, <1>2 DEF NothingElseWritten, Whole
  <1>3. CASE path \in Inodes
    <2>1. fd'[r] = path /\ path # "link"
      BY <1>1, <1>3 DEF Inodes
    <2>2. Whole(path) => Held = head[path] /\ head[path] \in Plans
      BY <1>3 DEF Held, Whole
    <2>3. path \in Planners => pc[path] = "ok"
      BY DEF Published
    <2>4. Whole(path) => head[path] \in {Held} \cap Plans
      BY <2>2
    <2> HIDE DEF FileInv, FileTypeOK
    <2> QED BY <1>1, <1>3, <2>1, <2>3, <2>4
  <1> QED BY <1>1, <1>2, <1>3

LEMMA ReaderInv ==
    ASSUME FileInv, NEW r \in Appliers, ReaderStep(r)
    PROVE  FileInv'
  <1> USE Names DEF FileInv, FileTypeOK
  <1>1. NothingElseWritten' /\ Filled'
    BY ReaderKeeps DEF NothingElseWritten, Filled, file
  <1>2. CASE OpenPlan(r)
    <2>1. \/ pc'[r] = "done" /\ got'[r] = "refused" /\ fd'[r] = "none"
          \/ pc'[r] = "read" /\ got'[r] = got[r]
      BY <1>2 DEF OpenPlan, Refuses, Closed, goto
    <2>2. Published'
      BY <1>2, <2>1, ReaderKeeps, OpenedIsOffered DEF Published, file
    <2>3. Seen'
      BY <1>2, <2>1, ReaderKeeps, OpenedIsOffered DEF Seen, Reading, Whole, file
    <2>4. Undecided'
      BY <1>2, <2>1, ReaderKeeps DEF Undecided, ReaderSteps, OpenPlan
    <2> QED BY <1>1, <2>2, <2>3, <2>4, ReaderTypes
  <1>3. CASE Read(r)
    <2>1. pc[r] = "read" /\ pc'[r] = "readRest" /\ first'[r] = head[fd[r]]
          /\ UNCHANGED <<fd, got, offered>>
      BY <1>3 DEF Read, goto
    <2>2. Published'
      BY <2>1, ReaderKeeps DEF Published, file
    <2>3. Seen'
      BY <2>1, ReaderKeeps DEF Seen, Reading, Whole, file
    <2>4. Undecided'
      BY <2>1, ReaderKeeps DEF Undecided, ReaderSteps
    <2> QED BY <1>1, <2>2, <2>3, <2>4, ReaderTypes
  <1>4. CASE ReadRest(r) \/ ReadFails(r)
    <2>1. pc'[r] = "done" /\ got'[r] # "none" /\ fd'[r] = "none"
      BY <1>4 DEF ReadRest, ReadFails, Refuses, Closed, goto, Decode
    <2>2. Published'
      BY <2>1, ReaderKeeps DEF Published, file
    <2>3. Seen'
      BY <2>1, ReaderKeeps DEF Seen, Reading, Whole, file
    <2>4. Undecided'
      BY <2>1, ReaderKeeps DEF Undecided, ReaderSteps
    <2> QED BY <1>1, <2>2, <2>3, <2>4, ReaderTypes
  <1> QED BY <1>2, <1>3, <1>4 DEF ReaderStep

LEMMA DiesInv ==
    ASSUME FileInv, NEW p \in Planners \cup Appliers, Dies(p)
    PROVE  FileInv'
  <1> USE Names DEF FileInv, FileTypeOK
  <1>1. /\ UNCHANGED <<file, got>> /\ pc[p] \notin Ended /\ pc'[p] = "dead"
        /\ \A q \in Planners \cup Appliers : q # p => pc'[q] = pc[q]
        /\ \A q \in Appliers : q # p =>
               fd'[q] = fd[q] /\ first'[q] = first[q] /\ offered'[q] = offered[q]
        /\ p \in Appliers => fd'[p] = "none"
    BY DEF Dies, Closed, goto
  <1>2. NothingElseWritten' /\ Filled' /\ Published'
    BY <1>1 DEF NothingElseWritten, Filled, Published, Ended, file
  <1>3. Seen'
    BY <1>1 DEF Seen, Reading, Whole, file
  <1>4. Undecided'
    BY <1>1 DEF Undecided, ReaderSteps, Ended
  <1> QED BY <1>2, <1>3, <1>4, DiesTypes

LEMMA OthersInv ==
    ASSUME FileInv, Others
    PROVE  FileInv'
  <1> USE Names DEF FileInv, FileTypeOK
  <1>1. CASE Swapped
    <2>1. UNCHANGED <<head, tail, temps, pc, fd, first, got, offered>>
          /\ path' \in {"none", "link", "dir"}
      BY <1>1 DEF Swapped, reader
    <2>2. NothingElseWritten' /\ Filled' /\ Published'
      BY <2>1 DEF NothingElseWritten, Filled, Published
    <2>3. Seen' /\ Undecided'
      BY <2>1 DEF Seen, Undecided, Reading, Whole
    <2> QED BY <1>1, <2>2, <2>3, OthersTypes DEF Others
  <1>2. CASE Scribbled
    <2>1. path \in Inodes /\ UNCHANGED <<path, temps, pc, fd, first, got>>
      BY <1>2 DEF Scribbled, reader
    <2>2. PICK b \in {"junk", Old} :
             /\ \/ head' = [head EXCEPT ![path] = b] /\ UNCHANGED tail
                \/ tail' = [tail EXCEPT ![path] = b] /\ UNCHANGED head
             /\ Offer({b} \cap Plans)
      BY <1>2 DEF Scribbled
    <2>3. NothingElseWritten' /\ Filled' /\ Published'
      BY <2>1, <2>2 DEF NothingElseWritten, Filled, Published
    <2>4. \A r \in Reading : offered'[r] = offered[r] \cup ({b} \cap Plans)
      BY <2>2 DEF Offer, Reading
    <2>5. Seen' /\ Undecided'
      BY <2>1, <2>2, <2>4 DEF Seen, Undecided, Reading, Whole
    <2> QED BY <1>2, <2>3, <2>5, OthersTypes DEF Others
  <1>3. CASE PowerFails
    <2>1. /\ UNCHANGED <<path, head, temps, got>>
          /\ \A r \in Appliers : fd'[r] = "none" /\ pc'[r] \notin {"read", "readRest"}
          /\ \A p \in Planners \cup Appliers :
                 pc'[p] = IF pc[p] \in Ended \cup {"lstat", "open"} THEN pc[p] ELSE "dead"
          /\ tail'[Linked] = tail[Linked]
      BY <1>3 DEF PowerFails, Closed, Ended
    <2>2. NothingElseWritten' /\ Filled' /\ Published'
      BY <2>1 DEF NothingElseWritten, Filled, Published, Ended
    <2>3. Seen' /\ Undecided'
      BY <2>1 DEF Seen, Undecided, Reading, ReaderSteps, Ended
    <2> QED BY <1>3, <2>2, <2>3, OthersTypes DEF Others
  <1> QED BY <1>1, <1>2, <1>3 DEF Others

LEMMA FileStepInv == FileInv /\ [FileNext]_fileVars => FileInv'
  <1> SUFFICES ASSUME FileInv, [FileNext]_fileVars PROVE FileInv'
    OBVIOUS
  <1>1. CASE UNCHANGED fileVars
    BY <1>1 DEF FileInv, FileTypeOK, NothingElseWritten, Published, Filled, Seen, Undecided,
                Reading, Whole, fileVars, file, reader
  <1> QED BY <1>1, WriterInv, ReaderInv, DiesInv, OthersInv DEF FileNext
-----------------------------------------------------------------------------
\* FileTypeCorrect: the variables keep their types; in particular what apply
\* accepts is a plan, and a command that reads has an inode open
\* (workflow.go:432-456, plan.go:427-430).
THEOREM FileTypeCorrect == FileSpec => []FileTypeOK
  <1>1. FileInv => FileTypeOK
    BY DEF FileInv
  <1> QED BY InitFile, FileStepInv, <1>1, PTL DEF FileSpec

\* NothingElseIsWritten: however many plan commands write FILE, whatever fails
\* and wherever a link is planted, the file that the link leads to is not
\* touched, and only a command that died leaves its temporary file behind
\* (workflow.go:351-389).
THEOREM NothingElseIsWritten == FileSpec => []NothingElseWritten
  <1>1. FileInv => NothingElseWritten
    BY DEF FileInv
  <1> QED BY InitFile, FileStepInv, <1>1, PTL DEF FileSpec
-----------------------------------------------------------------------------
(* The refinement.  Rename replaces, a writer that fails before it or after a *)
(* failed Rename gives up, and every other step of a writer changes nothing   *)
(* that anybody can see, because nobody has its inode (Published).            *)
Outcomes == [w \in Planners |-> IF pc[w] \in {"ok", "failed"} THEN pc[w] ELSE "none"]

LEMMA InitPromise == FileInit => Promised!PromiseInit
  <1> SUFFICES ASSUME FileInit PROVE Promised!PromiseInit
    OBVIOUS
  <1>1. Held \in {Old, "none", "link", "dir"}
    BY Names DEF FileInit, Held, Whole, Inodes
  <1>2. Reading = {}
    BY Names DEF FileInit, Reading
  <1>3. Outcomes = [w \in Planners |-> "none"]
    BY DEF FileInit, Outcomes
  <1> QED BY <1>1, <1>2, <1>3 DEF FileInit, Outcomes, Promised!PromiseInit

\* What a writer does before and after Rename is not seen in FILE.
LEMMA WriterHeld ==
    ASSUME FileInv, NEW w \in Planners, WriterStep(w), ~Rename(w)
    PROVE  Held' = Held /\ UNCHANGED <<offered, got, moves>> /\ Reading' = Reading
  <1> USE Names DEF FileInv, FileTypeOK, Keep, file, reader
  <1>1. Reading' = Reading
    BY WriterKeeps DEF Reading
  <1>2. UNCHANGED <<path, offered, got, moves>>
    BY DEF WriterStep, Lstat, CreateTemp, Write, WriteRest, Close, WriteFails,
           RenameFails, Remove
  <1>3. pc[w] \notin {"ok", "failed"}
    BY DEF WriterStep, Lstat, CreateTemp, Write, WriteRest, Close, WriteFails,
           Rename, RenameFails, Remove
  <1>4. path # w
    BY <1>3 DEF Published
  <1>5. path \in Inodes => head'[path] = head[path] /\ tail'[path] = tail[path]
    BY <1>4 DEF WriterStep, Lstat, CreateTemp, Write, WriteRest, Close, WriteFails,
           RenameFails, Remove
  <1> QED BY <1>1, <1>2, <1>5 DEF Held, Whole

\* A step of a writer replaces FILE, gives up, or shows nothing.
LEMMA WriterImplements ==
    ASSUME FileInv, NEW w \in Planners, WriterStep(w)
    PROVE  Promised!PromiseNext \/ UNCHANGED Promised!promise
  <1> USE Names DEF FileInv, FileTypeOK
  <1>1. pc[w] \notin {"ok", "failed"} /\ \A v \in Planners : v # w => pc'[v] = pc[v]
    BY DEF WriterStep, Lstat, CreateTemp, Write, WriteRest, Close, WriteFails,
           Rename, RenameFails, Remove, goto
  <1>2. Outcomes[w] = "none"
    BY <1>1 DEF Outcomes
  <1>3. CASE Rename(w)
    <2>1. Held # "dir"
      BY <1>3 DEF Rename, Replaceable, Held, Whole, Plans
    <2>2. path' = w /\ head'[w] = w /\ tail'[w] = w /\ w \in Inodes /\ w \in Plans
      BY <1>3 DEF Rename, Filled
    <2>3. Held' = w
      BY <2>2 DEF Held, Whole
    <2>4. pc' = [pc EXCEPT ![w] = "ok"]
      BY <1>3 DEF Rename, goto
    <2>5. Outcomes' = [Outcomes EXCEPT ![w] = "ok"]
      BY <1>1, <2>4 DEF Outcomes
    <2>6. Reading' = Reading
      BY WriterKeeps DEF Reading
    <2>7. UNCHANGED <<got, moves>> /\ Offer({w})
      BY <1>3 DEF Rename, reader
    <2>8. Promised!Replace(w)
      BY <1>2, <2>1, <2>3, <2>5, <2>6, <2>7 DEF Offer, Outcomes, Promised!Replace
    <2> QED BY <2>8 DEF Promised!PromiseNext
  <1>4. CASE ~Rename(w) /\ pc'[w] = "failed"
    <2>1. Outcomes' = [Outcomes EXCEPT ![w] = "failed"]
      BY <1>1, <1>4 DEF Outcomes
    <2>2. Promised!GiveUp(w)
      BY <1>2, <1>4, <2>1, WriterHeld DEF Outcomes, Promised!GiveUp
    <2> QED BY <2>2 DEF Promised!PromiseNext
  <1>5. CASE ~Rename(w) /\ pc'[w] # "failed"
    <2>1. pc'[w] # "ok"
      BY <1>5 DEF WriterStep, Lstat, CreateTemp, Write, WriteRest, Close, WriteFails,
                  RenameFails, Remove, goto
    <2>2. Outcomes' = Outcomes
      BY <1>1, <1>5, <2>1 DEF Outcomes
    <2> QED BY <1>5, <2>2, WriterHeld DEF Outcomes, Promised!promise
  <1> QED BY <1>3, <1>4, <1>5

\* A step of a reader is no news for the planners.
LEMMA ReaderUnheard ==
    ASSUME FileInv, NEW r \in Appliers, ReaderStep(r)
    PROVE  /\ Held' = Held /\ Outcomes' = Outcomes /\ moves' = moves
           /\ got[r] = "none"
           /\ Reading' = IF OpenPlan(r) /\ pc'[r] = "read" THEN Reading \cup {r}
                         ELSE IF Read(r) THEN Reading ELSE Reading \ {r}
  <1> USE Names DEF FileInv, FileTypeOK
  <1>1. Held' = Held /\ Outcomes' = Outcomes
    BY ReaderKeeps DEF Held, Whole, Outcomes, file
  <1>2. moves' = moves
    BY DEF ReaderStep, OpenPlan, Read, ReadRest, ReadFails
  <1>3. pc[r] \in ReaderSteps
    BY DEF ReaderStep, OpenPlan, Read, ReadRest, ReadFails, ReaderSteps
  <1>4. got[r] = "none"
    BY <1>3 DEF Undecided
  <1>5. CASE OpenPlan(r)
    BY <1>1, <1>2, <1>4, <1>5, ReaderKeeps DEF OpenPlan, Refuses, goto, Reading, Read
  <1>6. CASE Read(r)
    BY <1>1, <1>2, <1>4, <1>6, ReaderKeeps DEF OpenPlan, goto, Reading, Read
  <1>7. CASE ReadRest(r) \/ ReadFails(r)
    <2>1. pc'[r] = "done"
      BY <1>7 DEF ReadRest, ReadFails, Refuses, goto
    <2>2. ~(OpenPlan(r) /\ pc'[r] = "read") /\ ~Read(r)
      BY <2>1 DEF Read, goto
    <2>3. Reading' = Reading \ {r}
      BY <2>1, ReaderKeeps DEF Reading
    <2> QED BY <1>1, <1>2, <1>4, <2>2, <2>3
  <1> QED BY <1>5, <1>6, <1>7 DEF ReaderStep

LEMMA RefuseImplements ==
    ASSUME FileInv, NEW r \in Appliers, ReaderStep(r), Refuses(r)
    PROVE  Promised!Refuse(r)
  <1> USE Names DEF FileInv, FileTypeOK
  <1>1. pc'[r] = "done"
    BY DEF Refuses, goto
  <1>2. Reading' = Reading \ {r}
    BY <1>1, ReaderUnheard DEF Read, goto
  <1>3. offered' = [offered EXCEPT ![r] = {}] /\ got' = [got EXCEPT ![r] = "refused"]
    BY DEF Refuses, Closed
  <1> QED BY <1>2, <1>3, ReaderUnheard DEF Outcomes, Promised!Refuse, Promised!Stops

LEMMA ReaderImplements ==
    ASSUME FileInv, NEW r \in Appliers, ReaderStep(r)
    PROVE  Promised!PromiseNext \/ UNCHANGED Promised!promise
  <1> USE Names DEF FileInv, FileTypeOK
  <1>1. CASE Refuses(r)
    BY <1>1, RefuseImplements DEF Promised!PromiseNext
  <1>2. CASE OpenPlan(r) /\ pc'[r] = "read"
    <2>1. /\ offered' = [offered EXCEPT ![r] = {Held} \cap Plans]
          /\ got' = got /\ pc[r] = "open"
      BY <1>2 DEF OpenPlan, Refuses, goto
    <2>2. r \notin Reading /\ Reading' = Reading \cup {r}
      BY <1>2, <2>1, ReaderUnheard DEF Reading
    <2>3. Promised!StartReading(r)
      BY <2>1, <2>2, ReaderUnheard
         DEF Outcomes, Plans, Promised!Plans, Promised!StartReading
    <2> QED BY <2>3 DEF Promised!PromiseNext
  <1>3. CASE Read(r)
    BY <1>3, ReaderUnheard DEF Read, OpenPlan, Outcomes, Promised!promise
  <1>4. CASE ReadRest(r) /\ ~Refuses(r)
    <2>1. r \in Reading /\ pc'[r] = "done" /\ ~OpenPlan(r) /\ ~Read(r)
      BY <1>4 DEF ReadRest, OpenPlan, Read, Reading, goto
    <2>2. Reading' = Reading \ {r} /\ offered' = [offered EXCEPT ![r] = {}]
      BY <1>4, <2>1, ReaderUnheard DEF ReadRest, Closed
    <2>3. got' = [got EXCEPT ![r] = first[r]] /\ first[r] \in offered[r]
      BY <1>4 DEF ReadRest, Refuses, Decode, Seen, Reading
    <2>4. Promised!Accept(r)
      BY <2>1, <2>2, <2>3, ReaderUnheard DEF Outcomes, Promised!Accept, Promised!Stops
    <2> QED BY <2>4 DEF Promised!PromiseNext
  <1> QED BY <1>1, <1>2, <1>3, <1>4 DEF ReaderStep, OpenPlan, ReadFails, goto, Refuses

\* A writer that dies shows nothing; a reader that dies reads no more.
LEMMA DiesImplements ==
    ASSUME FileInv, NEW p \in Planners \cup Appliers, Dies(p)
    PROVE  Promised!PromiseNext \/ UNCHANGED Promised!promise
  <1> USE Names DEF FileInv, FileTypeOK
  <1>1. /\ UNCHANGED <<file, got, moves>> /\ pc[p] \notin Ended /\ pc'[p] = "dead"
        /\ \A q \in Planners \cup Appliers : q # p => pc'[q] = pc[q]
    BY DEF Dies, goto
  <1>2. Held' = Held /\ Outcomes' = Outcomes
    BY <1>1 DEF Held, Whole, file, Outcomes, Ended
  <1>3. Reading' = Reading \ {p}
    BY <1>1 DEF Reading
  <1>4. CASE p \in Appliers
    <2>1. offered' = [offered EXCEPT ![p] = {}]
      BY <1>4 DEF Dies, Closed
    <2>2. Promised!ReaderDies(p)
      BY <1>1, <1>2, <1>3, <2>1 DEF Outcomes, Promised!ReaderDies, Promised!Stops
    <2> QED BY <1>4, <2>2 DEF Promised!PromiseNext
  <1>5. CASE p \in Planners
    <2>1. offered' = offered /\ Reading' = Reading
      BY <1>3, <1>5 DEF Dies, Closed, Reading
    <2> QED BY <1>1, <1>2, <2>1 DEF Outcomes, Promised!promise
  <1> QED BY <1>4, <1>5

LEMMA OthersImplement ==
    ASSUME FileInv, Others
    PROVE  Promised!PromiseNext
  <1> USE Names DEF FileInv, FileTypeOK
  <1>1. moves' = moves + 1 /\ got' = got
    BY DEF Others, Swapped, Scribbled, PowerFails, Move, reader
  <1>2. Outcomes' = Outcomes
    BY DEF Others, Swapped, Scribbled, PowerFails, Outcomes, Ended
  <1>3. Reading' \subseteq Reading /\ \A r \in Reading' : offered[r] \subseteq offered'[r]
    <2>1. CASE Swapped
      BY <2>1 DEF Swapped, Reading
    <2>2. CASE Scribbled
      BY <2>2 DEF Scribbled, Reading, Offer
    <2>3. CASE PowerFails
      BY <2>3 DEF PowerFails, Reading, Ended
    <2> QED BY <2>1, <2>2, <2>3 DEF Others
  <1>4. Promised!Meddle
    BY <1>1, <1>2, <1>3 DEF Outcomes, Promised!Meddle
  <1> QED BY <1>4 DEF Promised!PromiseNext

\* PlanFileImplementsAtomicPlan: for any number of plan and apply commands and
\* whatever fails, dies or is done to FILE by others, plan -o replaces FILE in
\* one step or leaves it alone, and apply accepts only a whole plan that FILE
\* held while it was read (workflow.go:351-389, 432-456, plan.go:406-431).
THEOREM PlanFileImplementsAtomicPlan == FileSpec => AtomicReplace
  <1>1. FileInv /\ [FileNext]_fileVars => [Promised!PromiseNext]_(Promised!promise)
    <2> SUFFICES ASSUME FileInv, [FileNext]_fileVars
                 PROVE  Promised!PromiseNext \/ UNCHANGED Promised!promise
      OBVIOUS
    <2>1. CASE UNCHANGED fileVars
      BY <2>1 DEF fileVars, file, reader, Held, Whole, Reading, Promised!promise
    <2> QED
      BY <2>1, WriterImplements, ReaderImplements, DiesImplements, OthersImplement
         DEF FileNext
  <1>2. FileSpec => []FileInv
    BY InitFile, FileStepInv, PTL DEF FileSpec
  <1> QED BY <1>1, <1>2, InitPromise, PTL DEF FileSpec, AtomicReplace, Promised!Promise
=============================================================================
