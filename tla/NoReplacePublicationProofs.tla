--------------------- MODULE NoReplacePublicationProofs ---------------------
(***************************************************************************)
(* Proofs about NoReplacePublication, for any number of invocations with   *)
(* any destinations, suffixes, receipts and validators.                    *)
(*                                                                         *)
(* The inductive invariant says who may touch which inode: an invocation   *)
(* that has reserved owns its staging directory (Owned), its stream is     *)
(* open on an inode of its own (TypeOK), and that inode is linked to a     *)
(* destination only after the payload has been finished (Linked).          *)
(***************************************************************************)
EXTENDS NoReplacePublication, TLAPS

\* Where an invocation holds its staging directory.
Holding == {"open", "write", "validate", "link", "classify", "cleanup"}

\* Whoever is past its reservation owns the directory, and finds no payload.
Owned ==
    \A p \in Invocations : pc[p] \in Holding =>
        /\ directory[Slot(p)] # NoDirectory
        /\ directory[Slot(p)].owner = Job(p)
        /\ pc[p] = "open" => directory[Slot(p)].payload = NoFile

\* A directory is where its owner's plan says, and unless it leaked or its
\* owner died the owner is still at work on that artifact.
Accounted ==
    \A s \in Staging : directory[s] # NoDirectory =>
        \A p \in Invocations, a \in Artifact : directory[s].owner = <<p, a>> =>
            /\ s = Plan[p][a]
            /\ s \in leaked \/ (at[p] = a /\ pc[p] \in Holding \union {"crashed"})

\* The payload is complete from the write to the link, and a flawed one does
\* not get past its validator.
Staged ==
    \A p \in Invocations :
        /\ pc[p] \in {"validate", "link"} =>
               data[Job(p)] = Complete(Job(p))
        /\ pc[p] = "link" => Acceptable(p)

\* What a destination is linked to, and how far its writer has got.
Linked ==
    \A d \in Paths, p \in Invocations, a \in Artifact : file[d] = <<p, a>> =>
        /\ d = Plan[p][a].dest
        /\ data[file[d]] = Complete(file[d])
        /\ ~(a = "output" /\ p \in Checked /\ p \in Flawed)
        /\ \/ a = at[p] /\ pc[p] \in {"cleanup", "done", "crashed"}
           \/ a = "output" /\ at[p] = "receipt"

\* The receipt is begun after the output has been published.
Ordered ==
    \A p \in Invocations : at[p] = "receipt" =>
        file[Plan[p]["output"].dest] = <<p, "output">>

ForeignKept == data[Foreign] = Complete(Foreign)

IInv ==
    /\ TypeOK
    /\ Owned
    /\ Accounted
    /\ Staged
    /\ Linked
    /\ Ordered
    /\ ForeignKept
    /\ ReportsAreTruthful

-----------------------------------------------------------------------------
LEMMA PlanTypes ==
    ASSUME NEW p \in Invocations, NEW a \in Artifact
    PROVE  /\ Plan[p][a] \in Staging
           /\ Plan[p][a].dest \in Paths
  BY PlanAssumption DEF Staging

LEMMA JobTypes ==
    ASSUME TypeOK, NEW p \in Invocations
    PROVE  /\ at[p] \in Artifact
           /\ Job(p) \in Jobs
           /\ Job(p) \in Inodes
           /\ Job(p) # NoFile
           /\ Job(p) # Foreign
           /\ Slot(p) \in Staging
           /\ Dest(p) \in Paths
  <1>1. at[p] \in Artifact
    BY DEF TypeOK
  <1>2. Job(p) \in Jobs
    BY <1>1 DEF Job, Jobs
  <1> QED
    BY <1>1, <1>2, PlanTypes, MarksAssumption DEF Slot, Dest, Inodes

LEMMA InitIInv == Init => IInv
  <1> SUFFICES ASSUME Init PROVE IInv
    OBVIOUS
  <1>1. TypeOK
    <2>1. data \in [Inodes -> Content]
      BY DEF Init, Content
    <2>2. directory \in [Staging -> Directory \union {NoDirectory}]
      BY DEF Init
    <2>3. file \in [Paths -> Inodes \union {NoFile}]
      BY DEF Init, Inodes
    <2> QED
      BY <2>1, <2>2, <2>3 DEF Init, TypeOK, Running, Artifact, Status
  <1>2. Owned /\ Accounted /\ Staged /\ Ordered /\ ReportsAreTruthful
    BY DEF Init, Owned, Accounted, Staged, Ordered, ReportsAreTruthful, Holding
  <1>3. ForeignKept
    BY DEF Init, ForeignKept, Inodes, Complete
  <1>4. Linked
    <2>1. \A d \in Paths : file[d] \in {NoFile, Foreign}
      BY DEF Init
    <2>2. \A p \in Invocations, a \in Artifact :
              <<p, a>> \in Jobs
      BY DEF Jobs
    <2> QED
      BY <2>1, <2>2, MarksAssumption DEF Linked
  <1> QED
    BY <1>1, <1>2, <1>3, <1>4 DEF IInv

-----------------------------------------------------------------------------
(***************************************************************************)
(* Steps that touch no file: they differ in where they leave the           *)
(* invocation.                                                             *)
(***************************************************************************)

\* The invocation returns without having owned a staging directory.
LEMMA ReturnsAtOnce ==
    ASSUME IInv, NEW p \in Invocations, NEW st \in Status \ {"success", "destination_exists"},
           pc[p] = "reserve", Returns(p, st),
           UNCHANGED <<handle, directory, data, file, leaked>>
    PROVE  IInv'
  <1>1. /\ pc' = [pc EXCEPT ![p] = "done"]
        /\ at' = at
        /\ status' = [status EXCEPT ![p] = st]
    <2>1. at' = [at EXCEPT ![p] = at[p]] /\ pc' = [pc EXCEPT ![p] = "done"]
      BY DEF Returns, GoesOn
    <2>2. at' = at
      BY <2>1 DEF IInv, TypeOK
    <2> QED
      BY <2>1, <2>2 DEF Returns
  <1>2. TypeOK'
    BY <1>1 DEF IInv, TypeOK, Job
  <1>3. Owned'
    BY <1>1 DEF IInv, TypeOK, Owned, Holding, Job, Slot
  <1>4. Accounted'
    BY <1>1 DEF IInv, TypeOK, Accounted, Holding
  <1>5. Staged'
    BY <1>1 DEF IInv, TypeOK, Staged, Job, Acceptable, Validates
  <1>6. Linked'
    BY <1>1 DEF IInv, TypeOK, Linked
  <1>7. Ordered' /\ ForeignKept'
    BY <1>1 DEF IInv, Ordered, ForeignKept
  <1>8. ReportsAreTruthful'
    BY <1>1 DEF IInv, TypeOK, ReportsAreTruthful, Job, Dest, Slot
  <1> QED
    BY <1>2, <1>3, <1>4, <1>5, <1>6, <1>7, <1>8 DEF IInv

\* The invocation gives up while it owns its staging directory.
LEMMA GivesUp ==
    ASSUME IInv, NEW p \in Invocations, NEW st \in Status \ {"success"},
           pc[p] \in Holding, Leaves(p, st),
           st = "destination_exists" => file[Dest(p)] # NoFile,
           UNCHANGED <<handle, directory, data, file, leaked>>
    PROVE  IInv'
  <1>1. /\ pc' = [pc EXCEPT ![p] = "cleanup"]
        /\ at' = at
        /\ status' = [status EXCEPT ![p] = st]
    BY DEF Leaves
  <1>2. TypeOK'
    BY <1>1 DEF IInv, TypeOK, Job, Running
  <1>3. Owned'
    BY <1>1 DEF IInv, TypeOK, Owned, Holding, Job, Slot
  <1>4. Accounted'
    BY <1>1 DEF IInv, TypeOK, Accounted, Holding
  <1>5. Staged'
    BY <1>1 DEF IInv, TypeOK, Staged, Job, Acceptable, Validates
  <1>6. Linked'
    BY <1>1 DEF IInv, TypeOK, Linked
  <1>7. Ordered' /\ ForeignKept'
    BY <1>1 DEF IInv, Ordered, ForeignKept
  <1>8. ReportsAreTruthful'
    BY <1>1 DEF IInv, TypeOK, ReportsAreTruthful, Job, Dest, Slot
  <1> QED
    BY <1>2, <1>3, <1>4, <1>5, <1>6, <1>7, <1>8 DEF IInv

\* The invocation goes on, or dies.
LEMMA GoesForward ==
    ASSUME IInv, NEW p \in Invocations,
           NEW to \in {"link", "classify", "crashed"},
           pc[p] \in Running, pc' = [pc EXCEPT ![p] = to],
           to # "crashed" => pc[p] \in {"validate", "link"},
           to = "link" => pc[p] = "validate" /\ Acceptable(p),
           UNCHANGED <<at, status, handle, directory, data, file, leaked>>
    PROVE  IInv'
  <1>2. TypeOK'
    BY DEF IInv, TypeOK, Job, Running
  <1>3. Owned'
    BY DEF IInv, TypeOK, Owned, Holding, Job, Slot
  <1>4. Accounted'
    BY DEF IInv, TypeOK, Accounted, Holding
  <1>5. Staged'
    BY DEF IInv, TypeOK, Staged, Job, Acceptable, Validates
  <1>6. Linked'
    BY DEF IInv, TypeOK, Linked
  <1>7. Ordered' /\ ForeignKept'
    BY DEF IInv, Ordered, ForeignKept
  <1>8. ReportsAreTruthful'
    BY DEF IInv, TypeOK, ReportsAreTruthful, Job, Dest, Slot, Running
  <1> QED
    BY <1>2, <1>3, <1>4, <1>5, <1>6, <1>7, <1>8 DEF IInv

-----------------------------------------------------------------------------
(***************************************************************************)
(* Steps that touch files.                                                 *)
(***************************************************************************)

LEMMA ReserveKeeps ==
    ASSUME IInv, NEW p \in Invocations, Reserve(p)
    PROVE  IInv'
  <1> DEFINE own == [owner |-> Job(p), payload |-> NoFile]
  <1>1. /\ pc[p] = "reserve"
        /\ directory[Slot(p)] = NoDirectory
        /\ directory' = [directory EXCEPT ![Slot(p)] = own]
        /\ pc' = [pc EXCEPT ![p] = "open"]
        /\ UNCHANGED <<at, status, handle, data, file, leaked>>
    BY DEF Reserve, MayReserve
  <1>2. own \in Directory /\ own # NoDirectory
    BY JobTypes, MarksAssumption DEF IInv, Directory
  <1>3. TypeOK'
    BY <1>1, <1>2 DEF IInv, TypeOK, Job, Running
  <1>4. \A q \in Invocations : Slot(q)' = Slot(q) /\ Job(q)' = Job(q)
    BY <1>1 DEF Slot, Job
  <1>5. \A q \in Invocations \ {p} : pc[q] \in Holding => Slot(q) # Slot(p)
    BY <1>1 DEF IInv, Owned
  <1>6. directory'[Slot(p)] = own
    BY <1>1, JobTypes DEF IInv, TypeOK
  <1>7. Owned'
    <2> SUFFICES ASSUME NEW q \in Invocations, pc'[q] \in Holding
                 PROVE  (/\ directory[Slot(q)] # NoDirectory
                         /\ directory[Slot(q)].owner = Job(q)
                         /\ pc[q] = "open" => directory[Slot(q)].payload = NoFile)'
      BY DEF Owned
    <2>1. CASE q = p
      BY <2>1, <1>2, <1>4, <1>6
    <2>2. CASE q # p
      <3>1. pc'[q] = pc[q] /\ Slot(q) # Slot(p)
        BY <2>2, <1>1, <1>5 DEF IInv, TypeOK
      <3>2. directory'[Slot(q)] = directory[Slot(q)]
        BY <3>1, <1>1, JobTypes DEF IInv, TypeOK
      <3> QED
        BY <3>1, <3>2, <1>4 DEF IInv, Owned
    <2> QED
      BY <2>1, <2>2
  <1>8. Accounted'
    <2> SUFFICES ASSUME NEW s \in Staging, directory'[s] # NoDirectory,
                        NEW q \in Invocations, NEW a \in Artifact,
                        directory'[s].owner = <<q, a>>
                 PROVE  /\ s = Plan[q][a]
                        /\ s \in leaked' \/ (at'[q] = a /\ pc'[q] \in Holding \union {"crashed"})
      BY DEF Accounted
    <2>1. CASE s = Slot(p)
      <3>1. q = p /\ a = at[p]
        BY <2>1, <1>6 DEF Job
      <3> QED
        BY <2>1, <3>1, <1>1 DEF IInv, TypeOK, Slot, Holding
    <2>2. CASE s # Slot(p)
      <3>1. directory'[s] = directory[s]
        BY <2>2, <1>1 DEF IInv, TypeOK
      <3> QED
        BY <3>1, <1>1 DEF IInv, TypeOK, Accounted, Holding
    <2> QED
      BY <2>1, <2>2
  <1>9. Staged'
    BY <1>1 DEF IInv, TypeOK, Staged, Job, Acceptable, Validates
  <1>10. Linked' /\ Ordered' /\ ForeignKept'
    BY <1>1 DEF IInv, TypeOK, Linked, Ordered, ForeignKept
  <1>11. ReportsAreTruthful'
    BY <1>1 DEF IInv, TypeOK, ReportsAreTruthful, Job, Dest, Slot
  <1> QED
    BY <1>3, <1>7, <1>8, <1>9, <1>10, <1>11 DEF IInv

\* The inode an invocation writes before its link is linked nowhere.
LEMMA UnlinkedWhileWritten ==
    ASSUME IInv, NEW p \in Invocations, pc[p] \in {"open", "write", "validate", "link"}
    PROVE  \A d \in Paths : file[d] # Job(p)
  <1> SUFFICES ASSUME NEW d \in Paths, file[d] = <<p, at[p]>> PROVE FALSE
    BY DEF Job
  <1>1. at[p] \in Artifact
    BY JobTypes DEF IInv
  <1>2. \A a \in Artifact : file[d] = <<p, a>> =>
            \/ a = at[p] /\ pc[p] \in {"cleanup", "done", "crashed"}
            \/ a = "output" /\ at[p] = "receipt"
    BY DEF IInv, Linked
  <1> QED
    BY <1>1, <1>2

\* What is written to the inode of an invocation that has not linked it yet
\* is seen by nobody else.
LEMMA WritingKeepsOthers ==
    ASSUME IInv, NEW p \in Invocations, NEW content \in Content,
           pc[p] \in {"open", "write"},
           NEW to \in {"write", "validate"}, pc' = [pc EXCEPT ![p] = to],
           to = "validate" => content = Complete(Job(p)),
           data' = [data EXCEPT ![Job(p)] = content],
           \A q \in Invocations \ {p} : handle'[q] = handle[q],
           UNCHANGED <<at, status, file>>
    PROVE  Staged' /\ Linked' /\ Ordered' /\ ForeignKept' /\ ReportsAreTruthful'
  <1>1. /\ \A i \in Inodes \ {Job(p)} : data'[i] = data[i]
        /\ data'[Job(p)] = content
    BY JobTypes DEF IInv, TypeOK
  <1>2. \A q \in Invocations : Job(q)' = Job(q) /\ (q # p => Job(q) # Job(p))
    BY DEF Job
  <1>3. \A q \in Invocations \ {p} : pc'[q] = pc[q] /\ data'[Job(q)] = data[Job(q)]
    BY <1>1, <1>2, JobTypes DEF IInv, TypeOK
  <1>4. pc'[p] = to
    BY DEF IInv, TypeOK
  <1>5. Staged'
    <2> SUFFICES ASSUME NEW q \in Invocations
                 PROVE  (/\ pc[q] \in {"validate", "link"} =>
                               data[Job(q)] = Complete(Job(q))
                         /\ pc[q] = "link" => Acceptable(q))'
      BY DEF Staged
    <2>1. CASE q = p
      BY <2>1, <1>1, <1>2, <1>4
    <2>2. CASE q # p
      <3>1. pc[q] = "link" => handle[q] = Job(q)
        BY DEF IInv, TypeOK
      <3>2. pc[q] = "link" => (Acceptable(q) => Acceptable(q)')
        <4>1. handle'[q] = handle[q] /\ at'[q] = at[q]
          BY <2>2
        <4> QED
          BY <4>1, <3>1, <2>2, <1>2, <1>3 DEF Acceptable, Validates
      <3>3. /\ pc'[q] = pc[q]
            /\ Job(q)' = Job(q)
            /\ data'[Job(q)] = data[Job(q)]
        BY <2>2, <1>2, <1>3
      <3>4. /\ pc[q] \in {"validate", "link"} => data[Job(q)] = Complete(Job(q))
            /\ pc[q] = "link" => Acceptable(q)
        BY DEF IInv, Staged
      <3> QED
        BY <3>2, <3>3, <3>4
    <2> QED
      BY <2>1, <2>2
  <1>6. Linked'
    <2> SUFFICES ASSUME NEW d \in Paths, NEW q \in Invocations, NEW a \in Artifact,
                        file[d] = <<q, a>>
                 PROVE  (/\ d = Plan[q][a].dest
                         /\ data[file[d]] = Complete(file[d])
                         /\ ~(a = "output" /\ q \in Checked /\ q \in Flawed)
                         /\ \/ a = at[q] /\ pc[q] \in {"cleanup", "done", "crashed"}
                            \/ a = "output" /\ at[q] = "receipt")'
      BY DEF Linked
    <2>1. file[d] # Job(p) /\ file[d] \in Inodes
      BY UnlinkedWhileWritten DEF Inodes, Jobs
    <2>2. data'[file[d]] = data[file[d]]
      BY <2>1, <1>1
    <2>3. a = at[q] /\ pc[q] \in {"cleanup", "done", "crashed"} => q # p
      OBVIOUS
    <2> QED
      BY <2>2, <2>3, <1>3 DEF IInv, Linked
  <1>7. Ordered'
    BY DEF IInv, Ordered
  <1>8. ForeignKept'
    BY <1>1, JobTypes DEF IInv, ForeignKept, Inodes
  <1>9. ReportsAreTruthful'
    BY <1>3, <1>4 DEF IInv, ReportsAreTruthful, Job, Dest, Slot
  <1> QED
    BY <1>5, <1>6, <1>7, <1>8, <1>9

\* Two invocations never hold the same staging directory.
LEMMA HoldersApart ==
    ASSUME IInv, NEW p \in Invocations, NEW q \in Invocations \ {p},
           pc[p] \in Holding, pc[q] \in Holding
    PROVE  Slot(p) # Slot(q)
  <1>1. directory[Slot(p)].owner = <<p, at[p]>>
    BY DEF IInv, Owned, Job
  <1>2. directory[Slot(q)].owner = <<q, at[q]>>
    BY DEF IInv, Owned, Job
  <1> QED
    BY <1>1, <1>2

LEMMA OpenKeeps ==
    ASSUME IInv, NEW p \in Invocations, Open(p)
    PROVE  IInv'
  <1> DEFINE empty == [of |-> Job(p), whole |-> FALSE]
             old == directory[Slot(p)]
  <1>1. /\ pc[p] = "open"
        /\ pc' = [pc EXCEPT ![p] = "write"]
        /\ UNCHANGED <<at, status, file, leaked>>
    BY DEF Open
  <1>2. /\ old \in Directory
        /\ old # NoDirectory
        /\ old.owner = Job(p)
        /\ old.payload = NoFile
    BY <1>1, JobTypes DEF IInv, TypeOK, Owned, Holding
  <1>3. Opened(p) = Job(p)
    BY <1>2 DEF Opened
  <1>4. /\ handle' = [handle EXCEPT ![p] = Job(p)]
        /\ data' = [data EXCEPT ![Job(p)] = empty]
        /\ directory' = [directory EXCEPT ![Slot(p)].payload = Job(p)]
    BY <1>3 DEF Open
  <1> DEFINE new == [old EXCEPT !.payload = Job(p)]
  <1>5. new \in Directory /\ new # NoDirectory /\ new.owner = Job(p)
    BY <1>2, JobTypes, MarksAssumption DEF IInv, Directory
  <1>6. /\ directory'[Slot(p)] = new
        /\ \A s \in Staging \ {Slot(p)} : directory'[s] = directory[s]
        /\ directory' \in [Staging -> Directory \union {NoDirectory}]
    BY <1>4, <1>5, JobTypes DEF IInv, TypeOK
  <1>7. empty \in Content
    BY JobTypes DEF IInv, Content
  <1>8. \A q \in Invocations : Slot(q)' = Slot(q) /\ Job(q)' = Job(q)
    BY <1>1 DEF Slot, Job
  <1>9. /\ pc'[p] = "write"
        /\ \A q \in Invocations \ {p} : pc'[q] = pc[q] /\ handle'[q] = handle[q]
        /\ handle'[p] = Job(p)
    BY <1>1, <1>4 DEF IInv, TypeOK
  <1> HIDE DEF empty, new, old
  <1>10. TypeOK'
    <2>1. data' \in [Inodes -> Content]
      BY <1>4, <1>7 DEF IInv, TypeOK
    <2>2. handle' \in [Invocations -> Jobs \union {NoFile}]
      BY <1>4, JobTypes DEF IInv, TypeOK
    <2>3. \A q \in Invocations :
              pc'[q] \in {"write", "validate", "link"} => handle'[q] = Job(q)'
      BY <1>8, <1>9 DEF IInv, TypeOK
    <2> QED
      BY <1>1, <1>6, <2>1, <2>2, <2>3 DEF IInv, TypeOK, Running
  <1>11. Owned'
    <2> SUFFICES ASSUME NEW q \in Invocations, pc'[q] \in Holding
                 PROVE  (/\ directory[Slot(q)] # NoDirectory
                         /\ directory[Slot(q)].owner = Job(q)
                         /\ pc[q] = "open" => directory[Slot(q)].payload = NoFile)'
      BY DEF Owned
    <2>1. CASE q = p
      BY <2>1, <1>5, <1>6, <1>8, <1>9
    <2>2. CASE q # p
      <3>1. pc[q] \in Holding /\ Slot(q) # Slot(p)
        BY <2>2, <1>1, <1>9, HoldersApart DEF Holding
      <3>2. directory'[Slot(q)] = directory[Slot(q)]
        BY <3>1, <1>6, JobTypes DEF IInv
      <3> QED
        BY <2>2, <3>1, <3>2, <1>8, <1>9 DEF IInv, Owned
    <2> QED
      BY <2>1, <2>2
  <1>12. Accounted'
    <2> SUFFICES ASSUME NEW s \in Staging, directory'[s] # NoDirectory,
                        NEW q \in Invocations, NEW a \in Artifact,
                        directory'[s].owner = <<q, a>>
                 PROVE  /\ s = Plan[q][a]
                        /\ s \in leaked' \/ (at'[q] = a /\ pc'[q] \in Holding \union {"crashed"})
      BY DEF Accounted
    <2>1. directory[s] # NoDirectory /\ directory[s].owner = <<q, a>>
      BY <1>2, <1>5, <1>6 DEF old
    <2>2. /\ s = Plan[q][a]
          /\ s \in leaked \/ (at[q] = a /\ pc[q] \in Holding \union {"crashed"})
      BY <2>1 DEF IInv, Accounted
    <2> QED
      BY <2>2, <1>1, <1>9 DEF Holding
  <1>13. Staged' /\ Linked' /\ Ordered' /\ ForeignKept' /\ ReportsAreTruthful'
    BY <1>1, <1>4, <1>7, <1>9, WritingKeepsOthers
  <1> QED
    BY <1>10, <1>11, <1>12, <1>13 DEF IInv

LEMMA WriteKeeps ==
    ASSUME IInv, NEW p \in Invocations, Write(p)
    PROVE  IInv'
  <1>1. /\ pc[p] = "write"
        /\ pc' = [pc EXCEPT ![p] = "validate"]
        /\ handle[p] = Job(p)
        /\ data' = [data EXCEPT ![Job(p)] = Complete(Job(p))]
        /\ UNCHANGED <<at, status, handle, directory, file, leaked>>
    BY DEF IInv, TypeOK, Write
  <1>2. Complete(Job(p)) \in Content
    BY JobTypes DEF IInv, Complete, Content
  <1>3. TypeOK'
    BY <1>1, <1>2 DEF IInv, TypeOK, Job, Running
  <1>4. Owned'
    BY <1>1 DEF IInv, TypeOK, Owned, Holding, Job, Slot
  <1>5. Accounted'
    BY <1>1 DEF IInv, TypeOK, Accounted, Holding
  <1>6. Staged' /\ Linked' /\ Ordered' /\ ForeignKept' /\ ReportsAreTruthful'
    BY <1>1, <1>2, WritingKeepsOthers
  <1> QED
    BY <1>3, <1>4, <1>5, <1>6 DEF IInv

LEMMA LinkKeeps ==
    ASSUME IInv, NEW p \in Invocations, Link(p)
    PROVE  IInv'
  <1>1. /\ pc[p] = "link"
        /\ file[Dest(p)] = NoFile
        /\ handle[p] = Job(p)
        /\ file' = [file EXCEPT ![Dest(p)] = Job(p)]
        /\ pc' = [pc EXCEPT ![p] = "cleanup"]
        /\ status' = [status EXCEPT ![p] = "success"]
        /\ UNCHANGED <<at, handle, directory, data, leaked>>
    BY DEF IInv, TypeOK, Link, MayLink, Leaves
  <1>2. /\ file'[Dest(p)] = Job(p)
        /\ \A d \in Paths \ {Dest(p)} : file'[d] = file[d]
        /\ \A d \in Paths : file[d] # NoFile => file'[d] = file[d]
    BY <1>1, JobTypes DEF IInv, TypeOK
  <1>3. /\ pc'[p] = "cleanup"
        /\ \A q \in Invocations \ {p} : pc'[q] = pc[q] /\ status'[q] = status[q]
        /\ status'[p] = "success"
    BY <1>1 DEF IInv, TypeOK
  <1>4. /\ data[Job(p)] = Complete(Job(p))
        /\ Acceptable(p)
    BY <1>1 DEF IInv, Staged
  <1>5. TypeOK'
    <2>1. file' \in [Paths -> Inodes \union {NoFile}]
      BY <1>1, JobTypes DEF IInv, TypeOK
    <2> QED
      BY <1>1, <2>1 DEF IInv, TypeOK, Job, Running, Status
  <1>6. Owned'
    BY <1>1 DEF IInv, TypeOK, Owned, Holding, Job, Slot
  <1>7. Accounted'
    BY <1>1 DEF IInv, TypeOK, Accounted, Holding
  <1>8. Staged'
    BY <1>1 DEF IInv, TypeOK, Staged, Job, Acceptable, Validates
  <1>9. Linked'
    <2> SUFFICES ASSUME NEW d \in Paths, NEW q \in Invocations, NEW a \in Artifact,
                        file'[d] = <<q, a>>
                 PROVE  (/\ d = Plan[q][a].dest
                         /\ data[file[d]] = Complete(file[d])
                         /\ ~(a = "output" /\ q \in Checked /\ q \in Flawed)
                         /\ \/ a = at[q] /\ pc[q] \in {"cleanup", "done", "crashed"}
                            \/ a = "output" /\ at[q] = "receipt")'
      BY DEF Linked
    <2>1. CASE d = Dest(p)
      <3>1. q = p /\ a = at[p] /\ file'[d] = Job(p)
        BY <2>1, <1>2 DEF Job
      <3>2. ~(a = "output" /\ q \in Checked /\ q \in Flawed)
        BY <3>1, <1>4 DEF Acceptable, Validates
      <3>3. d = Plan[q][a].dest
        BY <2>1, <3>1 DEF Dest, Slot
      <3>4. data'[file'[d]] = Complete(file'[d])
        BY <3>1, <1>1, <1>4
      <3> QED
        BY <3>1, <3>2, <3>3, <3>4, <1>1, <1>3
    <2>2. CASE d # Dest(p)
      <3>1. file'[d] = file[d]
        BY <2>2, <1>2
      <3>2. /\ d = Plan[q][a].dest
            /\ data[file[d]] = Complete(file[d])
            /\ ~(a = "output" /\ q \in Checked /\ q \in Flawed)
            /\ \/ a = at[q] /\ pc[q] \in {"cleanup", "done", "crashed"}
               \/ a = "output" /\ at[q] = "receipt"
        BY <3>1 DEF IInv, Linked
      <3> QED
        BY <3>1, <3>2, <1>1, <1>3
    <2> QED
      BY <2>1, <2>2
  <1>10. Ordered'
    <2> SUFFICES ASSUME NEW q \in Invocations, at'[q] = "receipt"
                 PROVE  file'[Plan[q]["output"].dest] = <<q, "output">>
      BY DEF Ordered
    <2>1. /\ Plan[q]["output"].dest \in Paths
          /\ <<q, "output">> # NoFile
      BY PlanTypes, MarksAssumption DEF Artifact, Jobs
    <2>2. file[Plan[q]["output"].dest] = <<q, "output">>
      BY <1>1 DEF IInv, Ordered
    <2> QED
      BY <2>1, <2>2, <1>2
  <1>11. ForeignKept'
    BY <1>1 DEF IInv, ForeignKept
  <1>12. ReportsAreTruthful'
    <2> SUFFICES ASSUME NEW q \in Invocations
                 PROVE  (/\ status[q] = "success" /\ pc[q] \in {"cleanup", "done"}
                                => file[Dest(q)] = Job(q)
                         /\ status[q] = "destination_exists" => file[Dest(q)] # NoFile)'
      BY DEF ReportsAreTruthful
    <2>1. /\ Dest(q)' = Dest(q) /\ Job(q)' = Job(q)
          /\ Dest(q) \in Paths /\ Job(q) # NoFile
      BY <1>1, JobTypes DEF IInv, Dest, Slot, Job
    <2>2. CASE q = p
      BY <2>1, <2>2, <1>2, <1>3
    <2>3. CASE q # p
      BY <2>1, <2>3, <1>2, <1>3 DEF IInv, ReportsAreTruthful
    <2> QED
      BY <2>2, <2>3
  <1> QED
    BY <1>5, <1>6, <1>7, <1>8, <1>9, <1>10, <1>11, <1>12 DEF IInv

\* The destructor has run, with or without success: whatever it left is
\* either gone or on record as leaked.
LEMMA CleanedKeeps ==
    ASSUME IInv, NEW p \in Invocations, pc[p] = "cleanup",
           NEW left \in Directory \union {NoDirectory},
           left # NoDirectory => left.owner = Job(p) /\ Slot(p) \in leaked',
           directory' = [directory EXCEPT ![Slot(p)] = left],
           leaked \subseteq leaked', leaked' \subseteq Staging,
           Returns(p, status[p]),
           UNCHANGED <<handle, data, file>>
    PROVE  IInv'
  <1>1. /\ \A q \in Invocations \ {p} : at'[q] = at[q] /\ pc'[q] = pc[q]
        /\ status' = status
        /\ pc'[p] = IF GoesOn(p, status[p]) THEN "reserve" ELSE "done"
        /\ at'[p] = IF GoesOn(p, status[p]) THEN "receipt" ELSE at[p]
        /\ pc' \in [Invocations -> Running \union {"done", "crashed"}]
        /\ at' \in [Invocations -> Artifact]
    BY DEF IInv, TypeOK, Returns, Running, Artifact
  <1>2. /\ directory'[Slot(p)] = left
        /\ \A s \in Staging \ {Slot(p)} : directory'[s] = directory[s]
        /\ directory' \in [Staging -> Directory \union {NoDirectory}]
    BY JobTypes DEF IInv, TypeOK
  <1>3. \A q \in Invocations \ {p} :
            Slot(q)' = Slot(q) /\ Job(q)' = Job(q) /\ Dest(q)' = Dest(q)
    BY <1>1 DEF Slot, Job, Dest
  <1>4. TypeOK'
    <2>1. \A q \in Invocations :
              pc'[q] \in {"write", "validate", "link"} => handle'[q] = Job(q)'
      BY <1>1, <1>3 DEF IInv, TypeOK
    <2> QED
      BY <1>1, <1>2, <2>1 DEF IInv, TypeOK
  <1>5. Owned'
    <2> SUFFICES ASSUME NEW q \in Invocations, pc'[q] \in Holding
                 PROVE  (/\ directory[Slot(q)] # NoDirectory
                         /\ directory[Slot(q)].owner = Job(q)
                         /\ pc[q] = "open" => directory[Slot(q)].payload = NoFile)'
      BY DEF Owned
    <2>1. q # p
      BY <1>1 DEF Holding
    <2>2. pc[q] \in Holding /\ Slot(q) # Slot(p)
      BY <2>1, <1>1, HoldersApart DEF Holding
    <2>3. directory'[Slot(q)] = directory[Slot(q)]
      BY <2>2, <1>2, JobTypes DEF IInv
    <2> QED
      BY <2>1, <2>2, <2>3, <1>1, <1>3 DEF IInv, Owned
  <1>6. Accounted'
    <2> SUFFICES ASSUME NEW s \in Staging, directory'[s] # NoDirectory,
                        NEW q \in Invocations, NEW a \in Artifact,
                        directory'[s].owner = <<q, a>>
                 PROVE  /\ s = Plan[q][a]
                        /\ s \in leaked' \/ (at'[q] = a /\ pc'[q] \in Holding \union {"crashed"})
      BY DEF Accounted
    <2>1. CASE s = Slot(p)
      <3>1. s \in leaked' /\ q = p /\ a = at[p]
        BY <2>1, <1>2 DEF Job
      <3> QED
        BY <2>1, <3>1 DEF Slot
    <2>2. CASE s # Slot(p)
      <3>1. directory'[s] = directory[s]
        BY <2>2, <1>2
      <3>2. /\ s = Plan[q][a]
            /\ s \in leaked \/ (at[q] = a /\ pc[q] \in Holding \union {"crashed"})
        BY <3>1 DEF IInv, Accounted
      <3>3. q = p => s \in leaked
        BY <2>2, <3>2 DEF Slot
      <3> QED
        BY <3>2, <3>3, <1>1
    <2> QED
      BY <2>1, <2>2
  <1>7. Staged'
    <2> SUFFICES ASSUME NEW q \in Invocations, pc'[q] \in {"validate", "link"}
                 PROVE  (/\ pc[q] \in {"validate", "link"} => data[Job(q)] = Complete(Job(q))
                         /\ pc[q] = "link" => Acceptable(q))'
      BY DEF Staged
    <2>1. q # p
      BY <1>1
    <2>2. Acceptable(q)' <=> Acceptable(q)
      BY <2>1, <1>1, <1>3 DEF Acceptable, Validates
    <2> QED
      BY <2>1, <2>2, <1>1, <1>3 DEF IInv, Staged
  <1>8. Linked'
    <2> SUFFICES ASSUME NEW d \in Paths, NEW q \in Invocations, NEW a \in Artifact,
                        file[d] = <<q, a>>
                 PROVE  (/\ d = Plan[q][a].dest
                         /\ data[file[d]] = Complete(file[d])
                         /\ ~(a = "output" /\ q \in Checked /\ q \in Flawed)
                         /\ \/ a = at[q] /\ pc[q] \in {"cleanup", "done", "crashed"}
                            \/ a = "output" /\ at[q] = "receipt")'
      BY DEF Linked
    <2>1. /\ d = Plan[q][a].dest
          /\ data[file[d]] = Complete(file[d])
          /\ ~(a = "output" /\ q \in Checked /\ q \in Flawed)
          /\ \/ a = at[q] /\ pc[q] \in {"cleanup", "done", "crashed"}
             \/ a = "output" /\ at[q] = "receipt"
      BY DEF IInv, Linked
    <2>2. \/ a = at'[q] /\ pc'[q] \in {"cleanup", "done", "crashed"}
          \/ a = "output" /\ at'[q] = "receipt"
      BY <2>1, <1>1 DEF GoesOn
    <2> QED
      BY <2>1, <2>2
  <1>9. ReportsAreTruthful /\ Ordered /\ ForeignKept
    BY DEF IInv
  <1>10. Ordered'
    <2> SUFFICES ASSUME NEW q \in Invocations, at'[q] = "receipt"
                 PROVE  file[Plan[q]["output"].dest] = <<q, "output">>
      BY DEF Ordered
    <2>1. CASE at[q] = "receipt"
      BY <2>1, <1>9 DEF Ordered
    <2>2. CASE at[q] # "receipt"
      <3>1. q = p /\ GoesOn(p, status[p])
        BY <2>2, <1>1
      <3>2. at[p] = "output" /\ status[p] = "success"
        BY <3>1 DEF GoesOn
      <3>3. file[Dest(p)] = Job(p)
        BY <3>2, <1>9 DEF ReportsAreTruthful
      <3> QED
        BY <3>1, <3>2, <3>3 DEF Dest, Slot, Job
    <2> QED
      BY <2>1, <2>2
  <1>11. ForeignKept'
    BY <1>9 DEF ForeignKept
  <1>12. ReportsAreTruthful'
    <2> SUFFICES ASSUME NEW q \in Invocations
                 PROVE  (/\ status[q] = "success" /\ pc[q] \in {"cleanup", "done"}
                                => file[Dest(q)] = Job(q)
                         /\ status[q] = "destination_exists" => file[Dest(q)] # NoFile)'
      BY DEF ReportsAreTruthful
    <2>1. CASE q # p
      BY <2>1, <1>1, <1>3, <1>9 DEF ReportsAreTruthful
    <2>2. CASE q = p /\ GoesOn(p, status[p])
      BY <2>2, <1>1 DEF GoesOn
    <2>3. CASE q = p /\ ~GoesOn(p, status[p])
      <3>1. at'[p] = at[p] /\ Dest(p)' = Dest(p) /\ Job(p)' = Job(p)
        BY <2>3, <1>1 DEF Dest, Slot, Job
      <3> QED
        BY <2>3, <3>1, <1>1, <1>9 DEF ReportsAreTruthful
    <2> QED
      BY <2>1, <2>2, <2>3
  <1> QED
    BY <1>4, <1>5, <1>6, <1>7, <1>8, <1>10, <1>11, <1>12 DEF IInv

LEMMA CleanupKeeps ==
    ASSUME IInv, NEW p \in Invocations, Cleanup(p)
    PROVE  IInv'
  BY CleanedKeeps DEF Cleanup, IInv, TypeOK

LEMMA CleanupFailsKeeps ==
    ASSUME IInv, NEW p \in Invocations, CleanupFails(p)
    PROVE  IInv'
  <1> DEFINE old == directory[Slot(p)]
  <1>1. /\ pc[p] = "cleanup"
        /\ old \in Directory
        /\ old # NoDirectory
        /\ old.owner = Job(p)
        /\ Slot(p) \in Staging
    BY JobTypes DEF CleanupFails, IInv, TypeOK, Owned, Holding
  <1>2. PICK remains \in {NoFile, old.payload} :
            directory' = [directory EXCEPT ![Slot(p)].payload = remains]
    BY DEF CleanupFails
  <1> DEFINE left == [old EXCEPT !.payload = remains]
  <1>3. left \in Directory /\ left.owner = Job(p)
    BY <1>1, <1>2 DEF Directory
  <1>4. directory' = [directory EXCEPT ![Slot(p)] = left]
    BY <1>2
  <1>5. leaked' = leaked \union {Slot(p)} /\ leaked \subseteq Staging
    BY DEF CleanupFails, IInv, TypeOK
  <1> HIDE DEF left
  <1> QED
    BY <1>1, <1>3, <1>4, <1>5, CleanedKeeps DEF CleanupFails

LEMMA NextIInv == IInv /\ [Next]_vars => IInv'
  <1> SUFFICES ASSUME IInv, [Next]_vars PROVE IInv'
    OBVIOUS
  <1>1. CASE UNCHANGED vars
    <2>1. UNCHANGED <<pc, at, status, handle, directory, data, file, leaked>>
      BY <1>1 DEF vars
    <2>2. TypeOK' /\ ForeignKept'
      BY <2>1 DEF IInv, TypeOK, ForeignKept, Job
    <2>3. Owned' /\ Accounted'
      BY <2>1 DEF IInv, Owned, Accounted, Job, Slot, Dest
    <2>4. Staged' /\ Linked'
      BY <2>1 DEF IInv, Staged, Linked, Job, Slot, Dest, Acceptable, Validates
    <2>5. Ordered' /\ ReportsAreTruthful'
      BY <2>1 DEF IInv, Ordered, ReportsAreTruthful, Job, Slot, Dest
    <2> QED
      BY <2>2, <2>3, <2>4, <2>5 DEF IInv
  <1>2. ASSUME NEW p \in Invocations, Step(p) PROVE IInv'
    <2>1. CASE Invalid(p) \/ ReserveRefused(p)
      BY <2>1, ReturnsAtOnce DEF Invalid, ReserveRefused, RefusedReservation, Status
    <2>2. CASE OpenFails(p) \/ WriteFails(p) \/ ValidationFails(p) \/ Unreadable(p)
      BY <2>2, GivesUp DEF OpenFails, WriteFails, ValidationFails, Unreadable,
                           Status, Holding
    <2>3. CASE Classify(p)
      <3>1. PICK st \in Verdicts(p) : Leaves(p, st)
        BY <2>3 DEF Classify
      <3>2. /\ st \in Status \ {"success"}
            /\ st = "destination_exists" => file[Dest(p)] # NoFile
        BY DEF Verdicts, Status
      <3> QED
        BY <2>3, <3>1, <3>2, GivesUp DEF Classify, Holding
    <2>4. CASE Validate(p)
      BY <2>4, GoesForward DEF Validate, Running
    <2>5. CASE LinkFails(p)
      BY <2>5, GoesForward DEF LinkFails, Running
    <2>6. CASE Crash(p)
      BY <2>6, GoesForward DEF Crash
    <2> QED
      BY <1>2, <2>1, <2>2, <2>3, <2>4, <2>5, <2>6, ReserveKeeps, OpenKeeps,
         WriteKeeps, LinkKeeps, CleanupKeeps, CleanupFailsKeeps DEF Step
  <1> QED
    BY <1>1, <1>2 DEF Next

\* The inductive invariant holds of every behaviour.
THEOREM PublicationInvariant == Spec => []IInv
  BY InitIInv, NextIInv, PTL DEF Spec

-----------------------------------------------------------------------------
(***************************************************************************)
(* What follows from it.                                                   *)
(***************************************************************************)

\* What every visible file is linked to.
LEMMA VisibleInode ==
    ASSUME IInv, NEW d \in Paths, file[d] # NoFile
    PROVE  /\ file[d] \in Inodes
           /\ data[file[d]] = Complete(file[d])
           /\ file[d] # Foreign => \E p \in Invocations, a \in Artifact :
                  /\ file[d] = <<p, a>>
                  /\ ~(a = "output" /\ p \in Checked /\ p \in Flawed)
  <1>1. file[d] \in Inodes
    BY DEF IInv, TypeOK
  <1>2. CASE file[d] = Foreign
    BY <1>1, <1>2 DEF IInv, ForeignKept
  <1>3. CASE file[d] # Foreign
    <2>1. PICK p \in Invocations, a \in Artifact : file[d] = <<p, a>>
      BY <1>1, <1>3 DEF Inodes, Jobs
    <2> QED
      BY <1>1, <2>1 DEF IInv, Linked
  <1> QED
    BY <1>2, <1>3

\* Type correctness.
THEOREM TypeCorrect == Spec => []TypeOK
  <1>1. IInv => TypeOK
    BY DEF IInv
  <1> QED
    BY <1>1, PublicationInvariant, PTL

\* A destination never shows an unfinished payload, nor one its validator
\* would have refused.
THEOREM OnlyFinishedIsVisible == Spec => []VisibleIsFinished
  <1>1. IInv => VisibleIsFinished
    <2> SUFFICES ASSUME IInv, NEW d \in Paths, file[d] # NoFile
                 PROVE  /\ data[file[d]].whole
                        /\ \A p \in Checked \intersect Flawed :
                               data[file[d]].of # <<p, "output">>
      BY DEF VisibleIsFinished
    <2>1. data[file[d]].whole /\ data[file[d]].of = file[d]
      <3>1. data[file[d]] = Complete(file[d])
        BY VisibleInode
      <3>2. Complete(file[d]).whole /\ Complete(file[d]).of = file[d]
        BY DEF Complete
      <3> QED
        BY <3>1, <3>2
    <2>2. ASSUME NEW p \in Checked \intersect Flawed, file[d] = <<p, "output">>
          PROVE  FALSE
      <3>1. file[d] # Foreign
        BY <2>2, MarksAssumption, PlanAssumption DEF Jobs, Artifact
      <3> QED
        BY <2>2, <3>1, VisibleInode
    <2> QED
      BY <2>1, <2>2
  <1> QED
    BY <1>1, PublicationInvariant, PTL

\* What a publication reports is so, and a visible receipt describes a visible
\* output of the same invocation.
THEOREM WordsStayTrue == Spec => []WordsAreTrue
  <1>1. IInv => ReceiptDescribesOutput
    <2> SUFFICES ASSUME IInv, NEW p \in Invocations,
                        file[Plan[p]["receipt"].dest] = <<p, "receipt">>
                 PROVE  file[Plan[p]["output"].dest] = <<p, "output">>
      BY DEF ReceiptDescribesOutput
    <2>1. Plan[p]["receipt"].dest \in Paths /\ "receipt" \in Artifact
      BY PlanTypes DEF Artifact
    <2>2. at[p] = "receipt"
      BY <2>1 DEF IInv, Linked
    <2> QED
      BY <2>2 DEF IInv, Ordered
  <1>2. IInv => WordsAreTrue
    BY <1>1 DEF IInv, WordsAreTrue
  <1> QED
    BY <1>2, PublicationInvariant, PTL

\* Only a dead owner or a refused removal leaves a staging directory behind.
THEOREM StagingIsCleaned == Spec => []OnlyFaultsLeaveStaging
  <1>1. IInv => OnlyFaultsLeaveStaging
    <2> SUFFICES ASSUME IInv, NEW s \in Staging \ leaked, directory[s] # NoDirectory
                 PROVE  /\ pc[directory[s].owner[1]] \in Running \union {"crashed"}
                        /\ at[directory[s].owner[1]] = directory[s].owner[2]
      BY DEF OnlyFaultsLeaveStaging
    <2>1. directory[s].owner \in Jobs
      BY DEF IInv, TypeOK, Directory
    <2>2. PICK p \in Invocations, a \in Artifact : directory[s].owner = <<p, a>>
      BY <2>1 DEF Jobs
    <2>3. at[p] = a /\ pc[p] \in Holding \union {"crashed"}
      BY <2>2 DEF IInv, Accounted
    <2> QED
      BY <2>2, <2>3 DEF Holding, Running
  <1> QED
    BY <1>1, PublicationInvariant, PTL

\* A staging directory changes only in a step of its living owner.
THEOREM StagingStaysForeign == Spec => StagingIsTheOwners
  <1> DEFINE Untouched ==
        \A s \in Staging :
            directory[s] # NoDirectory /\ directory'[s] # directory[s] =>
                LET p == directory[s].owner[1]
                IN  pc[p] \in Running /\ pc'[p] # pc[p]
  <1>1. IInv /\ [Next]_vars => Untouched
    <2> SUFFICES ASSUME IInv, [Next]_vars, NEW s \in Staging,
                        directory[s] # NoDirectory, directory'[s] # directory[s]
                 PROVE  /\ pc[directory[s].owner[1]] \in Running
                        /\ pc'[directory[s].owner[1]] # pc[directory[s].owner[1]]
      OBVIOUS
    <2>1. PICK p \in Invocations : Step(p)
      BY DEF vars, Next
    <2>2. Open(p) \/ Cleanup(p) \/ CleanupFails(p)
      <3>1. ~Reserve(p)
        <4>1. Slot(p) \in Staging /\ directory \in [Staging -> Directory \union {NoDirectory}]
          BY JobTypes DEF IInv, TypeOK
        <4> QED
          BY <4>1 DEF Reserve, MayReserve
      <3>2. directory' # directory
        OBVIOUS
      <3> QED
        BY <2>1, <3>1, <3>2 DEF Step, Invalid, ReserveRefused, OpenFails, Write,
           WriteFails, Validate, ValidationFails, Unreadable, Link, LinkFails,
           Classify, Crash
    <2>3. s = Slot(p)
      BY <2>2, JobTypes DEF IInv, TypeOK, Open, Cleanup, CleanupFails
    <2>4. pc[p] \in {"open", "cleanup"} /\ pc'[p] # pc[p]
      BY <2>2 DEF IInv, TypeOK, Open, Cleanup, CleanupFails, Returns
    <2>5. directory[s].owner = <<p, at[p]>>
      BY <2>3, <2>4 DEF IInv, Owned, Holding, Job
    <2> QED
      BY <2>4, <2>5 DEF Running
  <1>2. IInv /\ [Next]_vars => [Untouched]_vars
    BY <1>1
  <1> QED
    BY <1>2, PublicationInvariant, PTL DEF Spec, StagingIsTheOwners

\* The published files are a write-once store.
THEOREM ImplementsWriteOnce == Spec => RefinesWriteOnce
  <1>1. Init => Store!Init
    <2> SUFFICES ASSUME Init PROVE Store!Init
      OBVIOUS
    <2>1. ASSUME NEW d \in Paths PROVE Shown[d] \in {NoFile, Complete(Foreign)}
      BY <2>1 DEF Init, Shown, Inodes, Complete
    <2> QED
      BY <2>1 DEF Store!Init, Shown
  <1>2. IInv /\ [Next]_vars => [Store!Next]_Shown
    <2> SUFFICES ASSUME IInv, [Next]_vars PROVE Store!Next \/ UNCHANGED Shown
      OBVIOUS
    <2>1. CASE UNCHANGED vars
      BY <2>1 DEF vars, Shown
    <2>2. ASSUME NEW p \in Invocations, Step(p), ~Link(p), ~Open(p), ~Write(p)
          PROVE  UNCHANGED Shown
      <3>1. UNCHANGED <<file, data>>
        BY <2>2 DEF Step, Invalid, Reserve, ReserveRefused, OpenFails,
           WriteFails, Validate, ValidationFails, Unreadable, LinkFails,
           Classify, Cleanup, CleanupFails, Crash
      <3> QED
        BY <3>1 DEF Shown
    <2>3. ASSUME NEW p \in Invocations, Open(p) \/ Write(p)
          PROVE  UNCHANGED Shown
      <3>1. pc[p] \in {"open", "write"} /\ file' = file
        BY <2>3 DEF Open, Write
      <3>2. \A i \in Inodes \ {Job(p)} : data'[i] = data[i]
        <4>1. CASE Open(p)
          <5>1. Opened(p) = Job(p)
            BY <4>1 DEF IInv, Owned, Holding, Open, Opened
          <5> QED
            BY <4>1, <5>1 DEF Open, IInv, TypeOK
        <4>2. CASE Write(p)
          BY <4>2 DEF Write, IInv, TypeOK
        <4> QED
          BY <2>3, <4>1, <4>2
      <3>3. ASSUME NEW d \in Paths, file[d] # NoFile
            PROVE  data'[file[d]] = data[file[d]]
        BY <3>1, <3>2, <3>3, UnlinkedWhileWritten DEF IInv, TypeOK
      <3> QED
        BY <3>1, <3>3 DEF Shown
    <2>4. ASSUME NEW p \in Invocations, Link(p) PROVE Store!Next
      <3>1. /\ pc[p] = "link"
            /\ file[Dest(p)] = NoFile
            /\ handle[p] = Job(p)
            /\ file' = [file EXCEPT ![Dest(p)] = Job(p)]
            /\ data' = data
            /\ Dest(p) \in Paths
            /\ Job(p) # NoFile
        BY <2>4, JobTypes DEF IInv, TypeOK, Link, MayLink
      <3>2. data[Job(p)] = Complete(Job(p)) /\ Acceptable(p)
        BY <3>1 DEF IInv, Staged
      <3>3. Complete(Job(p)) \in Publishable
        BY <3>2, JobTypes DEF IInv, Publishable, Acceptable, Validates, Job
      <3>4. Shown[Dest(p)] = NoFile
        BY <3>1 DEF Shown
      <3>5. Shown' = [Shown EXCEPT ![Dest(p)] = Complete(Job(p))]
        <4>1. ASSUME NEW d \in Paths
              PROVE  Shown'[d] = IF d = Dest(p) THEN Complete(Job(p)) ELSE Shown[d]
          <5>1. file'[d] = IF d = Dest(p) THEN Job(p) ELSE file[d]
            BY <3>1 DEF IInv, TypeOK
          <5>2. Shown'[d] = IF file'[d] = NoFile THEN NoFile ELSE data[file'[d]]
            BY <3>1 DEF Shown
          <5>3. Shown[d] = IF file[d] = NoFile THEN NoFile ELSE data[file[d]]
            BY DEF Shown
          <5>4. CASE d = Dest(p)
            BY <5>4, <5>1, <5>2, <3>1, <3>2
          <5>5. CASE d # Dest(p)
            BY <5>5, <5>1, <5>2, <5>3
          <5> QED
            BY <5>4, <5>5
        <4>2. Shown' = [d \in Paths |-> Shown'[d]]
          BY DEF Shown
        <4>3. Shown = [d \in Paths |-> Shown[d]]
          BY DEF Shown
        <4> QED
          BY <4>1, <4>2, <4>3
      <3> QED
        BY <3>1, <3>3, <3>4, <3>5 DEF Store!Next, Store!Publish
    <2> QED
      BY <2>1, <2>2, <2>3, <2>4 DEF Next
  <1> QED
    BY <1>1, <1>2, PublicationInvariant, PTL DEF Spec, RefinesWriteOnce, Store!Spec
=============================================================================
