------------------------ MODULE NoReplacePublication ------------------------
(***************************************************************************)
(* Publication of artifacts by command-line invocations that share a       *)
(* directory: core/no_replace_publication.cpp, as the commands call it     *)
(* (one output, and for the acquisition and repack commands a receipt      *)
(* published after it).                                                    *)
(*                                                                         *)
(* Files are modelled by inodes, because publication is a hard link: the   *)
(* payload in the staging directory and the published file are ONE inode   *)
(* until the staging directory is removed, and for ever if the process     *)
(* dies between the two.  An inode is named by the artifact that was being *)
(* written when it was created.                                            *)
(***************************************************************************)
EXTENDS FiniteSets

CONSTANTS
    Invocations,    \* runs of commands, each of which happens once
    Paths,          \* destinations
    Suffixes,       \* staging suffixes, one per command and artifact
    Plan,           \* Plan[p][a]: destination and suffix of artifact a of p
    WithReceipt,    \* invocations that publish a receipt after the output
    Checked,        \* invocations whose output has a staged-file validator
    Flawed,         \* invocations whose output does not reopen as requested
    Foreign,        \* inode of a file that was there before
    NoFile,
    NoDirectory

Artifact == {"output", "receipt"}
Staging == [dest : Paths, suffix : Suffixes]
Jobs == Invocations \X Artifact

ASSUME PlanAssumption ==
    /\ Plan \in [Invocations -> [Artifact -> Staging]]
    /\ WithReceipt \subseteq Invocations
    /\ Checked \subseteq Invocations
    /\ Flawed \subseteq Invocations

ASSUME MarksAssumption ==
    /\ Foreign \notin Jobs /\ NoFile \notin Jobs /\ Foreign # NoFile
    /\ NoDirectory \notin [owner : Jobs, payload : Jobs \union {NoFile}]

Inodes == Jobs \union {Foreign}
Content == [of : Inodes, whole : BOOLEAN]
\* What an inode holds when everything meant for i has been written to it.
Complete(i) == [of |-> i, whole |-> TRUE]
Directory == [owner : Jobs, payload : Jobs \union {NoFile}]

Running == {"reserve", "open", "write", "validate", "link", "classify",
            "cleanup"}
Status == {"none", "success", "invalid_input", "staging_conflict",
           "staging_write_failed", "staging_validation_failed",
           "destination_exists", "publication_failed"}

VARIABLES
    pc,         \* where each invocation is in publish_bytes_no_replace
    at,         \* the artifact it is publishing
    status,     \* the status of its latest publication
    handle,     \* the inode its stream is open on
    directory,  \* the staging directories that exist
    data,       \* the content of every inode
    file,       \* the inode every destination is linked to
    leaked      \* staging paths whose removal the file system refused

vars == <<pc, at, status, handle, directory, data, file, leaked>>

Job(p) == <<p, at[p]>>
Slot(p) == Plan[p][at[p]]
Dest(p) == Slot(p).dest

Init ==
    /\ pc = [p \in Invocations |-> "reserve"]
    /\ at = [p \in Invocations |-> "output"]
    /\ status = [p \in Invocations |-> "none"]
    /\ handle = [p \in Invocations |-> NoFile]
    /\ directory = [s \in Staging |-> NoDirectory]
    /\ data = [i \in Inodes |-> [of |-> i, whole |-> i = Foreign]]
    /\ file \in [Paths -> {NoFile, Foreign}]
    /\ leaked = {}

-----------------------------------------------------------------------------
(***************************************************************************)
(* How a publication ends.                                                 *)
(***************************************************************************)

\* (as a bug would have it: the status of the output is not looked at)
GoesOnRegardless(p, st) == p \in WithReceipt /\ at[p] = "output"

\* Whether the command goes on to its receipt when a publication returned st.
GoesOn(p, st) == p \in WithReceipt /\ at[p] = "output" /\ st = "success"

\* publish_bytes_no_replace has returned st to the command.
Returns(p, st) ==
    /\ status' = [status EXCEPT ![p] = st]
    /\ pc' = [pc EXCEPT ![p] = IF GoesOn(p, st) THEN "reserve" ELSE "done"]
    /\ at' = [at EXCEPT ![p] = IF GoesOn(p, st) THEN "receipt" ELSE @]

\* (as a bug would have it: the return does not run the destructor)
LeavesUncleaned(p, st) == Returns(p, st)

\* The return statement is reached while the staging directory is owned: the
\* status is fixed, the directory's destructor runs next.
Leaves(p, st) ==
    /\ status' = [status EXCEPT ![p] = st]
    /\ pc' = [pc EXCEPT ![p] = "cleanup"]
    /\ UNCHANGED at

\* (as a bug would have it: the guard object is built before the call)
RefusedThenCleaned(p) == Leaves(p, "staging_conflict")

\* Where a refused reservation leads: nothing is owned yet, so nothing is
\* cleaned.
RefusedReservation(p) == Returns(p, "staging_conflict")

-----------------------------------------------------------------------------
(***************************************************************************)
(* The steps of publish_bytes_no_replace.  Every call into the file system *)
(* may also fail for a reason of its own.                                  *)
(***************************************************************************)

\* The parent of the destination is not a directory.
Invalid(p) ==
    /\ pc[p] = "reserve"
    /\ Returns(p, "invalid_input")
    /\ UNCHANGED <<handle, directory, data, file, leaked>>

MayReserve(p) == directory[Slot(p)] = NoDirectory

\* create_directory creates the staging directory.
Reserve(p) ==
    /\ pc[p] = "reserve"
    /\ MayReserve(p)
    /\ directory' = [directory EXCEPT ![Slot(p)] =
                        [owner |-> Job(p), payload |-> NoFile]]
    /\ pc' = [pc EXCEPT ![p] = "open"]
    /\ UNCHANGED <<at, status, handle, data, file, leaked>>

\* create_directory finds one, or fails.
ReserveRefused(p) ==
    /\ pc[p] = "reserve"
    /\ RefusedReservation(p)
    /\ UNCHANGED <<handle, directory, data, file, leaked>>

\* (as a bug would have it: the stream only opens a file that is there)
OpenedExisting(p) == directory[Slot(p)].payload

\* The payload is opened with trunc: an inode of that name is emptied, else
\* one is created.
Opened(p) ==
    LET found == directory[Slot(p)].payload
    IN  IF found = NoFile THEN Job(p) ELSE found

Open(p) ==
    /\ pc[p] = "open"
    /\ LET inode == Opened(p)
       IN  /\ handle' = [handle EXCEPT ![p] = inode]
           /\ data' = [data EXCEPT ![inode] = [of |-> Job(p), whole |-> FALSE]]
           /\ directory' = [directory EXCEPT ![Slot(p)].payload = inode]
    /\ pc' = [pc EXCEPT ![p] = "write"]
    /\ UNCHANGED <<at, status, file, leaked>>

OpenFails(p) ==
    /\ pc[p] = "open"
    /\ Leaves(p, "staging_write_failed")
    /\ UNCHANGED <<handle, directory, data, file, leaked>>

\* write, flush and close all succeed.
Write(p) ==
    /\ pc[p] = "write"
    /\ data' = [data EXCEPT ![handle[p]] = Complete(Job(p))]
    /\ pc' = [pc EXCEPT ![p] = "validate"]
    /\ UNCHANGED <<at, status, handle, directory, file, leaked>>

\* One of them fails and the payload is left incomplete.
WriteFails(p) ==
    /\ pc[p] = "write"
    /\ Leaves(p, "staging_write_failed")
    /\ UNCHANGED <<handle, directory, data, file, leaked>>

\* Only outputs have validators; one compares the reopened file with what was
\* asked for.
Validates(p) == p \in Checked /\ at[p] = "output"

\* (as a bug would have it: only the bytes are compared, not what they mean)
AcceptableBytes(p) == data[handle[p]] = Complete(Job(p))

Acceptable(p) ==
    Validates(p) => /\ data[handle[p]] = Complete(Job(p))
                    /\ p \notin Flawed

Validate(p) ==
    /\ pc[p] = "validate"
    /\ Acceptable(p)
    /\ pc' = [pc EXCEPT ![p] = "link"]
    /\ UNCHANGED <<at, status, handle, directory, data, file, leaked>>

\* The validator says no: it also fails when it cannot read the file.
ValidationFails(p) ==
    /\ pc[p] = "validate"
    /\ Validates(p)
    /\ Leaves(p, "staging_validation_failed")
    /\ UNCHANGED <<handle, directory, data, file, leaked>>

\* is_regular_file does not see the staged file.
Unreadable(p) ==
    /\ pc[p] = "link"
    /\ Leaves(p, "invalid_input")
    /\ UNCHANGED <<handle, directory, data, file, leaked>>

\* (as a bug would have it: rename in place of the hard link)
MayReplace(p) == TRUE

MayLink(p) == file[Dest(p)] = NoFile

\* create_hard_link: the destination appears, complete, or nothing happens.
Link(p) ==
    /\ pc[p] = "link"
    /\ MayLink(p)
    /\ file' = [file EXCEPT ![Dest(p)] = handle[p]]
    /\ Leaves(p, "success")
    /\ UNCHANGED <<handle, directory, data, leaked>>

LinkFails(p) ==
    /\ pc[p] = "link"
    /\ pc' = [pc EXCEPT ![p] = "classify"]
    /\ UNCHANGED <<at, status, handle, directory, data, file, leaked>>

\* The refusal is explained by looking at the destination afterwards; where
\* the look itself fails, nothing is known to be there.
Verdicts(p) ==
    {"publication_failed"} \union
        (IF file[Dest(p)] # NoFile THEN {"destination_exists"} ELSE {})

Classify(p) ==
    /\ pc[p] = "classify"
    /\ \E verdict \in Verdicts(p) : Leaves(p, verdict)
    /\ UNCHANGED <<handle, directory, data, file, leaked>>

\* ~OwnedStagingDirectory removes the directory and the command continues.
Cleanup(p) ==
    /\ pc[p] = "cleanup"
    /\ directory' = [directory EXCEPT ![Slot(p)] = NoDirectory]
    /\ Returns(p, status[p])
    /\ UNCHANGED <<handle, data, file, leaked>>

\* remove_all fails, perhaps after it removed the payload; the error is
\* dropped.
CleanupFails(p) ==
    /\ pc[p] = "cleanup"
    /\ directory[Slot(p)] # NoDirectory
    /\ \E remains \in {NoFile, directory[Slot(p)].payload} :
           directory' = [directory EXCEPT ![Slot(p)].payload = remains]
    /\ leaked' = leaked \union {Slot(p)}
    /\ Returns(p, status[p])
    /\ UNCHANGED <<handle, data, file>>

\* The process dies: no destructor runs, the file system keeps what it has.
Crash(p) ==
    /\ pc[p] \in Running
    /\ pc' = [pc EXCEPT ![p] = "crashed"]
    /\ UNCHANGED <<at, status, handle, directory, data, file, leaked>>

Step(p) ==
    \/ Invalid(p)
    \/ Reserve(p)
    \/ ReserveRefused(p)
    \/ Open(p)
    \/ OpenFails(p)
    \/ Write(p)
    \/ WriteFails(p)
    \/ Validate(p)
    \/ ValidationFails(p)
    \/ Unreadable(p)
    \/ Link(p)
    \/ LinkFails(p)
    \/ Classify(p)
    \/ Cleanup(p)
    \/ CleanupFails(p)
    \/ Crash(p)

Next == \E p \in Invocations : Step(p)

Spec == Init /\ [][Next]_vars

-----------------------------------------------------------------------------
(***************************************************************************)
(* Properties.                                                             *)
(***************************************************************************)

\* Type invariant; from the moment the payload is open until the link is made
\* the invocation writes an inode of its own.
TypeOK ==
    /\ pc \in [Invocations -> Running \union {"done", "crashed"}]
    /\ at \in [Invocations -> Artifact]
    /\ status \in [Invocations -> Status]
    /\ handle \in [Invocations -> Jobs \union {NoFile}]
    /\ directory \in [Staging -> Directory \union {NoDirectory}]
    /\ data \in [Inodes -> Content]
    /\ file \in [Paths -> Inodes \union {NoFile}]
    /\ leaked \subseteq Staging
    /\ \A p \in Invocations :
           pc[p] \in {"write", "validate", "link"} => handle[p] = Job(p)

\* "Validation happens before the final path becomes visible": what a reader
\* finds at a destination is complete, and an output that has a validator is
\* there only if it reopens as what was asked for, whatever other commands do
\* to the same destination and wherever any of them dies.
VisibleIsFinished ==
    \A d \in Paths : file[d] # NoFile =>
        LET content == data[file[d]]
        IN  /\ content.whole
            /\ \A p \in Checked \intersect Flawed : content.of # <<p, "output">>

\* A receipt describes the output that is published beside it: wherever the
\* receipt of an invocation is visible, so is the output of that invocation.
\* (The converse fails by design, when the process dies in between.)
ReceiptDescribesOutput ==
    \A p \in Invocations :
        file[Plan[p]["receipt"].dest] = <<p, "receipt">>
            => file[Plan[p]["output"].dest] = <<p, "output">>

\* What a publication reports is so, and stays so: after success the
\* destination holds the artifact it wrote, after destination_exists it holds
\* something.
ReportsAreTruthful ==
    \A p \in Invocations :
        /\ status[p] = "success" /\ pc[p] \in {"cleanup", "done"}
               => file[Dest(p)] = Job(p)
        /\ status[p] = "destination_exists" => file[Dest(p)] # NoFile

\* What the outside learns of an invocation is so: its report, and the receipt
\* it leaves (no_replace_publication.cpp:71-91, and the order of the two publications).
WordsAreTrue == ReportsAreTruthful /\ ReceiptDescribesOutput

\* "Owned staging is cleaned on every return path": a staging directory whose
\* owner has returned is one the file system refused to remove.
OnlyFaultsLeaveStaging ==
    \A s \in Staging \ leaked : directory[s] # NoDirectory =>
        LET p == directory[s].owner[1]
        IN  pc[p] \in Running \union {"crashed"} /\ at[p] = directory[s].owner[2]

\* "A foreign staging reservation is never removed": a staging directory
\* disappears, or loses its payload, only in a step of the living invocation
\* that created it; what a dead one left stays, and refuses that staging path
\* to every later invocation.
StagingIsTheOwners ==
    [][\A s \in Staging :
          directory[s] # NoDirectory /\ directory'[s] # directory[s] =>
              LET p == directory[s].owner[1]
              IN  pc[p] \in Running /\ pc'[p] # pc[p]]_vars

\* The published files are a write-once store, whatever is shared with staging
\* directories and whoever dies when.
Shown == [d \in Paths |-> IF file[d] = NoFile THEN NoFile ELSE data[file[d]]]
Publishable ==
    {Complete(job) :
        job \in {j \in Jobs : ~(j[1] \in Checked \intersect Flawed /\ j[2] = "output")}}

Store == INSTANCE WriteOnceStore
    WITH Finished <- Publishable, Foreign <- Complete(Foreign),
         Free <- NoFile, store <- Shown

RefinesWriteOnce == Store!Spec
=============================================================================
