---------------------------- MODULE AtomicWrite ----------------------------
(***************************************************************************)
(* The atomic writes of ONE file: persistence::atomic_write, the async     *)
(* atomic_write_batch_bash of the runner, which takes the same steps, and  *)
(* atomic_write_str of `jm new`, against readers of the file, crashes and  *)
(* power losses.                                                           *)
(*                                                                         *)
(* A temporary file and what is in it are named by the call that makes it, *)
(* t; after the rename, the file is the t that was renamed over it.  The   *)
(* kernel keeps what is written in memory: the data of a t and the names   *)
(* in the directory reach the disk on their own time, each in its order,   *)
(* and fsync makes the data of one t reach it now.                         *)
(***************************************************************************)
CONSTANTS
  Writer,      \* the calls that write the file
  NewWriter,   \* those that go through atomic_write_str
  Reader,      \* the processes that read it, SLURM's sbatch among them
  Body,        \* what is written
  Tmp,         \* the temporary files there can be (bounds those left behind)
  None

ASSUME ConstantsAssumption ==
  /\ NewWriter \subseteq Writer
  /\ None \notin Body \cup Tmp
  /\ {"empty", "partial"} \cap (Body \cup {None}) = {}

VARIABLES
  file,       \* the t renamed over the path last
  tmps,       \* the t whose temporary name is in the directory
  data,       \* what is in each t
  diskFile, diskTmps, diskData,   \* the same, on the disk
  pc,         \* where each writer is
  tmp,        \* the t of its call
  body,       \* what it writes
  handle,     \* the t each reader has open
  excused     \* history: the t nobody could clean up

disk == <<diskFile, diskTmps, diskData>>
vars == <<file, tmps, data, diskFile, diskTmps, diskData, pc, tmp, body, handle, excused>>

Content == Body \cup {"empty", "partial"}

Init ==
  /\ file = None
  /\ tmps = {}
  /\ data = [t \in Tmp |-> "empty"]
  /\ diskFile = None
  /\ diskTmps = {}
  /\ diskData = [t \in Tmp |-> "empty"]
  /\ pc = [w \in Writer |-> "idle"]
  /\ tmp = [w \in Writer |-> None]
  /\ body = [w \in Writer |-> None]
  /\ handle = [r \in Reader |-> None]
  /\ excused = {}

Goto(w, l) == pc' = [pc EXCEPT ![w] = l]

\* The call returns.
Done(w) ==
  /\ Goto(w, "idle")
  /\ tmp' = [tmp EXCEPT ![w] = None]
  /\ body' = [body EXCEPT ![w] = None]

\* tmp_extension: a name no other call has, and no file that is still there.
TmpExtension(t) ==
  t \notin {file, diskFile} \cup tmps \cup diskTmps
             \cup {tmp[w] : w \in Writer} \cup {handle[r] : r \in Reader}

\* File::create.
Create(w, b, t) ==
  /\ pc[w] = "idle"
  /\ TmpExtension(t)
  /\ Goto(w, "created")
  /\ tmp' = [tmp EXCEPT ![w] = t]
  /\ body' = [body EXCEPT ![w] = b]
  /\ tmps' = tmps \cup {t}
  /\ data' = [data EXCEPT ![t] = "empty"]
  /\ diskData' = [diskData EXCEPT ![t] = "empty"]
  /\ excused' = excused \ {t}
  /\ UNCHANGED <<file, diskFile, diskTmps, handle>>

\* write_all, in more than one write.
WriteSome(w) ==
  /\ pc[w] = "created"
  /\ Goto(w, "writing")
  /\ data' = [data EXCEPT ![tmp[w]] = "partial"]
  /\ UNCHANGED <<file, tmps, disk, tmp, body, handle, excused>>

WriteRest(w) ==
  /\ pc[w] = "writing"
  /\ Goto(w, "written")
  /\ data' = [data EXCEPT ![tmp[w]] = body[w]]
  /\ UNCHANGED <<file, tmps, disk, tmp, body, handle, excused>>

\* Mutant: no fsync.
SyncAllLater(w) ==
  /\ pc[w] = "written"
  /\ Goto(w, "synced")
  /\ UNCHANGED <<file, tmps, data, disk, tmp, body, handle, excused>>

\* sync_all.
SyncAll(w) ==
  /\ pc[w] = "written"
  /\ Goto(w, "synced")
  /\ diskData' = [diskData EXCEPT ![tmp[w]] = data[tmp[w]]]
  /\ UNCHANGED <<file, tmps, data, diskFile, diskTmps, tmp, body, handle, excused>>

\* rename over the path, and Ok.  The chmod of a batch.bash before it may fail
\* without harm and is left out.
Rename(w) ==
  /\ pc[w] = "synced"
  /\ file' = tmp[w]
  /\ tmps' = tmps \ {tmp[w]}
  /\ Done(w)
  /\ UNCHANGED <<data, disk, handle, excused>>

\* A write, the fsync or the rename fails; atomic_write_str cleans up only
\* after the rename.
Fails(w) ==
  /\ pc[w] \notin {"idle", "failed"}
  /\ IF w \in NewWriter /\ pc[w] # "synced"
     THEN Done(w) /\ excused' = excused \cup {tmp[w]}
     ELSE Goto(w, "failed") /\ UNCHANGED <<tmp, body, excused>>
  /\ UNCHANGED <<file, tmps, data, disk, handle>>

\* Mutant: the error is returned and the temporary file stays.
RemoveTmpForgotten(w) ==
  /\ pc[w] = "failed"
  /\ Done(w)
  /\ UNCHANGED <<file, tmps, data, disk, handle, excused>>

\* `let _ = remove_file(&tmp)`, which may fail too, and the error is returned.
RemoveTmp(w) ==
  /\ pc[w] = "failed"
  /\ \/ tmps' = tmps \ {tmp[w]} /\ UNCHANGED excused
     \/ excused' = excused \cup {tmp[w]} /\ UNCHANGED tmps
  /\ Done(w)
  /\ UNCHANGED <<file, data, disk, handle>>

Crash(w) ==
  /\ pc[w] # "idle"
  /\ Done(w)
  /\ excused' = excused \cup {tmp[w]}
  /\ UNCHANGED <<file, tmps, data, disk, handle>>

\* read_toml_string (or sbatch) opens the file, and reads what it opened.
Open(r) ==
  /\ handle[r] = None
  /\ handle' = [handle EXCEPT ![r] = file]
  /\ UNCHANGED <<file, tmps, data, disk, pc, tmp, body, excused>>

ReadToString(r) ==
  /\ handle[r] # None
  /\ handle' = [handle EXCEPT ![r] = None]
  /\ UNCHANGED <<file, tmps, data, disk, pc, tmp, body, excused>>

\* The kernel writes the names, or the data of one t, to the disk.
FlushNames ==
  /\ diskFile' = file
  /\ diskTmps' = tmps
  /\ UNCHANGED <<file, tmps, data, diskData, pc, tmp, body, handle, excused>>

FlushData(t) ==
  /\ diskData' = [diskData EXCEPT ![t] = data[t]]
  /\ UNCHANGED <<file, tmps, data, diskFile, diskTmps, pc, tmp, body, handle, excused>>

PowerLoss ==
  /\ file' = diskFile
  /\ tmps' = diskTmps
  /\ data' = diskData
  /\ pc' = [w \in Writer |-> "idle"]
  /\ tmp' = [w \in Writer |-> None]
  /\ body' = [w \in Writer |-> None]
  /\ handle' = [r \in Reader |-> None]
  /\ excused' = diskTmps
  /\ UNCHANGED disk

Next ==
  \/ \E w \in Writer :
       \/ \E b \in Body, t \in Tmp : Create(w, b, t)
       \/ WriteSome(w) \/ WriteRest(w) \/ SyncAll(w) \/ Rename(w)
       \/ Fails(w) \/ RemoveTmp(w) \/ Crash(w)
  \/ \E r \in Reader : Open(r) \/ ReadToString(r)
  \/ FlushNames \/ (\E t \in Tmp : FlushData(t)) \/ PowerLoss

Spec == Init /\ [][Next]_vars

-----------------------------------------------------------------------------
\* Type invariant of the atomic write.
TypeOK ==
  /\ file \in Tmp \cup {None} /\ diskFile \in Tmp \cup {None}
  /\ tmps \subseteq Tmp /\ diskTmps \subseteq Tmp /\ excused \subseteq Tmp
  /\ data \in [Tmp -> Content] /\ diskData \in [Tmp -> Content]
  /\ pc \in [Writer -> {"idle", "created", "writing", "written", "synced", "failed"}]
  /\ tmp \in [Writer -> Tmp \cup {None}] /\ body \in [Writer -> Body \cup {None}]
  /\ \A w \in Writer : /\ pc[w] = "idle" <=> tmp[w] = None
                       /\ pc[w] = "idle" <=> body[w] = None
  /\ handle \in [Reader -> Tmp \cup {None}]

(***************************************************************************)
(* A write that fails cleans its temporary file up (persistence/mod.rs:82, *)
(* 119-130): one is left behind only by a crash, a power loss, a           *)
(* remove_file that failed, and by atomic_write_str when it fails before   *)
(* the rename (jm.rs:587-602), whose caller removes the directory.         *)
(***************************************************************************)
TmpCleaned == tmps \subseteq excused \cup {tmp[w] : w \in Writer}

(***************************************************************************)
(* The file is a register: writers that overlap, fail or crash and power   *)
(* losses never show a reader a file that is empty, half written or mixed  *)
(* (persistence/mod.rs:80-88, flow.rs:49-54).                              *)
(***************************************************************************)
ContentOf(t, d) == IF t = None THEN None ELSE d[t]

Register == INSTANCE FileRegister WITH
  value   <- ContentOf(file, data),
  durable <- ContentOf(diskFile, diskData),
  pending <- [w \in Writer |-> IF pc[w] = "failed" THEN None ELSE body[w]],
  seen    <- [r \in Reader |-> ContentOf(handle[r], data)]

IsRegister == Register!Spec
=============================================================================
