------------------------- MODULE AtomicWriteProofs -------------------------
(***************************************************************************)
(* The file that the atomic writes write is a register, for any number of  *)
(* writers, readers and temporary files, and any crashes and power losses. *)
(*                                                                         *)
(* The argument.  What is at the path, in memory or on the disk, or open   *)
(* in a reader, is never what a call writes to (TmpOwned): so once a body  *)
(* is whole there it stays.  It is whole there because only the t of a     *)
(* call that wrote all of it is renamed (Progress), and it is the same     *)
(* after a power loss because that call had synced it before (Whole).      *)
(***************************************************************************)
EXTENDS AtomicWrite, TLAPS

(* No two calls have the same temporary file, and none writes to what is at *)
(* the path or open.                                                        *)
TmpOwned ==
  \A w \in Writer : tmp[w] # None =>
    /\ tmp[w] # file /\ tmp[w] # diskFile
    /\ \A r \in Reader : handle[r] # tmp[w]
    /\ \A v \in Writer : v # w => tmp[v] # tmp[w]

(* A t that holds one whole body, in memory and on the disk.                *)
WholeFile(t) == t # None => data[t] \in Body /\ diskData[t] = data[t]

Whole ==
  /\ WholeFile(file) /\ WholeFile(diskFile)
  /\ \A r \in Reader : WholeFile(handle[r])

(* How far a call has come with its temporary file.                         *)
Progress ==
  \A w \in Writer :
    /\ pc[w] \in {"written", "synced"} => data[tmp[w]] = body[w]
    /\ pc[w] = "synced" => diskData[tmp[w]] = body[w]

IInv == TypeOK /\ TmpOwned /\ Whole /\ Progress /\ TmpCleaned

-----------------------------------------------------------------------------
(* The initial state satisfies the invariant.                               *)
LEMMA InitIInv == Init => IInv
BY DEF Init, IInv, TypeOK, Content, TmpOwned, Whole, WholeFile, Progress, TmpCleaned

(* Every step keeps it.                                                     *)
LEMMA StepIInv ==
  ASSUME IInv, [Next]_vars
  PROVE  IInv'
<1>1. ASSUME NEW w \in Writer, NEW b \in Body, NEW t \in Tmp, Create(w, b, t)
      PROVE  IInv'
  <2>1. TypeOK'
    BY <1>1, ConstantsAssumption DEF IInv, TypeOK, Content, Create, Goto, TmpExtension
  <2>2. TmpOwned'
    BY <1>1, ConstantsAssumption DEF IInv, TypeOK, TmpOwned, Create, Goto, TmpExtension
  <2>3. Whole'
    BY <1>1, ConstantsAssumption DEF IInv, TypeOK, TmpOwned, Whole, WholeFile, Create, Goto, TmpExtension
  <2>4. Progress'
    BY <1>1 DEF IInv, TypeOK, TmpOwned, Progress, Create, Goto, TmpExtension
  <2>5. TmpCleaned'
    BY <1>1, ConstantsAssumption DEF IInv, TypeOK, TmpCleaned, Create, Goto, TmpExtension
  <2>6. QED
    BY <2>1, <2>2, <2>3, <2>4, <2>5 DEF IInv
<1>2. ASSUME NEW w \in Writer, WriteSome(w)
      PROVE  IInv'
  <2>1. TypeOK'
    BY <1>2, ConstantsAssumption DEF IInv, TypeOK, Content, WriteSome, Goto, disk
  <2>2. Whole'
    BY <1>2, ConstantsAssumption DEF IInv, TypeOK, TmpOwned, Whole, WholeFile, WriteSome, Goto, disk
  <2>3. Progress'
    BY <1>2 DEF IInv, TypeOK, TmpOwned, Progress, WriteSome, Goto, disk
  <2>4. TmpOwned' /\ TmpCleaned'
    BY <1>2 DEF IInv, TmpOwned, TmpCleaned, WriteSome, Goto, disk
  <2>5. QED
    BY <2>1, <2>2, <2>3, <2>4 DEF IInv
<1>3. ASSUME NEW w \in Writer, WriteRest(w)
      PROVE  IInv'
  <2>1. TypeOK'
    BY <1>3, ConstantsAssumption DEF IInv, TypeOK, Content, WriteRest, Goto, disk
  <2>2. Whole'
    BY <1>3, ConstantsAssumption DEF IInv, TypeOK, TmpOwned, Whole, WholeFile, WriteRest, Goto, disk
  <2>3. Progress'
    BY <1>3 DEF IInv, TypeOK, TmpOwned, Progress, WriteRest, Goto, disk
  <2>4. TmpOwned' /\ TmpCleaned'
    BY <1>3 DEF IInv, TmpOwned, TmpCleaned, WriteRest, Goto, disk
  <2>5. QED
    BY <2>1, <2>2, <2>3, <2>4 DEF IInv
<1>4. ASSUME NEW w \in Writer, SyncAll(w)
      PROVE  IInv'
  <2>1. TypeOK'
    BY <1>4, ConstantsAssumption DEF IInv, TypeOK, SyncAll, Goto
  <2>2. Whole'
    BY <1>4, ConstantsAssumption DEF IInv, TypeOK, TmpOwned, Whole, WholeFile, SyncAll, Goto
  <2>3. Progress'
    BY <1>4 DEF IInv, TypeOK, TmpOwned, Progress, SyncAll, Goto
  <2>4. TmpOwned' /\ TmpCleaned'
    BY <1>4 DEF IInv, TmpOwned, TmpCleaned, SyncAll, Goto
  <2>5. QED
    BY <2>1, <2>2, <2>3, <2>4 DEF IInv
<1>5. ASSUME NEW w \in Writer, Rename(w)
      PROVE  IInv'
  <2>1. TypeOK'
    BY <1>5, ConstantsAssumption DEF IInv, TypeOK, Rename, Done, Goto, disk
  <2>2. TmpOwned'
    BY <1>5, ConstantsAssumption DEF IInv, TypeOK, TmpOwned, Rename, Done, Goto, disk
  <2>3. Whole'
    BY <1>5, ConstantsAssumption DEF IInv, TypeOK, TmpOwned, Whole, WholeFile, Progress, Rename, Done, Goto, disk
  <2>4. Progress'
    BY <1>5 DEF IInv, TypeOK, TmpOwned, Progress, Rename, Done, Goto, disk
  <2>5. TmpCleaned'
    BY <1>5 DEF IInv, TypeOK, TmpCleaned, Rename, Done, Goto, disk
  <2>6. QED
    BY <2>1, <2>2, <2>3, <2>4, <2>5 DEF IInv
<1>6. ASSUME NEW w \in Writer, Fails(w)
      PROVE  IInv'
  <2>1. TypeOK'
    BY <1>6, ConstantsAssumption DEF IInv, TypeOK, Fails, Done, Goto, disk
  <2>2. TmpOwned'
    BY <1>6, ConstantsAssumption DEF IInv, TypeOK, TmpOwned, Fails, Done, Goto, disk
  <2>3. Progress'
    BY <1>6 DEF IInv, TypeOK, TmpOwned, Progress, Fails, Done, Goto, disk
  <2>4. TmpCleaned'
    BY <1>6 DEF IInv, TypeOK, TmpCleaned, Fails, Done, Goto, disk
  <2>5. Whole'
    BY <1>6 DEF IInv, Whole, WholeFile, Fails, Done, Goto, disk
  <2>6. QED
    BY <2>1, <2>2, <2>3, <2>4, <2>5 DEF IInv
<1>7. ASSUME NEW w \in Writer, RemoveTmp(w)
      PROVE  IInv'
  <2>1. TypeOK'
    BY <1>7, ConstantsAssumption DEF IInv, TypeOK, RemoveTmp, Done, Goto, disk
  <2>2. TmpOwned'
    BY <1>7, ConstantsAssumption DEF IInv, TypeOK, TmpOwned, RemoveTmp, Done, Goto, disk
  <2>3. Progress'
    BY <1>7 DEF IInv, TypeOK, TmpOwned, Progress, RemoveTmp, Done, Goto, disk
  <2>4. TmpCleaned'
    BY <1>7 DEF IInv, TypeOK, TmpCleaned, RemoveTmp, Done, Goto, disk
  <2>5. Whole'
    BY <1>7 DEF IInv, Whole, WholeFile, RemoveTmp, Done, Goto, disk
  <2>6. QED
    BY <2>1, <2>2, <2>3, <2>4, <2>5 DEF IInv
<1>8. ASSUME NEW w \in Writer, Crash(w)
      PROVE  IInv'
  <2>1. TypeOK'
    BY <1>8, ConstantsAssumption DEF IInv, TypeOK, Crash, Done, Goto, disk
  <2>2. TmpOwned'
    BY <1>8, ConstantsAssumption DEF IInv, TypeOK, TmpOwned, Crash, Done, Goto, disk
  <2>3. Progress'
    BY <1>8 DEF IInv, TypeOK, TmpOwned, Progress, Crash, Done, Goto, disk
  <2>4. TmpCleaned'
    BY <1>8 DEF IInv, TypeOK, TmpCleaned, Crash, Done, Goto, disk
  <2>5. Whole'
    BY <1>8 DEF IInv, Whole, WholeFile, Crash, Done, Goto, disk
  <2>6. QED
    BY <2>1, <2>2, <2>3, <2>4, <2>5 DEF IInv
<1>9. ASSUME NEW r \in Reader, Open(r)
      PROVE  IInv'
  <2>1. TypeOK'
    BY <1>9 DEF IInv, TypeOK, Open, disk
  <2>2. TmpOwned'
    BY <1>9, ConstantsAssumption DEF IInv, TypeOK, TmpOwned, Open, disk
  <2>3. Whole'
    BY <1>9 DEF IInv, TypeOK, TmpOwned, Whole, WholeFile, Open, disk
  <2>4. Progress' /\ TmpCleaned'
    BY <1>9 DEF IInv, Progress, TmpCleaned, Open, disk
  <2>5. QED
    BY <2>1, <2>2, <2>3, <2>4 DEF IInv
<1>10. ASSUME NEW r \in Reader, ReadToString(r)
      PROVE  IInv'
  <2>1. TypeOK'
    BY <1>10 DEF IInv, TypeOK, ReadToString, disk
  <2>2. TmpOwned'
    BY <1>10, ConstantsAssumption DEF IInv, TypeOK, TmpOwned, ReadToString, disk
  <2>3. Whole'
    BY <1>10 DEF IInv, TypeOK, TmpOwned, Whole, WholeFile, ReadToString, disk
  <2>4. Progress' /\ TmpCleaned'
    BY <1>10 DEF IInv, Progress, TmpCleaned, ReadToString, disk
  <2>5. QED
    BY <2>1, <2>2, <2>3, <2>4 DEF IInv
<1>11. ASSUME FlushNames
      PROVE  IInv'
  <2>1. TypeOK'
    BY <1>11 DEF IInv, TypeOK, FlushNames
  <2>2. TmpOwned'
    BY <1>11, ConstantsAssumption DEF IInv, TypeOK, TmpOwned, FlushNames
  <2>3. Whole'
    BY <1>11 DEF IInv, TypeOK, TmpOwned, Whole, WholeFile, FlushNames
  <2>4. Progress' /\ TmpCleaned'
    BY <1>11 DEF IInv, Progress, TmpCleaned, FlushNames
  <2>5. QED
    BY <2>1, <2>2, <2>3, <2>4 DEF IInv
<1>12. ASSUME NEW t \in Tmp, FlushData(t)
      PROVE  IInv'
  <2>1. TypeOK'
    BY <1>12 DEF IInv, TypeOK, FlushData
  <2>2. Whole'
    BY <1>12 DEF IInv, TypeOK, TmpOwned, Whole, WholeFile, FlushData
  <2>3. Progress'
    BY <1>12 DEF IInv, TypeOK, TmpOwned, Progress, FlushData
  <2>4. TmpOwned' /\ TmpCleaned'
    BY <1>12 DEF IInv, TmpOwned, TmpCleaned, FlushData
  <2>5. QED
    BY <2>1, <2>2, <2>3, <2>4 DEF IInv
<1>13. ASSUME PowerLoss
      PROVE  IInv'
  <2>1. TypeOK'
    BY <1>13 DEF IInv, TypeOK, PowerLoss, disk
  <2>2. TmpOwned'
    BY <1>13, ConstantsAssumption DEF IInv, TypeOK, TmpOwned, PowerLoss, disk
  <2>3. Whole'
    BY <1>13 DEF IInv, TypeOK, TmpOwned, Whole, WholeFile, PowerLoss, disk
  <2>4. Progress'
    BY <1>13 DEF IInv, TypeOK, TmpOwned, Progress, PowerLoss, disk
  <2>5. TmpCleaned'
    BY <1>13 DEF IInv, TypeOK, TmpCleaned, PowerLoss, disk
  <2>6. QED
    BY <2>1, <2>2, <2>3, <2>4, <2>5 DEF IInv
<1>14. CASE UNCHANGED vars
  BY <1>14 DEF IInv, TypeOK, TmpOwned, Whole, WholeFile, Progress, TmpCleaned, vars
<1>15. QED
  BY <1>1, <1>2, <1>3, <1>4, <1>5, <1>6, <1>7,
     <1>8, <1>9, <1>10, <1>11, <1>12, <1>13, <1>14 DEF Next

LEMMA Invariance == Spec => []IInv
BY InitIInv, StepIInv, PTL DEF Spec

-----------------------------------------------------------------------------
(* The types of the atomic write's state.                                   *)
THEOREM TypesHold == Spec => []TypeOK
<1>1. IInv => TypeOK
  BY DEF IInv
<1>2. QED
  BY <1>1, Invariance, PTL

(***************************************************************************)
(* However writes overlap, fail and crash: a temporary name that no call   *)
(* is at work on is in the directory only where nobody could remove it.    *)
(***************************************************************************)
THEOREM CleanUpHolds == Spec => []TmpCleaned
<1>1. IInv => TmpCleaned
  BY DEF IInv
<1>2. QED
  BY <1>1, Invariance, PTL

-----------------------------------------------------------------------------
(* What the register holds, as the file has it.                             *)
Value   == ContentOf(file, data)
Durable == ContentOf(diskFile, diskData)
Pending == [w \in Writer |-> IF pc[w] = "failed" THEN None ELSE body[w]]
Seen    == [r \in Reader |-> ContentOf(handle[r], data)]

(* A step keeps what is in the t that are at the path, on the disk or open. *)
LEMMA HeldStays ==
  ASSUME IInv, [Next]_vars, NEW t \in Tmp,
         t \in {file, diskFile} \cup {handle[r] : r \in Reader}
  PROVE  data'[t] = data[t] /\ diskData'[t] = diskData[t]
<1>1. diskData[t] = data[t] /\ t # None
  BY ConstantsAssumption DEF IInv, Whole, WholeFile
<1>2. \A w \in Writer : tmp[w] # t
  BY <1>1 DEF IInv, TmpOwned
<1>3. ASSUME NEW w \in Writer, NEW b \in Body, NEW u \in Tmp, Create(w, b, u)
      PROVE  data'[t] = data[t] /\ diskData'[t] = diskData[t]
  BY <1>3 DEF IInv, TypeOK, Create, TmpExtension
<1>4. ASSUME NEW w \in Writer, WriteSome(w) \/ WriteRest(w) \/ SyncAll(w)
      PROVE  data'[t] = data[t] /\ diskData'[t] = diskData[t]
  BY <1>2, <1>4 DEF IInv, TypeOK, WriteSome, WriteRest, SyncAll, disk
<1>5. ASSUME NEW w \in Writer,
             Rename(w) \/ Fails(w) \/ RemoveTmp(w) \/ Crash(w)
      PROVE  data'[t] = data[t] /\ diskData'[t] = diskData[t]
  BY <1>5 DEF Rename, Fails, RemoveTmp, Crash, disk
<1>6. ASSUME NEW r \in Reader, Open(r) \/ ReadToString(r)
      PROVE  data'[t] = data[t] /\ diskData'[t] = diskData[t]
  BY <1>6 DEF Open, ReadToString, disk
<1>7. ASSUME FlushNames \/ (\E u \in Tmp : FlushData(u)) \/ UNCHANGED vars
      PROVE  data'[t] = data[t] /\ diskData'[t] = diskData[t]
  BY <1>1, <1>7 DEF IInv, TypeOK, FlushNames, FlushData, vars
<1>8. ASSUME PowerLoss
      PROVE  data'[t] = data[t] /\ diskData'[t] = diskData[t]
  BY <1>1, <1>8 DEF PowerLoss, disk
<1>9. QED
  BY <1>3, <1>4, <1>5, <1>6, <1>7, <1>8 DEF Next

(* So the register changes only where a name does.                          *)
LEMMA ValuesStay ==
  ASSUME IInv, [Next]_vars
  PROVE  /\ file' = file => Value' = Value
         /\ diskFile' = diskFile => Durable' = Durable
         /\ handle' = handle => Seen' = Seen
<1>1. file' = file => Value' = Value
  BY HeldStays DEF IInv, TypeOK, Value, ContentOf
<1>2. diskFile' = diskFile => Durable' = Durable
  <2>1. diskFile # None => diskData'[diskFile] = diskData[diskFile]
    BY HeldStays DEF IInv, TypeOK
  <2>2. QED
    BY <2>1 DEF Durable, ContentOf
<1>3. handle' = handle => Seen' = Seen
  <2>1. \A r \in Reader : handle[r] # None => data'[handle[r]] = data[handle[r]]
    BY HeldStays DEF IInv, TypeOK
  <2>2. QED
    BY <2>1 DEF Seen, ContentOf
<1>4. QED
  BY <1>1, <1>2, <1>3

(* Every step of the writers, the readers and the disk is a step of the     *)
(* register, or none that a reader or a power loss could tell.              *)
LEMMA StepOfRegister ==
  ASSUME IInv, [Next]_vars
  PROVE  [Register!Next]_(Register!vars)
<1> USE DEF Value, Durable, Pending, Seen
<1>1. ASSUME NEW w \in Writer, NEW b \in Body, NEW t \in Tmp, Create(w, b, t)
      PROVE  Register!Call(w, b)
  <2>1. UNCHANGED <<Value, Durable, Seen>>
    BY <1>1, ValuesStay DEF Create
  <2>2. Pending[w] = None /\ Pending' = [Pending EXCEPT ![w] = b]
    BY <1>1 DEF IInv, TypeOK, Create, Goto
  <2>3. QED
    BY <2>1, <2>2 DEF Register!Call
<1>2. ASSUME NEW w \in Writer, WriteSome(w) \/ WriteRest(w) \/ SyncAll(w) \/ RemoveTmp(w)
      PROVE  UNCHANGED Register!vars
  <2>1. UNCHANGED <<Value, Durable, Seen>>
    BY <1>2, ValuesStay DEF WriteSome, WriteRest, SyncAll, RemoveTmp, disk
  <2>2. UNCHANGED Pending
    BY <1>2 DEF IInv, TypeOK, WriteSome, WriteRest, SyncAll, RemoveTmp, Done, Goto
  <2>3. QED
    BY <2>1, <2>2 DEF Register!vars
<1>3. ASSUME NEW w \in Writer, Rename(w)
      PROVE  Register!Commit(w)
  <2>1. UNCHANGED <<Durable, Seen>>
    BY <1>3, ValuesStay DEF Rename, disk
  <2>2. Value' = Pending[w] /\ Pending[w] # None
    BY <1>3 DEF IInv, TypeOK, Progress, Rename, ContentOf
  <2>3. Pending' = [Pending EXCEPT ![w] = None]
    BY <1>3 DEF IInv, TypeOK, Rename, Done, Goto
  <2>4. QED
    BY <2>1, <2>2, <2>3 DEF Register!Commit
<1>4. ASSUME NEW w \in Writer, Fails(w) \/ Crash(w)
      PROVE  Register!Fail(w)
  <2>1. UNCHANGED <<Value, Durable, Seen>>
    BY <1>4, ValuesStay DEF Fails, Crash, disk
  <2>2. Pending' = [Pending EXCEPT ![w] = None]
    BY <1>4 DEF IInv, TypeOK, Fails, Crash, Done, Goto
  <2>3. QED
    BY <2>1, <2>2 DEF Register!Fail
<1>5. ASSUME NEW r \in Reader, Open(r)
      PROVE  Register!Read(r)
  <2>1. UNCHANGED <<Value, Durable, Pending>>
    BY <1>5, ValuesStay DEF Open, disk
  <2>2. Seen[r] = None /\ Seen' = [Seen EXCEPT ![r] = Value]
    BY <1>5 DEF IInv, TypeOK, Open, ContentOf
  <2>3. QED
    BY <2>1, <2>2 DEF Register!Read
<1>6. ASSUME NEW r \in Reader, ReadToString(r)
      PROVE  Register!Return(r)
  <2>1. UNCHANGED <<Value, Durable, Pending>>
    BY <1>6, ValuesStay DEF ReadToString, disk
  <2>2. Seen' = [Seen EXCEPT ![r] = None]
    BY <1>6 DEF IInv, TypeOK, ReadToString, ContentOf
  <2>3. QED
    BY <2>1, <2>2 DEF Register!Return
<1>7. ASSUME FlushNames
      PROVE  Register!Flush
  <2>1. UNCHANGED <<Value, Pending, Seen>>
    BY <1>7, ValuesStay DEF FlushNames
  <2>2. Durable' = Value
    BY <1>7 DEF IInv, Whole, WholeFile, FlushNames, ContentOf
  <2>3. QED
    BY <2>1, <2>2 DEF Register!Flush
<1>8. ASSUME NEW t \in Tmp, FlushData(t)
      PROVE  UNCHANGED Register!vars
  <2>1. UNCHANGED <<Value, Durable, Pending, Seen>>
    BY <1>8, ValuesStay DEF FlushData
  <2>2. QED
    BY <2>1 DEF Register!vars
<1>9. ASSUME PowerLoss
      PROVE  Register!PowerLoss
  <2>1. Value' = Durable /\ UNCHANGED Durable
    BY <1>9, ValuesStay DEF IInv, Whole, WholeFile, PowerLoss, disk, ContentOf
  <2>2. Pending' = [w \in Writer |-> None] /\ Seen' = [r \in Reader |-> None]
    BY <1>9 DEF PowerLoss, ContentOf
  <2>3. QED
    BY <2>1, <2>2 DEF Register!PowerLoss
<1>10. CASE UNCHANGED vars
  BY <1>10 DEF vars, Register!vars, ContentOf
<1>11. QED
  BY <1>1, <1>2, <1>3, <1>4, <1>5, <1>6, <1>7, <1>8, <1>9, <1>10 DEF Next, Register!Next

(***************************************************************************)
(* For any writers and readers, `jm new` among them: the file is at every  *)
(* moment one whole value, each write takes effect at once or not at all,  *)
(* and a power loss brings back a value the file held before.              *)
(***************************************************************************)
THEOREM FileIsRegister == Spec => IsRegister
<1>1. Init => Register!Init
  BY DEF Init, ContentOf, Register!Init
<1>2. QED
  BY <1>1, StepOfRegister, Invariance, PTL DEF Spec, IsRegister, Register!Spec

=============================================================================
