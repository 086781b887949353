---------------------- MODULE ValkeyIdempotencyProofs ----------------------
(***************************************************************************)
(* Proofs about ValkeyIdempotency, for every set of clients and requests   *)
(* and for every set of faults.                                            *)
(***************************************************************************)
EXTENDS ValkeyIdempotency, TLAPS

-----------------------------------------------------------------------------
(* The inductive invariant. *)

\* While the store keeps its records, the record is the owner's.
OwnersRecord ==
  "loss" \notin faults =>
    \A c \in Clients : stage[c] \in Owning => record # None /\ record.hash = hash[c]

\* A request has the number of a run of its own before it says so.
MineIsOwn ==
  \A c \in Clients : stage[c] \in {"marking", "ok", "replayed"} =>
    mine[c] \in 1..Len(runs) /\ runs[mine[c]] = hash[c]

\* A completed record has a run of its request.
RecordIsOwn ==
  record # None => (record.done => /\ record.run \in 1..Len(runs)
                                   /\ runs[record.run] = record.hash)

\* Once the action was carried out the record stays, and nobody acts or releases.
RunIsRecorded ==
  faults \cap {"effect", "mark", "loss"} = {} =>
    \/ Len(runs) = 0
    \/ /\ Len(runs) = 1
       /\ record # None
       /\ \A c \in Clients : stage[c] \notin {"acting", "releasing"}

\* A record in progress has an owner that will complete or release it.
InProgressIsOwned ==
  (faults \cap {"create", "release", "death"} = {} /\ record # None) =>
    (record.done \/ \E c \in Clients : stage[c] \in Owning /\ hash[c] = record.hash)

\* A request that is under way has a hash.
Hashed == \A c \in Clients : stage[c] # "idle" => hash[c] \in Hashes

IInv ==
  /\ TypeOK
  /\ Hashed
  /\ OneOwner
  /\ OwnersRecord
  /\ MineIsOwn
  /\ RecordIsOwn
  /\ RunIsRecorded
  /\ InProgressIsOwned

LEMMA InitHolds == Init => IInv
BY ValkeyAssumption DEF Init, IInv, TypeOK, Hashed, OneOwner, OwnersRecord, MineIsOwn,
  RecordIsOwn, RunIsRecorded, InProgressIsOwned, Stages, Owning, Verdicts, Records

\* What a step of one client does to the places.
LEMMA GoesOn ==
  ASSUME stage \in [Clients -> Stages], NEW c \in Clients, NEW from, NEW to \in Stages,
         Goes(c, from, to)
  PROVE  /\ stage' \in [Clients -> Stages]
         /\ stage[c] = from /\ stage'[c] = to
         /\ \A d \in Clients \ {c} : stage'[d] = stage[d]
BY DEF Goes

\* The stages by name.
LEMMA StageNames ==
  /\ {"idle", "creating", "polling", "acting", "marking", "releasing",
      "ok", "replayed", "mismatch", "busy", "error"} \subseteq Stages
  /\ "idle" \notin Owning \cup Verdicts
BY DEF Stages, Owning, Verdicts

\* What a record says.
LEMMA RecordFields ==
  ASSUME NEW r \in Records
  PROVE  r.hash \in Hashes /\ r.run \in 0..MaxRuns
<1>1. CASE r \in [done : {FALSE}, hash : Hashes, run : {0}]
  BY <1>1, ValkeyAssumption
<1>2. CASE r \in [done : {TRUE}, hash : Hashes, run : 1..MaxRuns]
  BY <1>2
<1> QED
  BY <1>1, <1>2 DEF Records

\* The records that are written.
LEMMA RecordsWritten ==
  ASSUME TypeOK, NEW c \in Clients, hash[c] \in Hashes
  PROVE  /\ InProgress(hash[c]) \in Records
         /\ mine[c] \in 1..MaxRuns => Completed(hash[c], mine[c]) \in Records
BY DEF TypeOK, InProgress, Completed, Records

\* Carrying out the action adds one run, of the request's hash.
LEMMA OneMoreRun ==
  ASSUME TypeOK, NEW c \in Clients, hash[c] \in Hashes, CarryOut(c)
  PROVE  /\ runs' \in Seq(Hashes) /\ Len(runs') = Len(runs) + 1 /\ Len(runs') <= MaxRuns
         /\ Len(runs) \in Nat
         /\ \A i \in 1..Len(runs) : runs'[i] = runs[i]
         /\ runs'[Len(runs) + 1] = hash[c]
BY ValkeyAssumption DEF TypeOK, CarryOut

\* The type of every variable is kept.
LEMMA StepType ==
  ASSUME TypeOK, Hashed, MineIsOwn, [Next]_vars
  PROVE  TypeOK' /\ Hashed'
<1> USE ValkeyAssumption DEF TypeOK, Hashed, Suffers
<1>1. ASSUME NEW c \in Clients, NEW h \in Hashes, Submit(c, h) PROVE TypeOK' /\ Hashed'
  BY <1>1, StageNames, GoesOn DEF Submit
<1>2. ASSUME NEW c \in Clients, Create(c) \/ CreateFails(c) PROVE TypeOK' /\ Hashed'
  <2>1. hash[c] \in Hashes
    BY <1>2, StageNames DEF Create, CreateFails, Goes
  <2>2. record' \in Records \cup {None}
    BY <1>2, <2>1, RecordsWritten DEF Create, CreateFails
  <2>3. stage' \in [Clients -> Stages] /\ Hashed'
    BY <1>2, <2>1, StageNames, GoesOn DEF Create, CreateFails
  <2> QED
    BY <1>2, <2>2, <2>3 DEF Create, CreateFails
<1>3. ASSUME NEW c \in Clients, Polls(c) \/ GiveUp(c) PROVE TypeOK' /\ Hashed'
  <2>1. stage[c] = "polling" /\ hash[c] \in Hashes
    BY <1>3, StageNames DEF Polls, Read, ReadFails, GiveUp, Goes
  <2>2. stage' \in [Clients -> Stages] /\ Hashed'
    BY <1>3, <2>1, StageNames, GoesOn DEF Polls, Read, ReadFails, GiveUp
  <2>3. mine' \in [Clients -> 0..MaxRuns]
    <3>1. record # None => record.run \in 0..MaxRuns
      BY RecordFields
    <3> QED
      BY <1>3, <3>1 DEF Polls, Read, ReadFails, GiveUp
  <2> QED
    BY <1>3, <2>2, <2>3 DEF Polls, Read, ReadFails, GiveUp
<1>4. ASSUME NEW c \in Clients, Act(c) \/ ActFails(c) PROVE TypeOK' /\ Hashed'
  <2>1. stage[c] = "acting" /\ hash[c] \in Hashes
    BY <1>4, StageNames DEF Act, ActFails, Goes
  <2>2. stage' \in [Clients -> Stages] /\ Hashed'
    BY <1>4, <2>1, StageNames, GoesOn DEF Act, ActFails
  <2>3. runs' \in Seq(Hashes) /\ Len(runs') <= MaxRuns /\ mine' \in [Clients -> 0..MaxRuns]
    BY <1>4, <2>1, OneMoreRun DEF Act, ActFails
  <2> QED
    BY <1>4, <2>2, <2>3 DEF Act, ActFails
<1>5. ASSUME NEW c \in Clients, Mark(c) \/ MarkFails(c) PROVE TypeOK' /\ Hashed'
  <2>1. stage[c] = "marking" /\ hash[c] \in Hashes /\ mine[c] \in 1..MaxRuns
    BY <1>5, StageNames DEF Mark, MarkFails, Goes, MineIsOwn
  <2>2. stage' \in [Clients -> Stages] /\ Hashed'
    BY <1>5, <2>1, StageNames, GoesOn DEF Mark, MarkFails
  <2>3. record' \in Records \cup {None}
    BY <1>5, <2>1, RecordsWritten DEF Mark, MarkFails, Marked
  <2> QED
    BY <1>5, <2>2, <2>3 DEF Mark, MarkFails
<1>6. ASSUME NEW c \in Clients, Release(c) \/ ReleaseFails(c) PROVE TypeOK' /\ Hashed'
  <2>1. stage[c] = "releasing" /\ hash[c] \in Hashes
    BY <1>6, StageNames DEF Release, ReleaseFails, Goes
  <2>2. stage' \in [Clients -> Stages] /\ Hashed'
    BY <1>6, <2>1, StageNames, GoesOn DEF Release, ReleaseFails
  <2> QED
    BY <1>6, <2>2 DEF Release, ReleaseFails, Released
<1>7. ASSUME NEW c \in Clients, Die(c) \/ Leave(c) PROVE TypeOK' /\ Hashed'
  <2>1. stage' \in [Clients -> Stages] /\ Hashed'
    BY <1>7, StageNames DEF Die, Leave
  <2>2. mine' \in [Clients -> 0..MaxRuns]
    BY <1>7 DEF Die, Leave
  <2>3. hash' \in [Clients -> Hashes \cup {None}]
    BY <1>7 DEF Die, Leave
  <2>4. UNCHANGED <<record, runs>> /\ faults' \subseteq Losses
    BY <1>7 DEF Die, Leave
  <2>5. TypeOK'
    BY <2>1, <2>2, <2>3, <2>4
  <2> QED
    BY <2>1, <2>5
<1>8. CASE Lose
  BY <1>8 DEF Lose
<1>9. CASE UNCHANGED vars
  BY <1>9 DEF vars
<1> QED
  BY <1>1, <1>2, <1>3, <1>4, <1>5, <1>6, <1>7, <1>8, <1>9 DEF Next, Proceeds

-----------------------------------------------------------------------------
(* What each step keeps. *)

\* While the store keeps its records, the record of the owner stays the owner's, and
\* nobody becomes an owner beside it.
LEMMA StepOwner ==
  ASSUME IInv, [Next]_vars
  PROVE  OneOwner' /\ OwnersRecord'
<1> USE DEF IInv, OneOwner, OwnersRecord, TypeOK, Owning, Verdicts, Goes, Suffers
<1> SUFFICES ASSUME "loss" \notin faults' PROVE OneOwner' /\ OwnersRecord'
  OBVIOUS
<1>1. ASSUME NEW c \in Clients, NEW h \in Hashes, Submit(c, h)
      PROVE  OneOwner' /\ OwnersRecord'
  BY <1>1 DEF Submit
<1>2. ASSUME NEW c \in Clients, Create(c) PROVE OneOwner' /\ OwnersRecord'
  <2>1. CASE record = None
    <3>1. \A d \in Clients : stage[d] \notin Owning
      BY <1>2, <2>1 DEF Create
    <3>2. record' # None /\ record'.hash = hash[c]
      <4>1. InProgress(hash[c]) \in Records
        BY <1>2, RecordsWritten, StageNames DEF Create, Hashed
      <4> QED
        BY <1>2, <2>1, <4>1, ValkeyNullAssumption DEF Create, Creates, InProgress
    <3> QED
      BY <1>2, <2>1, <3>1, <3>2 DEF Create, Creates
  <2>2. CASE record # None
    BY <1>2, <2>2 DEF Create, Creates
  <2> QED
    BY <2>1, <2>2
<1>3. ASSUME NEW c \in Clients, CreateFails(c) PROVE OneOwner' /\ OwnersRecord'
  BY <1>3 DEF CreateFails, Creates
<1>4. ASSUME NEW c \in Clients, Polls(c) \/ GiveUp(c) PROVE OneOwner' /\ OwnersRecord'
  BY <1>4 DEF Polls, Read, ReadFails, GiveUp
<1>5. ASSUME NEW c \in Clients, Act(c) \/ ActFails(c) PROVE OneOwner' /\ OwnersRecord'
  BY <1>5 DEF Act, ActFails
<1>6. ASSUME NEW c \in Clients, Mark(c) \/ MarkFails(c) PROVE OneOwner' /\ OwnersRecord'
  <2>1. /\ stage[c] \in Owning /\ record # None /\ record.hash = hash[c]
        /\ \A d \in Clients : stage[d] \in Owning => d = c
    BY <1>6 DEF Mark, MarkFails
  <2>2. Marked(c) # None /\ Marked(c).hash = hash[c]
    <3>1. Completed(hash[c], mine[c]) \in Records
      BY <1>6, RecordsWritten, StageNames DEF Mark, MarkFails, Hashed, MineIsOwn
    <3> QED
      BY <2>1, <3>1, ValkeyNullAssumption DEF Marked, Completed
  <2> QED
    BY <1>6, <2>1, <2>2 DEF Mark, MarkFails
<1>7. ASSUME NEW c \in Clients, Release(c) \/ ReleaseFails(c)
      PROVE  OneOwner' /\ OwnersRecord'
  BY <1>7 DEF Release, ReleaseFails
<1>8. ASSUME NEW c \in Clients, Die(c) \/ Leave(c) PROVE OneOwner' /\ OwnersRecord'
  BY <1>8 DEF Die, Leave
<1>9. CASE Lose
  BY <1>9 DEF Lose
<1>10. CASE UNCHANGED vars
  BY <1>10 DEF vars
<1> QED
  BY <1>1, <1>2, <1>3, <1>4, <1>5, <1>6, <1>7, <1>8, <1>9, <1>10 DEF Next, Proceeds

\* What runs there were stay, and the records and requests that name one still do.
LEMMA StepOwn ==
  ASSUME IInv, [Next]_vars, TypeOK'
  PROVE  MineIsOwn' /\ RecordIsOwn'
<1> USE DEF IInv, MineIsOwn, RecordIsOwn, TypeOK, Goes, Suffers
<1>1. ASSUME NEW c \in Clients, NEW h \in Hashes, Submit(c, h)
      PROVE  MineIsOwn' /\ RecordIsOwn'
  BY <1>1 DEF Submit
<1>2. ASSUME NEW c \in Clients, Create(c) \/ CreateFails(c)
      PROVE  MineIsOwn' /\ RecordIsOwn'
  BY <1>2 DEF Create, CreateFails, InProgress
<1>3. ASSUME NEW c \in Clients, Polls(c) \/ GiveUp(c) PROVE MineIsOwn' /\ RecordIsOwn'
  BY <1>3 DEF Polls, Read, ReadFails, GiveUp, Matches
<1>4. ASSUME NEW c \in Clients, Act(c) \/ ActFails(c) PROVE MineIsOwn' /\ RecordIsOwn'
  <2>0. hash[c] \in Hashes
    BY <1>4, StageNames DEF Act, ActFails, Hashed
  <2>1. /\ Len(runs) \in Nat
        /\ Len(runs') \in Len(runs)..(Len(runs) + 1)
        /\ \A i \in 1..Len(runs) : runs'[i] = runs[i]
    BY <1>4, <2>0, OneMoreRun DEF Act, ActFails
  <2>2. RecordIsOwn'
    BY <1>4, <2>1 DEF Act, ActFails
  <2>3. Act(c) => mine'[c] \in 1..Len(runs') /\ runs'[mine'[c]] = hash'[c]
    BY <2>0, OneMoreRun DEF Act
  <2>4. \A d \in Clients \ {c} : UNCHANGED <<stage[d], mine[d], hash[d]>>
    BY <1>4 DEF Act, ActFails
  <2>5. ActFails(c) => stage'[c] = "releasing"
    BY DEF ActFails
  <2> QED
    BY <1>4, <2>1, <2>2, <2>3, <2>4, <2>5
<1>5. ASSUME NEW c \in Clients, Mark(c) \/ MarkFails(c) PROVE MineIsOwn' /\ RecordIsOwn'
  BY <1>5 DEF Mark, MarkFails, Marked, Completed
<1>6. ASSUME NEW c \in Clients, Release(c) \/ ReleaseFails(c)
      PROVE  MineIsOwn' /\ RecordIsOwn'
  BY <1>6 DEF Release, ReleaseFails, Released
<1>7. ASSUME NEW c \in Clients, Die(c) \/ Leave(c) PROVE MineIsOwn' /\ RecordIsOwn'
  BY <1>7 DEF Die, Leave
<1>8. CASE Lose
  BY <1>8 DEF Lose
<1>9. CASE UNCHANGED vars
  BY <1>9 DEF vars
<1> QED
  BY <1>1, <1>2, <1>3, <1>4, <1>5, <1>6, <1>7, <1>8, <1>9 DEF Next, Proceeds

\* As long as its success can be recorded and records stay, the action is carried out
\* once: by an owner that found no run, and after it nobody becomes an owner.
LEMMA StepRun ==
  ASSUME IInv, [Next]_vars
  PROVE  RunIsRecorded'
<1> USE DEF IInv, RunIsRecorded, TypeOK, Goes, Suffers
<1> SUFFICES ASSUME faults' \cap {"effect", "mark", "loss"} = {} PROVE RunIsRecorded'
  OBVIOUS
<1>0. faults \subseteq faults' => faults \cap {"effect", "mark", "loss"} = {}
  OBVIOUS
<1>1. ASSUME NEW c \in Clients, NEW h \in Hashes, Submit(c, h) PROVE RunIsRecorded'
  BY <1>0, <1>1 DEF Submit
<1>2. ASSUME NEW c \in Clients, Create(c) \/ CreateFails(c) PROVE RunIsRecorded'
  BY <1>0, <1>2 DEF Create, CreateFails, Creates
<1>3. ASSUME NEW c \in Clients, Polls(c) \/ GiveUp(c) PROVE RunIsRecorded'
  BY <1>0, <1>3 DEF Polls, Read, ReadFails, GiveUp
<1>4. ASSUME NEW c \in Clients, Act(c) PROVE RunIsRecorded'
  <2>1. Len(runs) = 0 /\ "loss" \notin faults
    BY <1>0, <1>4 DEF Act
  <2>2. record # None /\ \A d \in Clients : stage[d] \in Owning => d = c
    BY <1>4, <2>1 DEF Act, OneOwner, OwnersRecord, Owning
  <2>3. Len(runs') = 1
    BY <1>4, <2>1, OneMoreRun, StageNames DEF Act, Hashed
  <2> QED
    BY <1>4, <2>2, <2>3 DEF Act, Owning
<1>5. ASSUME NEW c \in Clients, ActFails(c) PROVE RunIsRecorded'
  BY <1>0, <1>5 DEF ActFails
<1>6. ASSUME NEW c \in Clients, Mark(c) PROVE RunIsRecorded'
  <2>1. Completed(hash[c], mine[c]) # None
    BY <1>6, RecordsWritten, StageNames, ValkeyNullAssumption
       DEF Mark, Hashed, MineIsOwn
  <2> QED
    BY <1>0, <1>6, <2>1 DEF Mark, Marked
<1>7. ASSUME NEW c \in Clients, MarkFails(c) PROVE RunIsRecorded'
  BY <1>7 DEF MarkFails
<1>8. ASSUME NEW c \in Clients, Release(c) \/ ReleaseFails(c) PROVE RunIsRecorded'
  BY <1>0, <1>8 DEF Release, ReleaseFails
<1>9. ASSUME NEW c \in Clients, Die(c) \/ Leave(c) PROVE RunIsRecorded'
  BY <1>0, <1>9 DEF Die, Leave
<1>10. CASE Lose
  BY <1>10 DEF Lose
<1>11. CASE UNCHANGED vars
  BY <1>11 DEF vars
<1> QED
  BY <1>1, <1>2, <1>3, <1>4, <1>5, <1>6, <1>7, <1>8, <1>9, <1>10, <1>11
     DEF Next, Proceeds

\* A record in progress stays until its owner completes or deletes it.
LEMMA StepInProgress ==
  ASSUME IInv, [Next]_vars
  PROVE  InProgressIsOwned'
<1> USE DEF IInv, InProgressIsOwned, TypeOK, Owning, Verdicts, Goes, Suffers
<1> SUFFICES ASSUME faults' \cap {"create", "release", "death"} = {}, record' # None,
                    ~ record'.done
             PROVE  \E d \in Clients : stage'[d] \in Owning /\ hash'[d] = record'.hash
  OBVIOUS
<1>0. faults \subseteq faults' => faults \cap {"create", "release", "death"} = {}
  OBVIOUS
<1> DEFINE Owned == \E d \in Clients : stage'[d] \in Owning /\ hash'[d] = record'.hash
<1> HIDE DEF Owned
<1>1. ASSUME NEW c \in Clients, NEW h \in Hashes, Submit(c, h) PROVE Owned
  BY <1>0, <1>1 DEF Submit, Owned
<1>2. ASSUME NEW c \in Clients, Create(c) PROVE Owned
  <2>1. CASE record = None
    BY <1>2, <2>1 DEF Create, Creates, InProgress, Owned
  <2>2. CASE record # None
    BY <1>0, <1>2, <2>2 DEF Create, Creates, Owned
  <2> QED
    BY <2>1, <2>2
<1>3. ASSUME NEW c \in Clients, CreateFails(c) PROVE Owned
  BY <1>3 DEF CreateFails
<1>4. ASSUME NEW c \in Clients, Polls(c) \/ GiveUp(c) PROVE Owned
  BY <1>0, <1>4 DEF Polls, Read, ReadFails, GiveUp, Owned
<1>5. ASSUME NEW c \in Clients, Act(c) \/ ActFails(c) PROVE Owned
  BY <1>0, <1>5 DEF Act, ActFails, Owned
<1>6. ASSUME NEW c \in Clients, Mark(c) PROVE Owned
  BY <1>0, <1>6 DEF Mark, Marked, Completed, Owned
<1>7. ASSUME NEW c \in Clients, MarkFails(c) PROVE Owned
  BY <1>0, <1>7 DEF MarkFails, Marked, Completed, Owned
<1>8. ASSUME NEW c \in Clients, Release(c) PROVE Owned
  BY <1>0, <1>8 DEF Release, Released, Owned
<1>9. ASSUME NEW c \in Clients, ReleaseFails(c) PROVE Owned
  BY <1>9 DEF ReleaseFails
<1>10. ASSUME NEW c \in Clients, Die(c) \/ Leave(c) PROVE Owned
  BY <1>0, <1>10 DEF Die, Leave, Owned
<1>11. CASE Lose
  BY <1>11 DEF Lose
<1>12. CASE UNCHANGED vars
  BY <1>12 DEF vars
<1> QED
  BY <1>1, <1>2, <1>3, <1>4, <1>5, <1>6, <1>7, <1>8, <1>9, <1>10, <1>11, <1>12
     DEF Next, Proceeds, Owned

LEMMA StepHolds == IInv /\ [Next]_vars => IInv'
BY StepType, StepOwner, StepOwn, StepRun, StepInProgress DEF IInv

\* Every step of executeOnce, of a command and of the store keeps the invariant.
THEOREM Inductive == Spec => []IInv
BY InitHolds, StepHolds, PTL DEF Spec

-----------------------------------------------------------------------------
(* The promises. *)

\* Every variable keeps its type: a record always names a request, and only a completed
\* one a run of the action.
THEOREM TypeCorrect == Spec => []TypeOK
BY Inductive, PTL DEF IInv

\* As long as the store keeps its records, SET NX lets one request at a time carry out
\* the action, whatever commands fail and whoever dies.
THEOREM OneOwnerHolds == Spec => []OneOwner
BY Inductive, PTL DEF IInv

\* An answer of executeOnce, given by the owner or read from the record, is the result of
\* the action carried out for that very request.
THEOREM ResultIsOwnHolds == Spec => []ResultIsOwn
<1>1. IInv => ResultIsOwn
  BY DEF IInv, MineIsOwn, ResultIsOwn
<1> QED
  BY <1>1, Inductive, PTL

\* The action is carried out twice only after an answer of the action, a markCompleted or
\* a record was lost.
THEOREM RepeatExplainedHolds == Spec => []RepeatExplained
<1>1. IInv => RepeatExplained
  <2> SUFFICES ASSUME IInv, SoundSoFar
               PROVE  Len(runs) <= 1
    BY DEF RepeatExplained
  <2>1. Len(runs) \in {0, 1}
    BY DEF IInv, RunIsRecorded, SoundSoFar
  <2>2. \A n \in {0, 1} : n <= 1
    OBVIOUS
  <2> QED
    BY <2>1, <2>2, Zenon
<1> QED
  BY <1>1, Inductive, PTL

\* A record in progress that nobody works for was left by a failed SET, a failed release
\* or a process that died.
THEOREM BlockedExplainedHolds == Spec => []BlockedExplained
<1>1. IInv => BlockedExplained
  BY DEF IInv, InProgressIsOwned, BlockedExplained
<1> QED
  BY <1>1, Inductive, PTL

\* The scripts of markCompleted and releaseOnFailure touch a record of their request only.
THEOREM RecordKeepsRequestHolds == Spec => RecordKeepsRequest
<1>1. ASSUME IInv, [Next]_vars, record # None, record' # None
      PROVE  record'.hash = record.hash
  <2> USE <1>1
  <2>1. ASSUME NEW c \in Clients, Create(c) \/ CreateFails(c) PROVE record' = record
    BY <2>1 DEF Create, CreateFails, Creates
  <2>2. ASSUME NEW c \in Clients, Mark(c) \/ MarkFails(c)
        PROVE  record'.hash = record.hash
    BY <2>2 DEF Mark, MarkFails, Marked, Completed
  <2>3. ASSUME NEW c \in Clients, Release(c) \/ ReleaseFails(c) PROVE record' = record
    BY <2>3 DEF Release, ReleaseFails, Released
  <2>4. ASSUME NEW c \in Clients,
               \/ \E h \in Hashes : Submit(c, h)
               \/ Polls(c) \/ GiveUp(c) \/ Act(c) \/ ActFails(c) \/ Die(c) \/ Leave(c)
        PROVE  record' = record
    BY <2>4 DEF Submit, Polls, Read, ReadFails, GiveUp, Act, ActFails, Die, Leave
  <2>5. ~ Lose
    BY DEF Lose
  <2>6. UNCHANGED vars => record' = record
    BY DEF vars
  <2> QED
    BY <2>1, <2>2, <2>3, <2>4, <2>5, <2>6 DEF Next, Proceeds
<1>2. IInv /\ [Next]_vars =>
        [record # None /\ record' # None => record'.hash = record.hash]_vars
  BY <1>1
<1> QED
  BY <1>2, Inductive, PTL DEF Spec, RecordKeepsRequest

-----------------------------------------------------------------------------
(* The refinement. *)

\* What was lost stays lost.
LEMMA SoundBefore == [Next]_vars /\ SoundSoFar' => SoundSoFar
<1> SUFFICES ASSUME [Next]_vars PROVE faults \subseteq faults'
  BY DEF SoundSoFar
<1>1. UNCHANGED faults => faults \subseteq faults'
  OBVIOUS
<1>2. ASSUME NEW f, Suffers(f) PROVE faults \subseteq faults'
  BY <1>2 DEF Suffers
<1>3. ASSUME NEW c \in Clients, Polls(c) \/ GiveUp(c) \/ Proceeds(c) \/ Die(c) \/ Leave(c)
      PROVE  faults \subseteq faults'
  BY <1>1, <1>2, <1>3 DEF Polls, Read, ReadFails, GiveUp, Proceeds, Create, CreateFails,
     Act, ActFails, Mark, MarkFails, Release, ReleaseFails, Die, Leave
<1>4. ASSUME NEW c \in Clients, NEW h \in Hashes, Submit(c, h)
      PROVE  faults \subseteq faults'
  BY <1>1, <1>4 DEF Submit
<1>5. Lose => faults \subseteq faults'
  BY <1>2 DEF Lose
<1> QED
  BY <1>1, <1>3, <1>4, <1>5 DEF Next, vars

\* While nothing was lost there is at most one run, and a request that has a number has
\* that run.
LEMMA FirstRun ==
  ASSUME IInv, SoundSoFar
  PROVE  /\ runs = <<>> => decided["key"] = None
         /\ runs # <<>> => decided["key"] = runs[1] /\ runs[1] \in Hashes
         /\ \A n \in 1..Len(runs) : n = 1 /\ runs # <<>>
<1>1. Len(runs) \in {0, 1} /\ runs \in Seq(Hashes)
  BY DEF IInv, TypeOK, RunIsRecorded, SoundSoFar
<1>2. runs = <<>> <=> Len(runs) = 0
  BY <1>1
<1>3. runs # <<>> => runs[1] \in Hashes /\ Len(runs) = 1
  BY <1>1, <1>2
<1>4. decided["key"] = IF runs = <<>> THEN None ELSE runs[1]
  BY DEF decided
<1>5. ASSUME NEW n \in 1..Len(runs) PROVE n = 1 /\ runs # <<>>
  <2>1. CASE Len(runs) = 1
    BY <1>2, <2>1
  <2>2. CASE Len(runs) = 0
    BY <2>2
  <2> QED
    BY <1>1, <2>1, <2>2
<1> QED
  BY <1>3, <1>4, <1>5

\* Who is told what, client by client.
LEMMA ToldTo ==
  ASSUME NEW c \in Clients, \A d \in Clients \ {c} : UNCHANGED <<stage[d], hash[d]>>
  PROVE  /\ stage'[c] \in {"ok", "replayed"} =>
              told' = [told EXCEPT ![c] = <<"key", hash'[c]>>]
         /\ stage'[c] \notin {"ok", "replayed"} => told' = [told EXCEPT ![c] = <<>>]
         /\ (stage[c] \notin {"ok", "replayed"} /\ stage'[c] \notin {"ok", "replayed"})
              => UNCHANGED told
BY DEF told

\* A step of one request without an answer before or after it, and without a run.
LEMMA Untold ==
  ASSUME NEW c \in Clients, \A d \in Clients \ {c} : UNCHANGED <<stage[d], hash[d]>>,
         stage[c] \notin {"ok", "replayed"}, stage'[c] \notin {"ok", "replayed"},
         UNCHANGED runs
  PROVE  UNCHANGED Record!vars
BY ToldTo DEF Record!vars, decided

\* A positive answer tells the decision.
LEMMA AnswerTells ==
  ASSUME IInv, SoundSoFar, NEW c \in Clients,
         \A d \in Clients \ {c} : UNCHANGED <<stage[d], hash[d]>>,
         stage'[c] \in {"ok", "replayed"}, UNCHANGED runs,
         NEW n \in 1..Len(runs), runs[n] = hash'[c]
  PROVE  Record!Tell(c, "key")
<1>1. decided["key"] = hash'[c] /\ decided["key"] # None
  BY FirstRun, ValkeyAssumption
<1>2. told' = [told EXCEPT ![c] = <<"key", decided["key"]>>]
  BY <1>1, ToldTo
<1>3. UNCHANGED decided
  BY DEF decided
<1> QED
  BY <1>1, <1>2, <1>3 DEF Record!Tell

\* The run decides the key.
LEMMA ActDecides ==
  ASSUME IInv, SoundSoFar, NEW c \in Clients, Act(c)
  PROVE  \E h \in Hashes : Record!Decide(c, "key", h)
<1>1. hash[c] \in Hashes /\ Len(runs) = 0 /\ runs \in Seq(Hashes)
  BY StageNames DEF IInv, TypeOK, Hashed, RunIsRecorded, SoundSoFar, Act, Goes
<1>2. runs = <<>> /\ decided = [k \in {"key"} |-> None]
  BY <1>1 DEF decided
<1>3. runs' = <<hash[c]>>
  BY <1>2 DEF Act, CarryOut
<1>4. decided' = [decided EXCEPT !["key"] = hash[c]]
  BY <1>2, <1>3 DEF decided
<1>5. UNCHANGED told
  BY DEF Act, Goes, told, IInv, TypeOK
<1> QED
  BY <1>1, <1>2, <1>4, <1>5 DEF Record!Decide

LEMMA RecordSteps ==
  ASSUME IInv, SoundSoFar, SoundSoFar', [Next]_vars
  PROVE  [Record!Next]_Record!vars
<1> USE DEF IInv, TypeOK, Goes, Verdicts
<1>1. ASSUME NEW c \in Clients, NEW h \in Hashes, Submit(c, h)
      PROVE  [Record!Next]_Record!vars
  BY <1>1, Untold DEF Submit
<1>2. ASSUME NEW c \in Clients,
             \/ Create(c) \/ CreateFails(c) \/ ReadFails(c) \/ GiveUp(c)
             \/ MarkFails(c) \/ Release(c) \/ ReleaseFails(c) \/ Die(c)
      PROVE  [Record!Next]_Record!vars
  <2>1. /\ \A d \in Clients \ {c} : UNCHANGED <<stage[d], hash[d]>>
        /\ stage[c] \notin {"ok", "replayed"} /\ stage'[c] \notin {"ok", "replayed"}
        /\ UNCHANGED runs
    BY <1>2 DEF Create, CreateFails, ReadFails, GiveUp, MarkFails, Release, ReleaseFails,
                Die
  <2> QED
    BY <2>1, Untold
<1>3. ASSUME NEW c \in Clients, Read(c) PROVE [Record!Next]_Record!vars
  <2>0. /\ \A d \in Clients \ {c} : UNCHANGED <<stage[d], hash[d]>>
        /\ stage[c] = "polling" /\ UNCHANGED <<runs, hash>>
    BY <1>3 DEF Read
  <2>1. CASE stage'[c] = "replayed"
    <3>1. record.run \in 1..Len(runs) /\ runs[record.run] = hash'[c]
      BY <1>3, <2>1 DEF Read, Matches, RecordIsOwn
    <3> QED
      BY <2>0, <2>1, <3>1, AnswerTells DEF Record!Next
  <2>2. CASE stage'[c] # "replayed"
    <3>1. stage'[c] # "ok"
      BY <1>3 DEF Read
    <3> QED
      BY <2>0, <2>2, <3>1, Untold
  <2> QED
    BY <2>1, <2>2
<1>4. ASSUME NEW c \in Clients, Act(c) PROVE [Record!Next]_Record!vars
  BY <1>4, ActDecides DEF Record!Next
<1>5. ASSUME NEW c \in Clients, ActFails(c) PROVE [Record!Next]_Record!vars
  <2>1. UNCHANGED runs
    BY <1>5 DEF ActFails, Suffers, SoundSoFar
  <2> QED
    BY <1>5, <2>1, Untold DEF ActFails
<1>6. ASSUME NEW c \in Clients, Mark(c) PROVE [Record!Next]_Record!vars
  <2>1. mine[c] \in 1..Len(runs) /\ runs[mine[c]] = hash'[c]
    BY <1>6 DEF Mark, MineIsOwn
  <2>2. /\ \A d \in Clients \ {c} : UNCHANGED <<stage[d], hash[d]>>
        /\ stage'[c] = "ok" /\ UNCHANGED runs
    BY <1>6 DEF Mark
  <2> QED
    BY <2>1, <2>2, AnswerTells DEF Record!Next
<1>7. ASSUME NEW c \in Clients, Leave(c) PROVE [Record!Next]_Record!vars
  <2>1. told' = [told EXCEPT ![c] = <<>>]
    BY <1>7, ToldTo DEF Leave
  <2>2. UNCHANGED decided
    BY <1>7 DEF Leave, decided
  <2> QED
    BY <2>1, <2>2 DEF Record!Next, Record!Leave, Record!Nothing
<1>8. CASE Lose
  BY <1>8 DEF Lose, Record!vars, decided, told
<1>9. CASE UNCHANGED vars
  BY <1>9 DEF vars, Record!vars, decided, told
<1> QED
  BY <1>1, <1>2, <1>3, <1>4, <1>5, <1>6, <1>7, <1>8, <1>9 DEF Next, Polls, Proceeds

\* As long as successes can be recorded and records are kept, the key is decided once and
\* every positive answer is the decision, through failed commands and dead processes.
THEOREM KeyIsWriteOnceHolds == Spec => KeyIsWriteOnce
<1>1. Init => Record!Init
  BY DEF Init, Record!Init, decided, told, Record!Nothing
<1>2. IInv /\ [Next]_vars => [SoundSoFar' => [Record!Next]_Record!vars]_vars
  BY RecordSteps, SoundBefore
<1> QED
  BY <1>1, <1>2, Inductive, PTL DEF Spec, KeyIsWriteOnce
=============================================================================
