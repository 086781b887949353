-------------------------- MODULE ValkeyIdempotency --------------------------
(***************************************************************************)
(* ValkeyComplianceIdempotencyAdapter.executeOnce, the second              *)
(* implementation of the idempotency port.  Where the Postgres adapter     *)
(* holds a lock while it works, this one leaves a record under the key:    *)
(* `in progress' from the first request on, `completed' with the result    *)
(* once the action is done, and no record again when anything failed.  The *)
(* record names the request, not the process that works on it.             *)
(*                                                                         *)
(* One key is modelled: requests under different keys share nothing.  A    *)
(* command to the store may fail with or without having been applied, the  *)
(* store may lose the record (its day is over, it was evicted, the store   *)
(* restarted empty), and a process may die at any await.                   *)
(*                                                                         *)
(* `faults' is a history variable: no guard reads it.                      *)
(***************************************************************************)
EXTENDS Naturals, Sequences, FiniteSets

CONSTANTS
  Clients,  \* requests under way at the same time
  Hashes,   \* what they ask for: the hash of a request covers all of it
  Losses,   \* what may go wrong, of Faults
  MaxRuns,  \* bound: how often the action is carried out
  None

Faults == {"create", "read", "effect", "mark", "release", "death", "loss"}

ASSUME ValkeyAssumption ==
  /\ Losses \subseteq Faults
  /\ MaxRuns \in Nat
  /\ None \notin Hashes

VARIABLES
  stage,   \* where each request stands
  hash,    \* what it asks for
  mine,    \* the run of the action whose result it has, 0 for none
  record,  \* the value under the key
  runs,    \* the requests whose action has been carried out, in order
  faults   \* history: what has gone wrong

vars == <<stage, hash, mine, record, runs, faults>>

Owning == {"acting", "marking", "releasing"}
Verdicts == {"ok", "replayed", "mismatch", "busy", "error"}

\* Only a completed record has a result.
Records == [done : {FALSE}, hash : Hashes, run : {0}]
             \cup [done : {TRUE}, hash : Hashes, run : 1..MaxRuns]

ASSUME ValkeyNullAssumption == None \notin Records

Stages == {"idle", "creating", "polling"} \cup Owning \cup Verdicts

TypeOK ==
  /\ stage \in [Clients -> Stages]
  /\ hash \in [Clients -> Hashes \cup {None}]
  /\ mine \in [Clients -> 0..MaxRuns]
  /\ record \in Records \cup {None}
  /\ runs \in Seq(Hashes) /\ Len(runs) <= MaxRuns
  /\ faults \subseteq Losses

-----------------------------------------------------------------------------

Init ==
  /\ stage = [c \in Clients |-> "idle"]
  /\ hash = [c \in Clients |-> None]
  /\ mine = [c \in Clients |-> 0]
  /\ record = None
  /\ runs = <<>>
  /\ faults = {}

Goes(c, from, to) == stage[c] = from /\ stage' = [stage EXCEPT ![c] = to]

Suffers(fault) == fault \in Losses /\ faults' = faults \cup {fault}

InProgress(h) == [done |-> FALSE, hash |-> h, run |-> 0]

Completed(h, n) == [done |-> TRUE, hash |-> h, run |-> n]

Submit(c, h) ==
  /\ Goes(c, "idle", "creating")
  /\ hash' = [hash EXCEPT ![c] = h]
  /\ UNCHANGED <<mine, record, runs, faults>>

\* SET NX finds no record.
Creates(c) == record = None

Create(c) ==
  /\ Goes(c, "creating", IF Creates(c) THEN "acting" ELSE "polling")
  /\ record' = IF Creates(c) THEN InProgress(hash[c]) ELSE record
  /\ UNCHANGED <<hash, mine, runs, faults>>

\* The failed command is outside the try of executeAsOwner: nothing is released.
CreateFails(c) ==
  /\ Goes(c, "creating", "error")
  /\ Suffers("create")
  /\ record' \in {record, IF Creates(c) THEN InProgress(hash[c]) ELSE record}
  /\ UNCHANGED <<hash, mine, runs>>

\* Mutant of Matches: assertSameRequestHash is not called.
MatchesAny(c) == TRUE

Matches(c) == record.hash = hash[c]

\* A record in progress is read again after a while.
Read(c) ==
  /\ \/ record = None /\ Goes(c, "polling", "creating") /\ UNCHANGED mine
     \/ record # None /\ ~ Matches(c) /\ Goes(c, "polling", "mismatch") /\ UNCHANGED mine
     \/ /\ record # None /\ Matches(c) /\ record.done
        /\ Goes(c, "polling", "replayed")
        /\ mine' = [mine EXCEPT ![c] = record.run]
  /\ UNCHANGED <<hash, record, runs, faults>>

ReadFails(c) ==
  /\ "read" \in Losses
  /\ Goes(c, "polling", "error")
  /\ UNCHANGED <<hash, mine, record, runs, faults>>

\* The head of the loop finds the deadline passed.
GiveUp(c) ==
  /\ Goes(c, "polling", "busy")
  /\ UNCHANGED <<hash, mine, record, runs, faults>>

CarryOut(c) == Len(runs) < MaxRuns /\ runs' = Append(runs, hash[c])

Act(c) ==
  /\ Goes(c, "acting", "marking")
  /\ CarryOut(c)
  /\ mine' = [mine EXCEPT ![c] = Len(runs) + 1]
  /\ UNCHANGED <<hash, record, faults>>

\* The action throws: nothing was changed, or everything was and only the answer is lost.
ActFails(c) ==
  /\ Goes(c, "acting", "releasing")
  /\ \/ UNCHANGED <<runs, faults>>
     \/ CarryOut(c) /\ Suffers("effect")
  /\ UNCHANGED <<hash, mine, record>>

\* The script of markCompleted replaces a record of the same request only.
Marked(c) ==
  IF record # None /\ record.hash = hash[c] THEN Completed(hash[c], mine[c]) ELSE record

\* Mutant of Mark: the key is released in a finally.
MarkThenFree(c) ==
  /\ Goes(c, "marking", "ok")
  /\ record' = None
  /\ UNCHANGED <<hash, mine, runs, faults>>

\* What the script answers is not looked at.
Mark(c) ==
  /\ Goes(c, "marking", "ok")
  /\ record' = Marked(c)
  /\ UNCHANGED <<hash, mine, runs, faults>>

\* A failed markCompleted is caught with the failures of the action.
MarkFails(c) ==
  /\ Goes(c, "marking", "releasing")
  /\ Suffers("mark")
  /\ record' \in {record, Marked(c)}
  /\ UNCHANGED <<hash, mine, runs>>

\* Mutant of Released: nothing is deleted, the next request finds the record.
Kept(c) == record

\* The script of releaseOnFailure deletes a record of the same request, whatever its
\* status and whoever made it.
Released(c) == IF record # None /\ record.hash = hash[c] THEN None ELSE record

Release(c) ==
  /\ Goes(c, "releasing", "error")
  /\ record' = Released(c)
  /\ mine' = [mine EXCEPT ![c] = 0]
  /\ UNCHANGED <<hash, runs, faults>>

ReleaseFails(c) ==
  /\ Goes(c, "releasing", "error")
  /\ Suffers("release")
  /\ record' \in {record, Released(c)}
  /\ mine' = [mine EXCEPT ![c] = 0]
  /\ UNCHANGED <<hash, runs>>

\* The process of the request dies between two commands.
Die(c) ==
  /\ stage[c] \notin Verdicts \cup {"idle"}
  /\ stage' = [stage EXCEPT ![c] = "error"]
  /\ mine' = [mine EXCEPT ![c] = 0]
  /\ Suffers("death")
  /\ UNCHANGED <<hash, record, runs>>

\* The client has its answer and may ask again.
Leave(c) ==
  /\ stage[c] \in Verdicts
  /\ stage' = [stage EXCEPT ![c] = "idle"]
  /\ hash' = [hash EXCEPT ![c] = None]
  /\ mine' = [mine EXCEPT ![c] = 0]
  /\ UNCHANGED <<record, runs, faults>>

\* The store no longer has the record.
Lose ==
  /\ record # None
  /\ record' = None
  /\ Suffers("loss")
  /\ UNCHANGED <<stage, hash, mine, runs>>

Polls(c) == Read(c) \/ ReadFails(c)

Proceeds(c) ==
  Create(c) \/ CreateFails(c) \/ Act(c) \/ ActFails(c) \/ Mark(c) \/ MarkFails(c)
    \/ Release(c) \/ ReleaseFails(c)

Next ==
  \/ \E c \in Clients :
       \/ \E h \in Hashes : Submit(c, h)
       \/ Polls(c) \/ GiveUp(c) \/ Proceeds(c) \/ Die(c) \/ Leave(c)
  \/ Lose

Spec == Init /\ [][Next]_vars

-----------------------------------------------------------------------------
(* What a client can rely on. *)

\* As long as the store keeps its records, one request at a time works under the key.
OneOwner ==
  "loss" \notin faults =>
    \A c, d \in Clients : stage[c] \in Owning /\ stage[d] \in Owning => c = d

\* A request is answered with the result of a run of itself, first or replayed, through
\* releases, retries and records lost or made again by others.
ResultIsOwn ==
  \A c \in Clients : stage[c] \in {"ok", "replayed"} =>
    mine[c] \in 1..Len(runs) /\ runs[mine[c]] = hash[c]

\* Every success so far could be recorded, and no record was lost.
SoundSoFar == faults \cap {"effect", "mark", "loss"} = {}

\* The action is carried out again only when its success could not be recorded.
RepeatExplained == SoundSoFar => Len(runs) <= 1

\* The key is blocked by nobody only when a command failed outside the reach of the
\* release, or the release itself did.
BlockedExplained ==
  (/\ record # None /\ ~ record.done
   /\ \A c \in Clients : stage[c] \notin Owning)
  => faults \cap {"create", "release", "death"} # {}

\* While no record is lost, what the key stands for changes only by a release: a record
\* is never replaced by that of another request.
RecordKeepsRequest ==
  [][record # None /\ record' # None => record'.hash = record.hash]_vars

\* What WriteOnceRecord knows of a state: the key is decided by the first run.
decided == [k \in {"key"} |-> IF runs = <<>> THEN None ELSE runs[1]]

told == [c \in Clients |->
           IF stage[c] \in {"ok", "replayed"} THEN <<"key", hash[c]>> ELSE <<>>]

Record == INSTANCE WriteOnceRecord WITH
  Keys <- {"key"}, Decisions <- Hashes, Undecided <- None, record <- decided, told <- told

\* As long as successes can be recorded and records are kept, the key is write-once, as
\* with the Postgres adapter, through commands that fail and processes that die.
KeyIsWriteOnce == Record!Init /\ [][SoundSoFar' => [Record!Next]_Record!vars]_vars
=============================================================================
