------------------------- MODULE ProviderQueueProofs -------------------------
(***************************************************************************)
(* Proofs about ProviderQueue, for any callers, workers and questions and  *)
(* for any number of jobs and attempts.                                    *)
(***************************************************************************)
EXTENDS ProviderQueue, TLAPS

-----------------------------------------------------------------------------
(* The inductive invariant. *)

\* The line holds the waiting jobs, each of them once.
LineOfWaiting ==
  /\ \A i \in 1..Len(queue) : job[queue[i]].state = "waiting"
  /\ \A i, j \in 1..Len(queue) : queue[i] = queue[j] => i = j
  /\ \A j \in Jobs : job[j].state = "waiting" => \E i \in 1..Len(queue) : queue[i] = j

\* Every request to the provider is behind a failure, a hand-over, or the attempt under
\* way, and a job that goes on has attempts left.
RequestsCounted ==
  \A j \in Jobs :
    /\ job[j].state \in {"absent", "waiting", "delayed"}
         => sent[j] <= job[j].failures + job[j].stalls
    /\ job[j].state = "active" => sent[j] <= job[j].failures + job[j].stalls + 1
    /\ job[j].state \notin Ended => job[j].failures < MaxAttempts
    /\ sent[j] <= MaxAttempts + MaxStalled

\* A job has its question from the start, and a job that is not there has no past.
QuestionsKept ==
  \A j \in Jobs :
    /\ job[j].state # "absent" => job[j].question \in Questions
    /\ job[j].state = "absent" => job[j] = Absent
    /\ sent[j] > 0 => Sends(job[j].question)

\* A result is there when the job is completed, and is what a reply was taken for.
ResultsJudged ==
  \A j \in Jobs :
    /\ job[j].state = "completed" => job[j].result \in Results
    /\ job[j].result # None =>
         LET r == job[j].result
         IN  r.risk = "high" <=> \/ r.score # None /\ r.score >= HighRiskScore
                                 \/ /\ r.stolen # None
                                    /\ \E s \in r.stolen : s >= StolenCoinsScore

\* Who waits or has an answer has a job of its own question.
OwnJob ==
  \A k \in Callers : caller[k] \in {"waiting", "ok"} =>
    /\ ask[k] \in Jobs
    /\ job[ask[k]].state # "absent"
    /\ job[ask[k]].question = asked[k]
    /\ caller[k] = "ok" => job[ask[k]].state = "completed"

\* The attempt under way, or the one that completed the job, was sent after the caller
\* asked.
SentSince ==
  \A k \in Callers :
    (/\ caller[k] \in {"waiting", "ok"}
     /\ \/ job[ask[k]].state = "completed"
        \/ job[ask[k]].state = "active" /\ Sends(job[ask[k]].question))
    => k \in since[ask[k]]

IInv ==
  /\ TypeOK
  /\ LineOfWaiting
  /\ RequestsCounted
  /\ QuestionsKept
  /\ ResultsJudged
  /\ OwnJob
  /\ SentSince

-----------------------------------------------------------------------------
(* Jobs and the line. *)

LEMMA JobTypes ==
  /\ Jobs \subseteq Nat /\ None \notin Jobs
  /\ Absent \in JobRecords
  /\ \A r \in JobRecords :
       /\ r.failures \in 0..MaxAttempts /\ r.stalls \in 0..MaxStalled
       /\ r.question \in Questions \cup {None} /\ r.result \in Results \cup {None}
       /\ r.state \in {"absent", "waiting", "active", "delayed"} \cup Ended
BY QueueAssumption DEF Jobs, Absent, JobRecords

LEMMA InitHolds == Init => IInv
<1> SUFFICES ASSUME Init PROVE IInv
  OBVIOUS
<1>1. TypeOK
  BY JobTypes DEF Init, TypeOK
<1>2. LineOfWaiting /\ OwnJob /\ SentSince
  BY DEF Init, LineOfWaiting, OwnJob, SentSince, Absent
<1>3. RequestsCounted
  BY QueueAssumption DEF Init, RequestsCounted, Absent, Ended
<1>4. QuestionsKept /\ ResultsJudged
  BY DEF Init, QuestionsKept, ResultsJudged, Absent
<1> QED
  BY <1>1, <1>2, <1>3, <1>4 DEF IInv

\* What an attempt comes to is judged by the rule of isHighRisk.
LEMMA OutcomesJudged ==
  ASSUME NEW r \in Outcomes, r # None
  PROVE  /\ r \in Results
         /\ r.risk = "high" <=> \/ r.score # None /\ r.score >= HighRiskScore
                                \/ r.stolen # None /\ \E s \in r.stolen : s >= StolenCoinsScore
<1>1. PICK reply \in Replies : r = ToDomain(reply)
  BY DEF Outcomes
<1>2. reply.score \in Scores \cup {None} /\ reply.stolen \in Signals
  BY DEF Replies
<1>3. r = [risk |-> IF IsHighRisk(reply) THEN "high" ELSE "low", score |-> reply.score,
           stolen |-> reply.stolen]
  BY <1>1 DEF ToDomain
<1>4. r \in Results /\ r.score = reply.score /\ r.stolen = reply.stolen
  BY <1>2, <1>3 DEF Results
<1>5. r.risk = "high" <=> IsHighRisk(reply)
  BY <1>3
<1> QED
  BY <1>4, <1>5 DEF IsHighRisk

\* One more job in line.
LEMMA Joins ==
  ASSUME TypeOK, NEW j \in Jobs, queue' = Append(queue, j)
  PROVE  /\ queue' \in Seq(Jobs) /\ Len(queue) \in Nat /\ Len(queue') = Len(queue) + 1
         /\ \A i \in 1..Len(queue) : queue'[i] = queue[i]
         /\ queue'[Len(queue) + 1] = j
BY DEF TypeOK

\* The first in line is taken.
LEMMA Taken ==
  ASSUME TypeOK, queue # <<>>, queue' = Tail(queue)
  PROVE  /\ queue' \in Seq(Jobs) /\ Len(queue) \in Nat \ {0} /\ Len(queue') = Len(queue) - 1
         /\ Head(queue) = queue[1] /\ queue[1] \in Jobs
         /\ \A i \in 1..Len(queue') : queue'[i] = queue[i + 1]
         /\ \A i \in 2..Len(queue) : i - 1 \in 1..Len(queue') /\ queue'[i - 1] = queue[i]
<1>1. /\ queue' \in Seq(Jobs) /\ Len(queue) \in Nat \ {0} /\ Len(queue') = Len(queue) - 1
      /\ Head(queue) = queue[1] /\ queue[1] \in Jobs
      /\ \A i \in 1..Len(queue') : queue'[i] = queue[i + 1]
  BY DEF TypeOK
<1> QED
  BY <1>1

\* A job goes back to the head of the line.
LEMMA GoesFirst ==
  ASSUME TypeOK, NEW j \in Jobs, queue' = <<j>> \o queue
  PROVE  /\ queue' \in Seq(Jobs) /\ Len(queue) \in Nat /\ Len(queue') = Len(queue) + 1
         /\ queue'[1] = j
         /\ \A i \in 1..Len(queue) : queue'[i + 1] = queue[i]
         /\ \A i \in 2..Len(queue') : i - 1 \in 1..Len(queue) /\ queue'[i] = queue[i - 1]
<1>1. /\ queue' \in Seq(Jobs) /\ Len(queue) \in Nat /\ Len(queue') = Len(queue) + 1
      /\ queue'[1] = j
      /\ \A i \in 1..Len(queue) : queue'[i + 1] = queue[i]
  BY DEF TypeOK
<1> QED
  BY <1>1

-----------------------------------------------------------------------------
(* What each step keeps. *)

\* Steps that leave jobs, line and requests alone.
LEMMA CallersHold ==
  ASSUME IInv, UNCHANGED <<job, queue, configured, sent>>, TypeOK', OwnJob', SentSince'
  PROVE  IInv'
BY DEF IInv, LineOfWaiting, RequestsCounted, QuestionsKept, ResultsJudged, Sends

LEMMA CallerSteps ==
  ASSUME IInv, NEW k \in Callers, Notice(k) \/ TimesOut(k) \/ Leave(k)
  PROVE  IInv'
<1> USE DEF IInv
<1>1. UNCHANGED <<job, queue, worker, configured, events, sent>>
  BY DEF Notice, TimesOut, Leave, workVars
<1>2. CASE Notice(k) \/ TimesOut(k)
  <2>1. PICK r \in {"ok", "failed"} :
          /\ caller[k] = "waiting" /\ caller' = [caller EXCEPT ![k] = r]
          /\ (r = "ok" => job[ask[k]].state = "completed")
          /\ UNCHANGED <<ask, asked, since>>
    BY <1>2 DEF Notice, TimesOut
  <2>2. TypeOK'
    BY <1>1, <2>1 DEF TypeOK
  <2>3. OwnJob' /\ SentSince'
    BY <1>1, <2>1 DEF TypeOK, OwnJob, SentSince, Sends
  <2> QED
    BY <1>1, <2>2, <2>3, CallersHold
<1>3. CASE Leave(k)
  <2>1. /\ caller' = [caller EXCEPT ![k] = "idle"] /\ ask' = [ask EXCEPT ![k] = None]
        /\ asked' = [asked EXCEPT ![k] = None]
        /\ since' = [j \in Jobs |-> since[j] \ {k}]
    BY <1>3 DEF Leave
  <2>2. TypeOK'
    BY <1>1, <2>1 DEF TypeOK
  <2>3. \A l \in Callers : caller'[l] \in {"waiting", "ok"}
          => l # k /\ UNCHANGED <<caller[l], ask[l], asked[l]>>
    BY <2>1 DEF TypeOK
  <2>4. OwnJob'
    BY <1>1, <2>3 DEF OwnJob
  <2>5. SentSince'
    BY <1>1, <2>1, <2>3 DEF SentSince, OwnJob, Sends
  <2> QED
    BY <1>1, <2>2, <2>4, <2>5, CallersHold
<1> QED
  BY <1>2, <1>3

LEMMA CloseHolds == IInv /\ Close => IInv'
<1> SUFFICES ASSUME IInv, Close PROVE IInv'
  OBVIOUS
<1> USE DEF IInv
<1>1. TypeOK' /\ OwnJob' /\ SentSince'
  BY DEF Close, TypeOK, OwnJob, SentSince, Sends
<1> QED
  BY <1>1, CallersHold DEF Close

\* A new job stands at the end of the line.
LEMMA NewJob ==
  ASSUME IInv, NEW j \in Jobs, NEW q \in Questions, IsNew(j, q), AddJob(j, q),
         UNCHANGED <<configured, sent>>
  PROVE  /\ job' \in [Jobs -> JobRecords] /\ queue' \in Seq(Jobs)
         /\ job[j].state = "absent"
         /\ job'[j].state = "waiting" /\ job'[j].question = q
         /\ \A i \in Jobs \ {j} : job'[i] = job[i]
         /\ LineOfWaiting' /\ RequestsCounted' /\ QuestionsKept' /\ ResultsJudged'
<1> USE DEF IInv
<1>1. job[j] = Absent /\ job[j].state = "absent"
  BY DEF IsNew, QuestionsKept
<1>2. /\ queue' = Append(queue, j)
      /\ job' = [job EXCEPT ![j] = [Absent EXCEPT !.state = "waiting", !.question = q]]
  BY <1>1 DEF AddJob
<1>3. /\ job'[j] = [state |-> "waiting", question |-> q, failures |-> 0, stalls |-> 0,
                    owner |-> None, result |-> None]
      /\ \A i \in Jobs \ {j} : job'[i] = job[i]
  BY <1>2 DEF Absent, TypeOK
<1>4. job' \in [Jobs -> JobRecords]
  BY <1>2, <1>3, QueueAssumption DEF TypeOK, JobRecords, Absent
<1>5. LineOfWaiting'
  <2>1. /\ queue' \in Seq(Jobs) /\ Len(queue) \in Nat /\ Len(queue') = Len(queue) + 1
        /\ \A i \in 1..Len(queue) : queue'[i] = queue[i] /\ queue[i] \in Jobs
        /\ queue'[Len(queue) + 1] = j
    BY <1>2, Joins DEF TypeOK
  <2>2. \A i \in 1..Len(queue) : queue[i] # j
    BY <1>1 DEF LineOfWaiting
  <2>3. \A i \in 1..Len(queue') : job'[queue'[i]].state = "waiting"
    BY <1>3, <2>1, <2>2 DEF LineOfWaiting
  <2>4. \A i, l \in 1..Len(queue') : queue'[i] = queue'[l] => i = l
    BY <2>1, <2>2 DEF LineOfWaiting
  <2>5. \A l \in Jobs : job'[l].state = "waiting" => \E i \in 1..Len(queue') : queue'[i] = l
    BY <1>3, <2>1 DEF LineOfWaiting
  <2> QED
    BY <2>3, <2>4, <2>5 DEF LineOfWaiting
<1>6. RequestsCounted'
  BY <1>1, <1>3, QueueAssumption DEF RequestsCounted, Absent, Ended
<1>7. QuestionsKept' /\ ResultsJudged'
  <2>1. sent[j] = 0
    <3>1. job[j].failures = 0 /\ job[j].stalls = 0 /\ sent[j] \in Nat
      BY <1>1 DEF Absent, TypeOK
    <3>2. sent[j] <= job[j].failures + job[j].stalls
      BY <1>1 DEF RequestsCounted
    <3> QED
      BY <3>1, <3>2
  <2>2. QuestionsKept'
    BY <1>3, <2>1 DEF QuestionsKept, Sends
  <2>3. ResultsJudged'
    BY <1>3 DEF ResultsJudged
  <2> QED
    BY <2>2, <2>3
<1>8. queue' \in Seq(Jobs)
  BY <1>2, Joins
<1> QED
  BY <1>1, <1>3, <1>4, <1>5, <1>6, <1>7, <1>8

LEMMA AskHolds ==
  ASSUME IInv, NEW k \in Callers, NEW q \in Questions, Ask(k, q)
  PROVE  IInv'
<1> USE DEF IInv
<1>1. PICK j \in Jobs : IsNew(j, q) /\ AddJob(j, q) /\ ask' = [ask EXCEPT ![k] = j]
  BY DEF Ask
<1>2. /\ UNCHANGED <<worker, configured, events, sent, since>>
      /\ asked' = [asked EXCEPT ![k] = q]
      /\ caller' = [caller EXCEPT ![k] = IF events THEN "waiting" ELSE "refused"]
  BY DEF Ask, workVars
<1>3. /\ job' \in [Jobs -> JobRecords] /\ queue' \in Seq(Jobs)
      /\ job[j].state = "absent"
      /\ job'[j].state = "waiting" /\ job'[j].question = q
      /\ \A i \in Jobs \ {j} : job'[i] = job[i]
      /\ LineOfWaiting' /\ RequestsCounted' /\ QuestionsKept' /\ ResultsJudged'
  BY <1>1, <1>2, NewJob
<1>4. TypeOK'
  BY <1>1, <1>2, <1>3 DEF TypeOK
<1>5. OwnJob' /\ SentSince'
  BY <1>1, <1>2, <1>3 DEF TypeOK, OwnJob, SentSince, Sends
<1> QED
  BY <1>3, <1>4, <1>5

LEMMA AskFailsHolds ==
  ASSUME IInv, NEW k \in Callers, NEW q \in Questions, AskFails(k, q)
  PROVE  IInv'
<1> USE DEF IInv
<1>1. /\ UNCHANGED <<ask, worker, configured, events, sent, since>>
      /\ asked' = [asked EXCEPT ![k] = q]
      /\ caller' = [caller EXCEPT ![k] = "refused"]
  BY DEF AskFails, workVars
<1>2. CASE UNCHANGED <<job, queue>>
  <2>1. TypeOK' /\ OwnJob' /\ SentSince'
    BY <1>1, <1>2 DEF TypeOK, OwnJob, SentSince, Sends
  <2> QED
    BY <1>1, <1>2, <2>1, CallersHold
<1>3. ASSUME NEW j \in Jobs, IsNew(j, q), AddJob(j, q) PROVE IInv'
  <2>1. /\ job' \in [Jobs -> JobRecords] /\ queue' \in Seq(Jobs)
        /\ job[j].state = "absent"
        /\ \A i \in Jobs \ {j} : job'[i] = job[i]
        /\ LineOfWaiting' /\ RequestsCounted' /\ QuestionsKept' /\ ResultsJudged'
    BY <1>1, <1>3, NewJob
  <2>2. TypeOK'
    BY <1>1, <2>1 DEF TypeOK
  <2>3. OwnJob' /\ SentSince'
    BY <1>1, <2>1 DEF TypeOK, OwnJob, SentSince, Sends
  <2> QED
    BY <2>1, <2>2, <2>3
<1> QED
  BY <1>2, <1>3 DEF AskFails

\* A step of one job that leaves its question alone: what the rest of the invariant takes.
LEMMA JobMoves ==
  ASSUME IInv, NEW j \in Jobs, job' \in [Jobs -> JobRecords], queue' \in Seq(Jobs),
         \A i \in Jobs \ {j} : job'[i] = job[i] /\ sent'[i] = sent[i] /\ since'[i] = since[i],
         job[j].state \notin {"absent", "completed"}, job'[j].state # "absent",
         job'[j].question = job[j].question,
         sent' \in [Jobs -> Nat], since' \in [Jobs -> SUBSET Callers],
         worker' \in [Workers -> Jobs \cup {None}],
         UNCHANGED callerVars,
         LineOfWaiting', RequestsCounted', ResultsJudged',
         sent'[j] > 0 => Sends(job[j].question),
         (\/ job'[j].state = "completed"
          \/ job'[j].state = "active" /\ Sends(job[j].question))
            => \A k \in Callers :
                 ask[k] = j /\ caller[k] \in {"waiting", "ok"} => k \in since'[j]
  PROVE  IInv'
<1> USE DEF IInv, callerVars
<1>1. TypeOK'
  BY DEF TypeOK
<1>2. QuestionsKept'
  BY DEF QuestionsKept, Sends
<1>3. OwnJob'
  BY DEF OwnJob, TypeOK
<1>4. SentSince'
  <2> SUFFICES ASSUME NEW k \in Callers, caller[k] \in {"waiting", "ok"},
                      \/ job'[ask[k]].state = "completed"
                      \/ job'[ask[k]].state = "active" /\ Sends(job'[ask[k]].question)
               PROVE  k \in since'[ask[k]]
    BY DEF SentSince, Sends
  <2>1. ask[k] \in Jobs
    BY DEF OwnJob
  <2>2. CASE ask[k] = j
    BY <2>2
  <2>3. CASE ask[k] # j
    BY <2>1, <2>3 DEF SentSince
  <2> QED
    BY <2>2, <2>3
<1> QED
  BY <1>1, <1>2, <1>3, <1>4

LEMMA TakeHolds ==
  ASSUME IInv, NEW w \in Workers, Take(w)
  PROVE  IInv'
<1> USE DEF IInv
<1> DEFINE j == Head(queue)
<1>1. /\ queue' \in Seq(Jobs) /\ Len(queue) \in Nat \ {0} /\ Len(queue') = Len(queue) - 1
      /\ j = queue[1] /\ j \in Jobs
      /\ \A i \in 1..Len(queue') : queue'[i] = queue[i + 1]
      /\ \A i \in 2..Len(queue) : i - 1 \in 1..Len(queue') /\ queue'[i - 1] = queue[i]
  BY Taken DEF Take
<1>2. /\ UNCHANGED callerVars /\ worker' = [worker EXCEPT ![w] = j]
      /\ job' = [job EXCEPT ![j].state = "active", ![j].owner = w]
      /\ IF Sends(job[j].question)
           THEN /\ sent' = [sent EXCEPT ![j] = @ + 1]
                /\ since' = [since EXCEPT ![j] = {k \in Callers : caller[k] # "idle"}]
           ELSE UNCHANGED <<sent, since>>
  BY DEF Take
<1>3. job[j].state = "waiting"
  BY <1>1 DEF LineOfWaiting
<1> HIDE DEF j
<1>4. job[j] \in JobRecords
  BY <1>1 DEF TypeOK
<1>5. /\ job'[j] = [job[j] EXCEPT !.state = "active", !.owner = w]
      /\ \A i \in Jobs \ {j} : job'[i] = job[i]
  BY <1>1, <1>2 DEF TypeOK
<1>6. /\ job'[j] \in JobRecords /\ job'[j].state = "active"
      /\ job'[j].question = job[j].question /\ job'[j].failures = job[j].failures
      /\ job'[j].stalls = job[j].stalls /\ job'[j].result = job[j].result
  BY <1>4, <1>5 DEF JobRecords
<1>7. job' \in [Jobs -> JobRecords]
  BY <1>1, <1>2, <1>5, <1>6 DEF TypeOK
<1>8. /\ sent' \in [Jobs -> Nat] /\ since' \in [Jobs -> SUBSET Callers]
      /\ worker' \in [Workers -> Jobs \cup {None}]
      /\ \A i \in Jobs \ {j} : sent'[i] = sent[i] /\ since'[i] = since[i]
      /\ sent'[j] = sent[j] \/ sent'[j] = sent[j] + 1
      /\ sent[j] \in Nat
  <2>1. worker' \in [Workers -> Jobs \cup {None}] /\ sent[j] \in Nat
    BY <1>1, <1>2 DEF TypeOK
  <2>2. CASE Sends(job[j].question)
    <3>1. /\ sent' = [sent EXCEPT ![j] = @ + 1]
          /\ since' = [since EXCEPT ![j] = {k \in Callers : caller[k] # "idle"}]
      BY <1>2, <2>2
    <3>2. sent' \in [Jobs -> Nat] /\ sent'[j] = sent[j] + 1
      BY <1>1, <3>1 DEF TypeOK
    <3>3. since' \in [Jobs -> SUBSET Callers]
      BY <1>1, <3>1 DEF TypeOK
    <3>4. \A i \in Jobs \ {j} : sent'[i] = sent[i] /\ since'[i] = since[i]
      BY <3>1 DEF TypeOK
    <3> QED
      BY <2>1, <3>2, <3>3, <3>4
  <2>3. CASE ~ Sends(job[j].question)
    BY <1>2, <2>1, <2>3 DEF TypeOK
  <2> QED
    BY <2>2, <2>3
<1>9. LineOfWaiting'
  <2>1. \A i \in 1..Len(queue') : queue'[i] \in Jobs \ {j} /\ job[queue'[i]].state = "waiting"
    BY <1>1 DEF LineOfWaiting
  <2>2. \A i, l \in 1..Len(queue') : queue'[i] = queue'[l] => i = l
    BY <1>1 DEF LineOfWaiting
  <2>3. ASSUME NEW l \in Jobs, job'[l].state = "waiting"
        PROVE  \E i \in 1..Len(queue') : queue'[i] = l
    <3>1. l # j /\ job[l].state = "waiting"
      BY <1>5, <1>6, <2>3
    <3>2. PICK i \in 1..Len(queue) : queue[i] = l
      BY <3>1 DEF LineOfWaiting
    <3>3. i \in 2..Len(queue)
      BY <1>1, <3>1, <3>2
    <3> QED
      BY <1>1, <3>2, <3>3
  <2> QED
    BY <1>5, <2>1, <2>2, <2>3 DEF LineOfWaiting
<1>10. RequestsCounted'
  <2>1. /\ sent[j] <= job[j].failures + job[j].stalls /\ job[j].failures < MaxAttempts
        /\ job[j].failures \in Nat /\ job[j].stalls \in 0..MaxStalled
    <3>1. job[j].failures \in 0..MaxAttempts /\ job[j].stalls \in 0..MaxStalled
      BY <1>4, JobTypes
    <3>2. /\ sent[j] <= job[j].failures + job[j].stalls
          /\ job[j].failures < MaxAttempts
      BY <1>1, <1>3 DEF RequestsCounted, Ended
    <3> QED
      BY <3>1, <3>2, QueueAssumption
  <2>2. /\ sent'[j] <= job[j].failures + job[j].stalls + 1
        /\ sent'[j] <= MaxAttempts + MaxStalled
    BY <1>8, <2>1, QueueAssumption
  <2>3. \A i \in Jobs \ {j} : job'[i] = job[i] /\ sent'[i] = sent[i]
    BY <1>5, <1>8
  <2>4. /\ sent'[j] <= job'[j].failures + job'[j].stalls + 1
        /\ job'[j].failures < MaxAttempts
    BY <1>6, <2>1, <2>2
  <2>5. job'[j].state \notin {"absent", "waiting", "delayed"}
    BY <1>6
  <2> SUFFICES ASSUME NEW i \in Jobs
               PROVE  /\ job'[i].state \in {"absent", "waiting", "delayed"}
                           => sent'[i] <= job'[i].failures + job'[i].stalls
                      /\ job'[i].state = "active"
                           => sent'[i] <= job'[i].failures + job'[i].stalls + 1
                      /\ job'[i].state \notin Ended => job'[i].failures < MaxAttempts
                      /\ sent'[i] <= MaxAttempts + MaxStalled
    BY DEF RequestsCounted
  <2>6. CASE i = j
    BY <2>2, <2>4, <2>5, <2>6
  <2>7. CASE i # j
    BY <2>3, <2>7 DEF RequestsCounted
  <2> QED
    BY <2>6, <2>7
<1>11. ResultsJudged'
  <2>1. job'[j].state # "completed" /\ job'[j].result = job[j].result
    BY <1>6
  <2>2. \A i \in Jobs \ {j} : job'[i] = job[i]
    BY <1>5
  <2> QED
    BY <1>1, <2>1, <2>2 DEF ResultsJudged
<1>12. sent'[j] > 0 => Sends(job[j].question)
  BY <1>1, <1>2, <1>8 DEF QuestionsKept
<1>13. Sends(job[j].question) => \A k \in Callers :
         ask[k] = j /\ caller[k] \in {"waiting", "ok"} => k \in since'[j]
  BY <1>1, <1>2 DEF TypeOK
<1>14. /\ job[j].state \notin {"absent", "completed"}
       /\ job'[j].state \notin {"absent", "completed"}
       /\ \A i \in Jobs \ {j} :
            job'[i] = job[i] /\ sent'[i] = sent[i] /\ since'[i] = since[i]
  BY <1>3, <1>5, <1>6, <1>8
<1>15. job'[j].question = job[j].question /\ UNCHANGED callerVars
  BY <1>2, <1>6
<1> QED
  BY <1>1, <1>7, <1>8, <1>9, <1>10, <1>11, <1>12, <1>13, <1>14, <1>15, JobMoves

LEMMA PromoteHolds ==
  ASSUME IInv, NEW j \in Jobs, Promote(j)
  PROVE  IInv'
<1> USE DEF IInv
<1>1. /\ job[j].state = "delayed" /\ UNCHANGED <<worker, sent, since>> /\ UNCHANGED callerVars
      /\ job' = [job EXCEPT ![j].state = "waiting"]
  BY DEF Promote
<1>2. /\ queue' \in Seq(Jobs) /\ Len(queue) \in Nat /\ Len(queue') = Len(queue) + 1
      /\ \A i \in 1..Len(queue) : queue'[i] = queue[i] /\ queue[i] \in Jobs
      /\ queue'[Len(queue) + 1] = j
  BY Joins DEF Promote, TypeOK
<1>3. job[j] \in JobRecords
  BY DEF TypeOK
<1>4. /\ job'[j] = [job[j] EXCEPT !.state = "waiting"]
      /\ \A i \in Jobs \ {j} : job'[i] = job[i]
  BY <1>1 DEF TypeOK
<1>5. /\ job'[j] \in JobRecords /\ job'[j].state = "waiting"
      /\ job'[j].question = job[j].question /\ job'[j].failures = job[j].failures
      /\ job'[j].stalls = job[j].stalls /\ job'[j].result = job[j].result
  BY <1>3, <1>4 DEF JobRecords
<1>6. job' \in [Jobs -> JobRecords]
  BY <1>1, <1>4, <1>5 DEF TypeOK
<1>7. LineOfWaiting'
  <2>1. \A i \in 1..Len(queue) : queue[i] # j
    BY <1>1 DEF LineOfWaiting
  <2>2. ASSUME NEW i \in 1..Len(queue') PROVE job'[queue'[i]].state = "waiting"
    <3>1. CASE i \in 1..Len(queue)
      BY <1>2, <1>4, <2>1, <3>1 DEF LineOfWaiting
    <3>2. CASE i = Len(queue) + 1
      BY <1>2, <1>5, <3>2
    <3> QED
      BY <1>2, <3>1, <3>2
  <2>3. \A i, l \in 1..Len(queue') : queue'[i] = queue'[l] => i = l
    BY <1>2, <2>1 DEF LineOfWaiting
  <2>4. \A l \in Jobs : job'[l].state = "waiting" => \E i \in 1..Len(queue') : queue'[i] = l
    BY <1>2, <1>4 DEF LineOfWaiting
  <2> QED
    BY <2>2, <2>3, <2>4 DEF LineOfWaiting
<1>8. RequestsCounted' /\ ResultsJudged'
  BY <1>1, <1>4, <1>5 DEF RequestsCounted, ResultsJudged, Ended
<1>9. sent'[j] > 0 => Sends(job[j].question)
  BY <1>1 DEF QuestionsKept
<1>10. sent' \in [Jobs -> Nat] /\ since' \in [Jobs -> SUBSET Callers]
       /\ worker' \in [Workers -> Jobs \cup {None}]
  BY <1>1 DEF TypeOK
<1> QED
  BY <1>1, <1>2, <1>4, <1>5, <1>6, <1>7, <1>8, <1>9, <1>10, JobMoves

LEMMA DieHolds ==
  ASSUME IInv, NEW w \in Workers, Die(w)
  PROVE  IInv'
<1> USE DEF IInv
<1>1. /\ worker' = [worker EXCEPT ![w] = None]
      /\ UNCHANGED <<caller, ask, asked, configured, events, job, queue, sent, since>>
  BY DEF Die, callerVars
<1>2. TypeOK' /\ OwnJob' /\ SentSince'
  BY <1>1 DEF TypeOK, OwnJob, SentSince, Sends
<1> QED
  BY <1>1, <1>2, CallersHold

\* The outcome of an attempt: a failure to be retried, the last failure, or a result.
LEMMA OutcomeRecord ==
  ASSUME IInv, NEW j \in Jobs, job[j].state = "active", NEW r,
         \/ r = AttemptFailed(job[j])
         \/ \E outcome \in Outcomes : outcome # None /\ r = Completed(job[j], outcome)
  PROVE  /\ r \in JobRecords
         /\ r.question = job[j].question /\ r.stalls = job[j].stalls
         /\ r.state \in {"completed", "failed", "delayed"}
         /\ r.state # "completed" =>
              r.failures = job[j].failures + 1 /\ r.result = job[j].result
         /\ r.state = "completed" => r.failures = job[j].failures /\ r.result \in Outcomes
                                     /\ r.result # None
         /\ r.state = "delayed" => r.failures < MaxAttempts
         /\ r.state = "completed" => r # AttemptFailed(job[j])
<1> USE DEF IInv
<1>1. /\ job[j] \in JobRecords /\ job[j].failures \in 0..MaxAttempts
      /\ job[j].failures < MaxAttempts
  BY JobTypes DEF TypeOK, RequestsCounted, Ended
<1>2. CASE r = AttemptFailed(job[j])
  <2>1. r = [job[j] EXCEPT !.failures = @ + 1, !.owner = None,
              !.state = IF job[j].failures + 1 >= MaxAttempts THEN "failed" ELSE "delayed"]
    BY <1>2 DEF AttemptFailed, Exhausted
  <2>2. job[j].failures + 1 \in 0..MaxAttempts
    BY <1>1, QueueAssumption
  <2>3. /\ r.question = job[j].question /\ r.stalls = job[j].stalls
        /\ r.failures = job[j].failures + 1 /\ r.result = job[j].result
        /\ r.state = IF job[j].failures + 1 >= MaxAttempts THEN "failed" ELSE "delayed"
    BY <1>1, <2>1 DEF JobRecords
  <2>4. r \in JobRecords
    BY <1>1, <2>1, <2>2 DEF JobRecords, Ended
  <2>5. r.state = "delayed" => r.failures < MaxAttempts
    BY <2>2, <2>3, QueueAssumption
  <2> QED
    BY <2>3, <2>4, <2>5
<1>3. CASE \E outcome \in Outcomes : outcome # None /\ r = Completed(job[j], outcome)
  <2>1. PICK outcome \in Outcomes : outcome # None /\ r = Completed(job[j], outcome)
    BY <1>3
  <2>2. outcome \in Results
    BY <2>1, OutcomesJudged
  <2>3. AttemptFailed(job[j]).state # "completed"
    BY <1>1 DEF AttemptFailed, JobRecords
  <2>4. r # AttemptFailed(job[j])
    BY <1>1, <2>1, <2>3 DEF Completed, JobRecords
  <2> QED
    BY <1>1, <2>1, <2>2, <2>4 DEF Completed, JobRecords, Ended
<1> QED
  BY <1>2, <1>3

\* Only the owner's outcome counts; a worker that lost its job is merely free again.
LEMMA DeliverHolds ==
  ASSUME IInv, NEW w \in Workers, worker[w] # None, NEW r, Deliver(w, r),
         \/ r = AttemptFailed(job[worker[w]])
         \/ /\ Sends(job[worker[w]].question)
            /\ \E outcome \in Outcomes :
                 outcome # None /\ r = Completed(job[worker[w]], outcome)
  PROVE  IInv'
<1> USE DEF IInv
<1> DEFINE j == worker[w]
<1>1. /\ job' = IF Owns(w) THEN [job EXCEPT ![j] = r] ELSE job
      /\ worker' = [worker EXCEPT ![w] = None]
      /\ UNCHANGED <<queue, sent, since>> /\ UNCHANGED callerVars
  BY DEF Deliver
<1>2. j \in Jobs
  BY DEF TypeOK
<1> HIDE DEF j
<1>3. CASE ~ Owns(w)
  <2>1. UNCHANGED <<caller, ask, asked, configured, events, job, queue, sent, since>>
    BY <1>1, <1>3 DEF callerVars
  <2>2. TypeOK' /\ OwnJob' /\ SentSince'
    BY <1>1, <2>1 DEF TypeOK, OwnJob, SentSince, Sends
  <2> QED
    BY <2>1, <2>2, CallersHold
<1>4. CASE Owns(w)
  <2>1. job[j].state = "active"
    BY <1>4 DEF Owns, j
  <2>2. /\ r \in JobRecords
        /\ r.question = job[j].question /\ r.stalls = job[j].stalls
        /\ r.state \in {"completed", "failed", "delayed"}
        /\ r.state # "completed" =>
             r.failures = job[j].failures + 1 /\ r.result = job[j].result
        /\ r.state = "completed" => r.failures = job[j].failures /\ r.result \in Outcomes
                                    /\ r.result # None
        /\ r.state = "delayed" => r.failures < MaxAttempts
        /\ r.state = "completed" => r # AttemptFailed(job[j])
    BY <1>2, <2>1, OutcomeRecord DEF j
  <2>3. /\ job'[j] = r /\ job' \in [Jobs -> JobRecords]
        /\ \A i \in Jobs \ {j} : job'[i] = job[i]
    BY <1>1, <1>2, <1>4, <2>2 DEF TypeOK
  <2>4. LineOfWaiting'
    <3>1. \A i \in 1..Len(queue) : queue[i] \in Jobs \ {j}
      BY <2>1 DEF LineOfWaiting, TypeOK
    <3>2. \A i \in 1..Len(queue) : job'[queue[i]].state = "waiting"
      BY <2>3, <3>1 DEF LineOfWaiting
    <3>3. \A l \in Jobs : job'[l].state = "waiting" => job[l].state = "waiting"
      BY <2>2, <2>3
    <3> QED
      BY <1>1, <3>2, <3>3 DEF LineOfWaiting
  <2>5. RequestsCounted'
    <3>1. /\ sent[j] <= job[j].failures + job[j].stalls + 1 /\ sent[j] \in Nat
          /\ sent[j] <= MaxAttempts + MaxStalled
          /\ job[j].failures \in Nat /\ job[j].stalls \in Nat
      BY <1>2, <2>1, JobTypes DEF RequestsCounted, TypeOK
    <3>2. r.state = "delayed" =>
            sent[j] <= r.failures + r.stalls /\ r.failures < MaxAttempts
      BY <2>2, <3>1
    <3>3. r.state \in Ended \cup {"delayed"} /\ r.state \notin {"absent", "waiting", "active"}
      BY <2>2 DEF Ended
    <3> SUFFICES ASSUME NEW i \in Jobs
                 PROVE  /\ job'[i].state \in {"absent", "waiting", "delayed"}
                             => sent[i] <= job'[i].failures + job'[i].stalls
                        /\ job'[i].state = "active"
                             => sent[i] <= job'[i].failures + job'[i].stalls + 1
                        /\ job'[i].state \notin Ended => job'[i].failures < MaxAttempts
                        /\ sent[i] <= MaxAttempts + MaxStalled
      BY <1>1 DEF RequestsCounted
    <3>4. CASE i = j
      BY <2>3, <3>1, <3>2, <3>3, <3>4
    <3>5. CASE i # j
      BY <2>3, <3>5 DEF RequestsCounted
    <3> QED
      BY <3>4, <3>5
  <2>6. ResultsJudged'
    <3>1. r.state = "completed" => r.result \in Results
      BY <2>2, OutcomesJudged
    <3>2. r.result # None =>
            (r.result.risk = "high" <=>
               \/ r.result.score # None /\ r.result.score >= HighRiskScore
               \/ /\ r.result.stolen # None
                  /\ \E s \in r.result.stolen : s >= StolenCoinsScore)
      <4>1. CASE r.state = "completed"
        BY <2>2, <4>1, OutcomesJudged
      <4>2. CASE r.state # "completed"
        BY <1>2, <2>2, <4>2 DEF ResultsJudged
      <4> QED
        BY <4>1, <4>2
    <3> QED
      BY <2>3, <3>1, <3>2 DEF ResultsJudged
  <2>7. r.state = "completed" =>
          \A k \in Callers : ask[k] = j /\ caller[k] \in {"waiting", "ok"} => k \in since[j]
    <3>1. r.state = "completed" => Sends(job[j].question)
      BY <2>2 DEF j
    <3> QED
      BY <2>1, <3>1 DEF SentSince
  <2>8. sent[j] > 0 => Sends(job[j].question)
    BY <1>2 DEF QuestionsKept
  <2>9. /\ job[j].state \notin {"absent", "completed"}
        /\ job'[j].state \notin {"absent", "active"}
        /\ job'[j].question = job[j].question
    BY <2>1, <2>2, <2>3
  <2>10. /\ queue' \in Seq(Jobs) /\ sent' \in [Jobs -> Nat]
         /\ since' \in [Jobs -> SUBSET Callers] /\ worker' \in [Workers -> Jobs \cup {None}]
    BY <1>1 DEF TypeOK
  <2> QED
    BY <1>1, <1>2, <2>3, <2>4, <2>5, <2>6, <2>7, <2>8, <2>9, <2>10, JobMoves
<1> QED
  BY <1>3, <1>4

LEMMA AnsweredHolds ==
  ASSUME IInv, NEW w \in Workers, Answered(w)
  PROVE  IInv'
<1>1. CASE Refuse(w)
  BY <1>1, DeliverHolds DEF Refuse
<1>2. ASSUME NEW outcome \in Outcomes, Receive(w, outcome) PROVE IInv'
  <2>1. CASE outcome = None
    BY <1>2, <2>1, DeliverHolds DEF Receive
  <2>2. CASE outcome # None
    BY <1>2, <2>2, DeliverHolds DEF Receive
  <2> QED
    BY <2>1, <2>2
<1> QED
  BY <1>1, <1>2 DEF Answered

LEMMA StallHolds ==
  ASSUME IInv, NEW j \in Jobs, Stall(j)
  PROVE  IInv'
<1> USE DEF IInv
<1>1. /\ job[j].state = "active" /\ UNCHANGED <<worker, sent, since>> /\ UNCHANGED callerVars
      /\ job[j] \in JobRecords
  BY DEF Stall, TypeOK
<1>2. /\ job[j].failures \in 0..MaxAttempts /\ job[j].stalls \in 0..MaxStalled
      /\ sent[j] <= job[j].failures + job[j].stalls + 1 /\ job[j].failures < MaxAttempts
      /\ sent[j] <= MaxAttempts + MaxStalled
  BY <1>1, JobTypes DEF RequestsCounted, Ended
<1>3. sent' \in [Jobs -> Nat] /\ since' \in [Jobs -> SUBSET Callers]
      /\ worker' \in [Workers -> Jobs \cup {None}]
      /\ \A i \in Jobs \ {j} : sent'[i] = sent[i] /\ since'[i] = since[i]
  BY <1>1 DEF TypeOK
<1>4. sent'[j] > 0 => Sends(job[j].question)
  BY <1>1 DEF QuestionsKept
<1>5. CASE job[j].stalls < MaxStalled
  <2>1. /\ job' = [job EXCEPT ![j].state = "waiting", ![j].owner = None, ![j].stalls = @ + 1]
        /\ queue' = <<j>> \o queue
    BY <1>5 DEF Stall
  <2>2. /\ job'[j] = [job[j] EXCEPT !.state = "waiting", !.owner = None, !.stalls = @ + 1]
        /\ \A i \in Jobs \ {j} : job'[i] = job[i]
    BY <2>1 DEF TypeOK
  <2>3. job[j].stalls + 1 \in 0..MaxStalled
    BY <1>2, <1>5, QueueAssumption
  <2>4. /\ job'[j] \in JobRecords /\ job'[j].state = "waiting"
        /\ job'[j].question = job[j].question /\ job'[j].failures = job[j].failures
        /\ job'[j].stalls = job[j].stalls + 1 /\ job'[j].result = job[j].result
    BY <1>1, <2>2, <2>3 DEF JobRecords
  <2>5. job' \in [Jobs -> JobRecords]
    BY <2>1, <2>2, <2>4 DEF TypeOK
  <2>6. /\ queue' \in Seq(Jobs) /\ Len(queue) \in Nat /\ Len(queue') = Len(queue) + 1
        /\ queue'[1] = j
        /\ \A i \in 1..Len(queue) : queue'[i + 1] = queue[i]
        /\ \A i \in 2..Len(queue') : i - 1 \in 1..Len(queue) /\ queue'[i] = queue[i - 1]
    BY <2>1, GoesFirst
  <2>7. LineOfWaiting'
    <3>1. \A i \in 1..Len(queue) : queue[i] \in Jobs \ {j} /\ job[queue[i]].state = "waiting"
      BY <1>1 DEF LineOfWaiting, TypeOK
    <3>2. \A i \in 2..Len(queue') :
            queue'[i] \in Jobs \ {j} /\ job'[queue'[i]].state = "waiting"
      BY <2>2, <2>6, <3>1
    <3>3. \A i \in 1..Len(queue') : i = 1 \/ i \in 2..Len(queue')
      BY <2>6
    <3>4. \A i \in 1..Len(queue') : job'[queue'[i]].state = "waiting"
      BY <2>4, <2>6, <3>2, <3>3
    <3>5. \A i, l \in 1..Len(queue') : queue'[i] = queue'[l] => i = l
      <4>1. ASSUME NEW i \in 2..Len(queue'), NEW l \in 2..Len(queue'), queue'[i] = queue'[l]
            PROVE  i - 1 = l - 1
        <5>1. /\ i - 1 \in 1..Len(queue) /\ l - 1 \in 1..Len(queue)
              /\ queue[i - 1] = queue[l - 1]
          BY <2>6, <4>1
        <5> QED
          BY <5>1 DEF LineOfWaiting
      <4>2. \A i, l \in 2..Len(queue') : i - 1 = l - 1 => i = l
        BY <2>6
      <4> QED
        BY <2>6, <3>2, <3>3, <4>1, <4>2
    <3>6. ASSUME NEW l \in Jobs, job'[l].state = "waiting"
          PROVE  \E i \in 1..Len(queue') : queue'[i] = l
      <4>1. CASE l = j
        BY <2>6, <4>1
      <4>2. CASE l # j
        <5>1. PICK i \in 1..Len(queue) : queue[i] = l
          BY <2>2, <3>6, <4>2 DEF LineOfWaiting
        <5>2. i + 1 \in 1..Len(queue')
          BY <2>6
        <5> QED
          BY <2>6, <5>1, <5>2
      <4> QED
        BY <4>1, <4>2
    <3> QED
      BY <3>4, <3>5, <3>6 DEF LineOfWaiting
  <2>8. RequestsCounted'
    <3>1. sent[j] <= job'[j].failures + job'[j].stalls /\ job'[j].failures < MaxAttempts
      BY <1>2, <2>4
    <3> QED
      BY <1>1, <1>2, <2>2, <2>4, <3>1 DEF RequestsCounted
  <2>9. ResultsJudged'
    <3>1. job'[j].state # "completed" /\ job'[j].result = job[j].result
      BY <2>4
    <3>2. \A i \in Jobs \ {j} : job'[i] = job[i]
      BY <2>2
    <3> QED
      BY <3>1, <3>2 DEF ResultsJudged
  <2>10. job'[j].state \notin {"absent", "active", "completed"}
         /\ job[j].state \notin {"absent", "completed"} /\ job'[j].question = job[j].question
    BY <1>1, <2>4
  <2>11. \A i \in Jobs \ {j} : job'[i] = job[i] /\ sent'[i] = sent[i] /\ since'[i] = since[i]
    BY <1>3, <2>2
  <2> QED
    BY <1>1, <1>3, <1>4, <2>5, <2>6, <2>7, <2>8, <2>9, <2>10, <2>11, JobMoves
<1>6. CASE ~ (job[j].stalls < MaxStalled)
  <2>1. /\ job' = [job EXCEPT ![j].state = "failed", ![j].owner = None]
        /\ UNCHANGED queue
    BY <1>6 DEF Stall
  <2>2. /\ job'[j] = [job[j] EXCEPT !.state = "failed", !.owner = None]
        /\ \A i \in Jobs \ {j} : job'[i] = job[i]
    BY <2>1 DEF TypeOK
  <2>3. /\ job'[j] \in JobRecords /\ job'[j].state = "failed"
        /\ job'[j].question = job[j].question /\ job'[j].result = job[j].result
    BY <1>1, <2>2 DEF JobRecords, Ended
  <2>4. job' \in [Jobs -> JobRecords] /\ queue' \in Seq(Jobs)
    BY <2>1, <2>2, <2>3 DEF TypeOK
  <2>5. LineOfWaiting'
    <3>1. \A i \in 1..Len(queue) : queue[i] \in Jobs \ {j}
      BY <1>1 DEF LineOfWaiting, TypeOK
    <3>2. \A i \in 1..Len(queue) : job'[queue[i]].state = "waiting"
      BY <2>2, <3>1 DEF LineOfWaiting
    <3>3. \A l \in Jobs : job'[l].state = "waiting" => job[l].state = "waiting"
      BY <2>2, <2>3
    <3> QED
      BY <2>1, <3>2, <3>3 DEF LineOfWaiting
  <2>6. RequestsCounted'
    BY <1>1, <1>2, <2>2, <2>3 DEF RequestsCounted, Ended
  <2>7. ResultsJudged'
    <3>1. job'[j].state # "completed" /\ job'[j].result = job[j].result
      BY <2>3
    <3>2. \A i \in Jobs \ {j} : job'[i] = job[i]
      BY <2>2
    <3> QED
      BY <3>1, <3>2 DEF ResultsJudged
  <2>8. job'[j].state \notin {"absent", "active", "completed"}
        /\ job[j].state \notin {"absent", "completed"} /\ job'[j].question = job[j].question
    BY <1>1, <2>3
  <2>9. \A i \in Jobs \ {j} : job'[i] = job[i] /\ sent'[i] = sent[i] /\ since'[i] = since[i]
    BY <1>3, <2>2
  <2> QED
    BY <1>1, <1>3, <1>4, <2>4, <2>5, <2>6, <2>7, <2>8, <2>9, JobMoves
<1> QED
  BY <1>5, <1>6

LEMMA StepHolds == IInv /\ [Next]_vars => IInv'
<1> SUFFICES ASSUME IInv, [Next]_vars PROVE IInv'
  OBVIOUS
<1>1. ASSUME NEW k \in Callers, NEW q \in Questions, Ask(k, q) \/ AskFails(k, q) PROVE IInv'
  BY <1>1, AskHolds, AskFailsHolds
<1>2. ASSUME NEW k \in Callers, Notice(k) \/ TimesOut(k) \/ Leave(k) PROVE IInv'
  BY <1>2, CallerSteps
<1>3. ASSUME NEW w \in Workers, Take(w) \/ Answered(w) \/ Die(w) PROVE IInv'
  BY <1>3, TakeHolds, AnsweredHolds, DieHolds
<1>4. ASSUME NEW j \in Jobs, Promote(j) \/ Stall(j) PROVE IInv'
  BY <1>4, PromoteHolds, StallHolds
<1>5. CASE UNCHANGED vars
  <2>1. UNCHANGED <<caller, ask, asked, job, queue, worker, configured, events, sent, since>>
    BY <1>5 DEF vars
  <2>2. TypeOK' /\ OwnJob' /\ SentSince'
    BY <2>1 DEF IInv, TypeOK, OwnJob, SentSince, Sends
  <2> QED
    BY <2>1, <2>2, CallersHold
<1> QED
  BY <1>1, <1>2, <1>3, <1>4, <1>5, CloseHolds DEF Next

\* Every step of a caller, of a worker and of BullMQ keeps the invariant.
THEOREM Inductive == Spec => []IInv
BY InitHolds, StepHolds, PTL DEF Spec

-----------------------------------------------------------------------------
(* What follows for callers and the provider. *)

\* Every variable keeps its type: no job fails or is handed over more often than it may.
THEOREM TypeCorrect == Spec => []TypeOK
BY Inductive, PTL DEF IInv

\* A caller is answered about the address and network it asked for, with a result that the
\* provider gave to a request sent after the caller asked.
THEOREM AnswerIsOwnHolds == Spec => []AnswerIsOwn
<1>1. IInv => AnswerIsOwn
  BY DEF IInv, OwnJob, SentSince, ResultsJudged, AnswerIsOwn
<1> QED
  BY <1>1, Inductive, PTL

\* Retries, hand-overs of stalled jobs and workers that live on after them together send
\* no more than the attempts and the hand-overs there may be.
THEOREM RequestsBoundedHolds == Spec => []RequestsBounded
<1>1. IInv => RequestsBounded
  BY DEF IInv, RequestsCounted, RequestsBounded
<1> QED
  BY <1>1, Inductive, PTL

\* What the schema or the configuration rejects never reaches the provider.
THEOREM RejectedNeverSentHolds == Spec => []RejectedNeverSent
<1>1. IInv => RejectedNeverSent
  BY DEF IInv, QuestionsKept, RejectedNeverSent, Sends, Valid
<1> QED
  BY <1>1, Inductive, PTL

\* Every waiting job stands in line once, through retries, hand-overs and lost answers.
THEOREM InLineOnceHolds == Spec => []InLineOnce
<1>1. IInv => InLineOnce
  <2> SUFFICES ASSUME IInv, NEW j \in Jobs
               PROVE  LET places == {i \in DOMAIN queue : queue[i] = j}
                      IN  IF job[j].state = "waiting"
                            THEN \E i \in places : places = {i} ELSE places = {}
    BY DEF InLineOnce
  <2>1. DOMAIN queue = 1..Len(queue)
    BY DEF IInv, TypeOK
  <2> QED
    BY <2>1 DEF IInv, LineOfWaiting
<1> QED
  BY <1>1, Inductive, PTL

\* isHighRisk is monotone: of any two results that jobs come to, with any score and any
\* number of signals, one that is no better than a result of high risk is of high risk.
THEOREM MoreIsWorseHolds == Spec => []MoreIsWorse
<1>1. IInv => MoreIsWorse
  <2> SUFFICES ASSUME IInv, NEW i \in Jobs, NEW j \in Jobs,
                      job[i].result # None, job[j].result # None, job[i].result.risk = "high",
                      NoBetter(job[i].result, job[j].result)
               PROVE  job[j].result.risk = "high"
    BY DEF MoreIsWorse
  <2> DEFINE r == job[i].result
             t == job[j].result
  <2>1. r \in Results /\ t \in Results
    BY JobTypes DEF IInv, TypeOK
  <2>2. /\ r.score \in Scores \cup {None} /\ t.score \in Scores \cup {None}
        /\ r.stolen \in {None} \cup SUBSET SignalScores
        /\ t.stolen \in {None} \cup SUBSET SignalScores
        /\ Scores \subseteq 0..100 /\ SignalScores \subseteq 0..100
    BY <2>1, QueueAssumption DEF Results, Signals
  <2>3. \/ r.score # None /\ r.score >= HighRiskScore
        \/ r.stolen # None /\ \E s \in r.stolen : s >= StolenCoinsScore
    BY DEF IInv, ResultsJudged
  <2>4. CASE r.score # None /\ r.score >= HighRiskScore
    <3>1. t.score # None /\ t.score >= HighRiskScore
      <4>1. r.score \in 0..100 /\ t.score # None /\ t.score >= r.score
        BY <2>2, <2>4 DEF NoBetter
      <4>2. t.score \in 0..100
        BY <2>2, <4>1
      <4> HIDE DEF r, t
      <4> QED
        BY <2>4, <4>1, <4>2 DEF HighRiskScore
    <3> QED
      BY <3>1 DEF IInv, ResultsJudged
  <2>5. CASE r.stolen # None /\ \E s \in r.stolen : s >= StolenCoinsScore
    <3>1. PICK s \in r.stolen : s >= StolenCoinsScore
      BY <2>5
    <3>2. PICK u \in t.stolen : u >= s
      BY <2>5, <3>1 DEF NoBetter
    <3>3. t.stolen # None /\ s \in 0..100 /\ u \in 0..100
      BY <2>2, <2>5, <3>1, <3>2 DEF NoBetter
    <3>4. u >= StolenCoinsScore
      <4> HIDE DEF r, t
      <4> QED
        BY <3>1, <3>2, <3>3 DEF StolenCoinsScore
    <3> QED
      BY <3>2, <3>3, <3>4 DEF IInv, ResultsJudged
  <2> QED
    BY <2>3, <2>4, <2>5
<1> QED
  BY <1>1, Inductive, PTL

\* An ended job keeps its outcome: BullMQ hands out waiting jobs only, and takes an outcome
\* from the owner only.
THEOREM OutcomeIsFinalHolds == Spec => OutcomeIsFinal
<1>1. ASSUME IInv, [Next]_vars, NEW j \in Jobs, job[j].state \in Ended
      PROVE  job'[j] = job[j]
  <2> USE <1>1 DEF IInv
  <2>0. job[j].state \notin {"absent", "waiting", "active", "delayed"}
    BY DEF Ended
  <2>1. ASSUME NEW k \in Callers, NEW q \in Questions, Ask(k, q) \/ AskFails(k, q)
        PROVE  job'[j] = job[j]
    BY <2>0, <2>1 DEF Ask, AskFails, AddJob, IsNew, TypeOK
  <2>2. ASSUME NEW k \in Callers, Notice(k) \/ TimesOut(k) \/ Leave(k)
        PROVE  job'[j] = job[j]
    BY <2>2 DEF Notice, TimesOut, Leave
  <2>3. ASSUME NEW w \in Workers, Take(w) PROVE job'[j] = job[j]
    <3>1. Head(queue) \in Jobs /\ Head(queue) # j
      BY <2>0, <2>3, Taken DEF Take, LineOfWaiting
    <3> QED
      BY <2>3, <3>1 DEF Take, TypeOK
  <2>4. ASSUME NEW w \in Workers, Answered(w) PROVE job'[j] = job[j]
    BY <2>0, <2>4 DEF Answered, Refuse, Receive, Deliver, Owns, TypeOK
  <2>5. ASSUME NEW w \in Workers, Die(w) PROVE job'[j] = job[j]
    BY <2>5 DEF Die
  <2>6. ASSUME NEW i \in Jobs, Promote(i) \/ Stall(i) PROVE job'[j] = job[j]
    BY <2>0, <2>6 DEF Promote, Stall, TypeOK
  <2>7. CASE Close \/ UNCHANGED vars
    BY <2>7 DEF Close, vars
  <2> QED
    BY <2>1, <2>2, <2>3, <2>4, <2>5, <2>6, <2>7 DEF Next
<1>2. IInv /\ [Next]_vars =>
        [\A j \in Jobs : job[j].state \in Ended => job'[j] = job[j]]_vars
  BY <1>1
<1> QED
  BY <1>2, Inductive, PTL DEF Spec, OutcomeIsFinal

-----------------------------------------------------------------------------
(* The queue implements the port. *)

\* Each caller that waits or has an answer has a job to itself.
JobsApart ==
  \A k, l \in Callers :
    caller[k] \in {"waiting", "ok"} /\ caller[l] \in {"waiting", "ok"} /\ ask[k] = ask[l]
      => k = l

\* A job is sent once it is there.
Unsent == \A j \in Jobs : job[j].state = "absent" => since[j] = {}

LEMMA ApartHolds == Spec => [](JobsApart /\ Unsent)
<1>1. Init => JobsApart /\ Unsent
  BY DEF Init, JobsApart, Unsent
<1>2. ASSUME IInv, IInv', JobsApart, Unsent, [Next]_vars PROVE JobsApart' /\ Unsent'
  <2> USE <1>2 DEF IInv
  <2>1. ASSUME NEW k \in Callers, NEW q \in Questions, Ask(k, q)
        PROVE  JobsApart' /\ Unsent'
    <3>1. PICK j \in Jobs : /\ job[j].state = "absent" /\ ask' = [ask EXCEPT ![k] = j]
                            /\ AddJob(j, q)
      BY <2>1 DEF Ask, IsNew
    <3>2. \A l \in Callers \ {k} : caller'[l] = caller[l] /\ ask'[l] = ask[l]
      BY <2>1, <3>1 DEF Ask, TypeOK
    <3>3. ask'[k] = j
      BY <3>1 DEF TypeOK
    <3>4. \A l \in Callers : caller[l] \in {"waiting", "ok"} => ask[l] # j
      BY <3>1 DEF OwnJob
    <3>5. JobsApart'
      BY <3>2, <3>3, <3>4 DEF JobsApart
    <3>6. Unsent'
      BY <2>1, <3>1 DEF Ask, AddJob, Unsent, TypeOK
    <3> QED
      BY <3>5, <3>6
  <2>2. ASSUME NEW k \in Callers, NEW q \in Questions, AskFails(k, q)
        PROVE  JobsApart' /\ Unsent'
    <3>1. JobsApart'
      BY <2>2 DEF AskFails, JobsApart, TypeOK
    <3>2. Unsent'
      BY <2>2 DEF AskFails, AddJob, Unsent, TypeOK
    <3> QED
      BY <3>1, <3>2
  <2>3. ASSUME NEW k \in Callers, Notice(k) \/ TimesOut(k) PROVE JobsApart' /\ Unsent'
    BY <2>3 DEF Notice, TimesOut, JobsApart, Unsent, TypeOK
  <2>4. ASSUME NEW k \in Callers, Leave(k) PROVE JobsApart' /\ Unsent'
    BY <2>4 DEF Leave, JobsApart, Unsent, TypeOK
  <2>5. CASE Close
    BY <2>5 DEF Close, JobsApart, Unsent, TypeOK
  <2>6. ASSUME NEW w \in Workers, Take(w) PROVE JobsApart' /\ Unsent'
    <3>1. Head(queue) \in Jobs /\ job[Head(queue)].state = "waiting"
      BY <2>6, Taken DEF Take, LineOfWaiting
    <3>2. JobsApart'
      BY <2>6 DEF Take, callerVars, JobsApart
    <3>3. ASSUME NEW j \in Jobs, job'[j].state = "absent" PROVE since'[j] = {}
      <4>1. j # Head(queue) /\ job[j].state = "absent"
        BY <2>6, <3>1, <3>3 DEF Take, TypeOK
      <4>2. since'[j] = since[j]
        BY <2>6, <4>1 DEF Take, TypeOK
      <4> QED
        BY <4>1, <4>2 DEF Unsent
    <3> QED
      BY <3>2, <3>3 DEF Unsent
  <2>7. ASSUME NEW w \in Workers, Answered(w) \/ Die(w) PROVE JobsApart' /\ Unsent'
    <3>1. UNCHANGED <<caller, ask, since>>
      BY <2>7 DEF Answered, Refuse, Receive, Deliver, Die, callerVars
    <3>2. \A j \in Jobs : job'[j].state = "absent" => job[j].state = "absent"
      <4>1. CASE Die(w)
        BY <4>1 DEF Die
      <4>2. ASSUME NEW r, Deliver(w, r),
                   r = AttemptFailed(job[worker[w]])
                     \/ \E outcome \in Outcomes : r = Completed(job[worker[w]], outcome)
            PROVE  \A j \in Jobs : job'[j].state = "absent" => job[j].state = "absent"
        <5>1. Owns(w) => worker[w] \in Jobs /\ job[worker[w]] \in JobRecords
          BY DEF Owns, TypeOK
        <5>2. Owns(w) => r.state # "absent"
          BY <4>2, <5>1 DEF AttemptFailed, Completed, JobRecords
        <5> HIDE DEF IInv
        <5> QED
          BY <4>2, <5>2 DEF Deliver, Owns, TypeOK
      <4> QED
        BY <2>7, <4>1, <4>2 DEF Answered, Refuse, Receive
    <3> QED
      BY <3>1, <3>2 DEF JobsApart, Unsent
  <2>8. ASSUME NEW j \in Jobs, Promote(j) \/ Stall(j) PROVE JobsApart' /\ Unsent'
    <3>1. UNCHANGED <<caller, ask, since>>
      BY <2>8 DEF Promote, Stall, callerVars
    <3>2. job[j].state # "absent" /\ \A i \in Jobs \ {j} : job'[i] = job[i]
      BY <2>8 DEF Promote, Stall, TypeOK
    <3>3. job'[j].state # "absent"
      BY <2>8 DEF Promote, Stall, TypeOK, JobRecords
    <3> QED
      BY <3>1, <3>2, <3>3 DEF JobsApart, Unsent
  <2>9. CASE UNCHANGED vars
    BY <2>9 DEF vars, JobsApart, Unsent
  <2> QED
    BY <2>1, <2>2, <2>3, <2>4, <2>5, <2>6, <2>7, <2>8, <2>9 DEF Next
<1> QED
  BY <1>1, <1>2, Inductive, PTL DEF Spec

\* A caller about whom nothing changes that it can see.
Still(k) == portStage'[k] = portStage[k] /\ portResult'[k] = portResult[k]
                                        /\ asked'[k] = asked[k]

LEMMA StillFrom ==
  ASSUME NEW k \in Callers,
         caller'[k] = caller[k], ask'[k] = ask[k], asked'[k] = asked[k],
         caller[k] \in {"waiting", "ok"} =>
           /\ job'[ask[k]].state = "completed" <=> job[ask[k]].state = "completed"
           /\ job'[ask[k]].result = job[ask[k]].result
           /\ job'[ask[k]].question = job[ask[k]].question
           /\ k \in since'[ask[k]] <=> k \in since[ask[k]]
  PROVE  Still(k)
<1>1. caller[k] = "waiting" => Progress(k)' = Progress(k)
  BY DEF Progress
<1>2. portStage'[k] = portStage[k]
  BY <1>1 DEF portStage
<1>3. portResult'[k] = portResult[k]
  BY DEF portResult
<1> QED
  BY <1>2, <1>3 DEF Still

LEMMA NoneMoves ==
  ASSUME TypeOK, TypeOK', \A l \in Callers : Still(l)
  PROVE  UNCHANGED Port!vars
<1>1. portStage' = portStage /\ portResult' = portResult
  BY DEF Still, portStage, portResult
<1>2. asked' = asked
  BY DEF Still, TypeOK
<1> QED
  BY <1>1, <1>2 DEF Port!vars

LEMMA OneMoves ==
  ASSUME TypeOK, TypeOK', NEW k \in Callers, \A l \in Callers \ {k} : Still(l)
  PROVE  /\ portStage' = [portStage EXCEPT ![k] = portStage'[k]]
         /\ portResult' = [portResult EXCEPT ![k] = portResult'[k]]
         /\ asked' = [asked EXCEPT ![k] = asked'[k]]
<1>1. portStage' = [portStage EXCEPT ![k] = portStage'[k]]
  BY DEF Still, portStage
<1>2. portResult' = [portResult EXCEPT ![k] = portResult'[k]]
  BY DEF Still, portResult
<1>3. asked' = [asked EXCEPT ![k] = asked'[k]]
  BY DEF Still, TypeOK
<1> QED
  BY <1>1, <1>2, <1>3

\* Asking, with a job or without.
LEMMA AskIsPort ==
  ASSUME IInv, IInv', Unsent, NEW k \in Callers, NEW q \in Questions,
         Ask(k, q) \/ AskFails(k, q)
  PROVE  Port!Next
<1> USE DEF IInv
<1>1. /\ caller[k] = "idle" /\ since' = since /\ asked'[k] = q
      /\ \A l \in Callers \ {k} : /\ caller'[l] = caller[l] /\ ask'[l] = ask[l]
                                  /\ asked'[l] = asked[l]
      /\ caller'[k] \in {"waiting", "refused"}
      /\ caller'[k] = "waiting" =>
           \E j \in Jobs : IsNew(j, q) /\ AddJob(j, q) /\ ask'[k] = j
      /\ \A j \in Jobs : job[j].state # "absent" => job'[j] = job[j]
  BY DEF Ask, AskFails, workVars, TypeOK, IsNew, AddJob
<1>2. \A l \in Callers \ {k} : Still(l)
  BY <1>1, StillFrom DEF OwnJob
<1>3. /\ portStage[k] = "idle"
      /\ portResult[k] = None
  BY <1>1 DEF portStage, portResult
<1>4. portStage'[k] \in {"asked", "failed"} /\ portResult'[k] = None
  <2>1. CASE caller'[k] = "refused"
    BY <2>1 DEF portStage, portResult
  <2>2. CASE caller'[k] = "waiting"
    <3>1. PICK j \in Jobs : IsNew(j, q) /\ AddJob(j, q) /\ ask'[k] = j
      BY <1>1, <2>2
    <3>2. job'[j].state = "waiting"
      <4>1. job' = [job EXCEPT ![j] = [Absent EXCEPT !.state = "waiting", !.question = q]]
        BY <3>1 DEF IsNew, AddJob
      <4> QED
        BY <4>1 DEF Absent, TypeOK
    <3>3. k \notin since[j]
      BY <1>1, <3>1 DEF Unsent, IsNew
    <3> QED
      BY <1>1, <2>2, <3>1, <3>2, <3>3 DEF portStage, portResult, Progress
  <2> QED
    BY <1>1, <2>1, <2>2
<1>5. Port!Ask(k, q)
  BY <1>1, <1>2, <1>3, <1>4, OneMoves DEF Port!Ask, Port!Goto, portResult
<1> QED
  BY <1>5 DEF Port!Next

\* The wait ends with what the job came to, or without it.
LEMMA WaitEndsIsPort ==
  ASSUME IInv, IInv', NEW k \in Callers, Notice(k) \/ TimesOut(k)
  PROVE  Port!Next
<1> USE DEF IInv
<1>1. /\ caller[k] = "waiting" /\ UNCHANGED <<ask, asked, job, since>>
      /\ caller'[k] \in {"ok", "failed"}
      /\ caller'[k] = "ok" => job[ask[k]].state = "completed"
      /\ \A l \in Callers \ {k} : caller'[l] = caller[l]
  BY DEF Notice, TimesOut, workVars, TypeOK
<1>2. \A l \in Callers \ {k} : Still(l)
  BY <1>1, StillFrom
<1>3. /\ portStage' = [portStage EXCEPT ![k] = portStage'[k]]
      /\ portResult' = [portResult EXCEPT ![k] = portResult'[k]]
      /\ portStage[k] \in {"asked", "sent", "said"}
  BY <1>1, <1>2, OneMoves DEF portStage, Progress
<1>4. CASE caller'[k] = "ok"
  <2>1. portStage[k] = "said" /\ portStage'[k] = "told" /\ portResult'[k] = portResult[k]
    BY <1>1, <1>4 DEF portStage, Progress, portResult
  <2>2. portResult' = portResult
    BY <1>3, <2>1 DEF portResult
  <2> QED
    BY <1>1, <1>3, <2>1, <2>2 DEF Port!Next, Port!Tell, Port!Goto
<1>5. CASE caller'[k] = "failed"
  <2>1. portStage'[k] = "failed" /\ portResult'[k] = None
    BY <1>5 DEF portStage, portResult
  <2>2. portStage' = [l \in Callers |-> IF l \in {k} THEN "failed" ELSE portStage[l]]
    BY <1>3, <2>1 DEF portStage
  <2>3. portResult' = [l \in Callers |-> IF l \in {k} THEN None ELSE portResult[l]]
    BY <1>3, <2>1 DEF portResult
  <2>4. Port!Fail({k})
    BY <1>1, <1>3, <2>2, <2>3 DEF Port!Fail
  <2> QED
    BY <2>4 DEF Port!Next
<1> QED
  BY <1>1, <1>4, <1>5

LEMMA LeaveIsPort ==
  ASSUME IInv, IInv', NEW k \in Callers, Leave(k)
  PROVE  Port!Next
<1> USE DEF IInv
<1>1. /\ caller[k] \in {"ok", "failed", "refused"} /\ UNCHANGED job
      /\ caller'[k] = "idle" /\ asked'[k] = None
      /\ \A l \in Callers \ {k} : /\ caller'[l] = caller[l] /\ ask'[l] = ask[l]
                                  /\ asked'[l] = asked[l]
                                  /\ \A j \in Jobs : l \in since'[j] <=> l \in since[j]
  BY DEF Leave, workVars, TypeOK
<1>2. \A l \in Callers \ {k} : Still(l)
  BY <1>1, StillFrom DEF OwnJob
<1>3. portStage[k] \in {"told", "failed"} /\ portStage'[k] = "idle" /\ portResult'[k] = None
  BY <1>1 DEF portStage, portResult
<1> QED
  BY <1>1, <1>2, <1>3, OneMoves DEF Port!Next, Port!Leave, Port!Goto

LEMMA CloseIsPort ==
  ASSUME IInv, IInv', Close
  PROVE  Port!Next
<1> USE DEF IInv
<1> DEFINE K == {k \in Callers : caller[k] = "waiting"}
<1>1. /\ caller' = [k \in Callers |-> IF k \in K THEN "failed" ELSE caller[k]]
      /\ UNCHANGED <<ask, asked, job, since>>
  BY DEF Close
<1>2. \A k \in K : portStage[k] \in {"asked", "sent", "said"}
  BY DEF portStage, Progress
<1>3. portStage' = [k \in Callers |-> IF k \in K THEN "failed" ELSE portStage[k]]
  BY <1>1 DEF portStage, Progress
<1>4. portResult' = [k \in Callers |-> IF k \in K THEN None ELSE portResult[k]]
  BY <1>1 DEF portResult
<1>5. Port!Fail(K) /\ K \in SUBSET Callers
  BY <1>1, <1>2, <1>3, <1>4 DEF Port!Fail
<1> QED
  BY <1>5 DEF Port!Next

\* A step of one job that no caller can see.
LEMMA HiddenStep ==
  ASSUME IInv, IInv', UNCHANGED <<caller, ask, asked, since>>,
         \A j \in Jobs : job'[j] = job[j] \/
           /\ job[j].state # "completed" /\ job'[j].state # "completed"
           /\ job'[j].question = job[j].question /\ job'[j].result = job[j].result
  PROVE  UNCHANGED Port!vars
<1>1. \A l \in Callers : Still(l)
  BY StillFrom DEF IInv, OwnJob
<1> QED
  BY <1>1, NoneMoves DEF IInv

LEMMA HiddenSteps ==
  ASSUME IInv, IInv',
         \/ \E w \in Workers : Die(w)
         \/ \E j \in Jobs : Promote(j) \/ Stall(j)
  PROVE  UNCHANGED Port!vars
<1>1. ASSUME NEW w \in Workers, Die(w) PROVE UNCHANGED Port!vars
  BY <1>1, HiddenStep DEF Die, callerVars
<1>2. ASSUME NEW j \in Jobs, Promote(j) \/ Stall(j) PROVE UNCHANGED Port!vars
  <2>1. UNCHANGED <<caller, ask, asked, since>>
    BY <1>2 DEF Promote, Stall, callerVars
  <2>2. /\ job[j].state # "completed"
        /\ \A i \in Jobs \ {j} : job'[i] = job[i]
    BY <1>2 DEF Promote, Stall, IInv, TypeOK
  <2>3. /\ job'[j].state # "completed"
        /\ job'[j].question = job[j].question /\ job'[j].result = job[j].result
    <3>1. job[j] \in JobRecords /\ DOMAIN job = Jobs
      BY DEF IInv, TypeOK
    <3>2. CASE Promote(j)
      BY <3>1, <3>2 DEF Promote, JobRecords
    <3>3. CASE Stall(j)
      <4>1. job[j].stalls < MaxStalled =>
              job'[j] = [job[j] EXCEPT !.state = "waiting", !.owner = None, !.stalls = @ + 1]
        BY <3>1, <3>3 DEF Stall
      <4>2. ~ (job[j].stalls < MaxStalled) =>
              job'[j] = [job[j] EXCEPT !.state = "failed", !.owner = None]
        BY <3>1, <3>3 DEF Stall
      <4> QED
        BY <3>1, <4>1, <4>2 DEF JobRecords
    <3> QED
      BY <1>2, <3>2, <3>3
  <2> QED
    BY <2>1, <2>2, <2>3, HiddenStep
<1> QED
  BY <1>1, <1>2

\* An attempt begins: the caller of the job, if it still waits, has been asked for.
LEMMA TakeIsPort ==
  ASSUME IInv, IInv', JobsApart, NEW w \in Workers, Take(w)
  PROVE  [Port!Next]_Port!vars
<1> USE DEF IInv
<1> DEFINE j == Head(queue)
<1>1. j \in Jobs /\ job[j].state = "waiting"
  BY Taken DEF Take, LineOfWaiting
<1>2. /\ UNCHANGED <<caller, ask, asked>>
      /\ job' = [job EXCEPT ![j].state = "active", ![j].owner = w]
      /\ IF Sends(job[j].question)
           THEN since' = [since EXCEPT ![j] = {k \in Callers : caller[k] # "idle"}]
           ELSE since' = since
  BY DEF Take, callerVars
<1> HIDE DEF j
<1>3. /\ \A i \in Jobs \ {j} : job'[i] = job[i] /\ since'[i] = since[i]
      /\ job'[j].state = "active" /\ job'[j].question = job[j].question
      /\ job'[j].result = job[j].result
  BY <1>1, <1>2 DEF TypeOK, JobRecords
<1>4. \A l \in Callers : ~ (caller[l] = "waiting" /\ ask[l] = j) => Still(l)
  <2> SUFFICES ASSUME NEW l \in Callers, ~ (caller[l] = "waiting" /\ ask[l] = j)
               PROVE  Still(l)
    OBVIOUS
  <2>1. caller[l] \in {"waiting", "ok"} => ask[l] \in Jobs \ {j}
    BY <1>1 DEF OwnJob
  <2> QED
    BY <1>2, <1>3, <2>1, StillFrom
<1>5. CASE \A l \in Callers : Still(l)
  BY <1>5, NoneMoves
<1>6. ASSUME NEW k \in Callers, ~ Still(k) PROVE Port!Send(k)
  <2>1. caller[k] = "waiting" /\ ask[k] = j
    BY <1>4, <1>6
  <2>2. \A l \in Callers \ {k} : Still(l)
    BY <1>4, <2>1 DEF JobsApart
  <2>3. Sends(job[j].question)
    <3>1. since' = since => Still(k)
      BY <1>1, <1>2, <1>3, <2>1, StillFrom
    <3> QED
      BY <1>2, <1>6, <3>1
  <2>4. k \in since'[j] /\ job[j].question = asked[k]
    BY <1>1, <1>2, <2>1, <2>3 DEF OwnJob, TypeOK
  <2>5. portStage'[k] = "sent"
    BY <1>2, <1>3, <2>1, <2>4 DEF portStage, Progress
  <2>6. portResult'[k] = portResult[k] /\ asked'[k] = asked[k]
    BY <1>1, <1>2, <1>3, <2>1 DEF portResult
  <2>7. portStage[k] = "asked"
    BY <1>1, <1>6, <2>1, <2>5, <2>6 DEF portStage, Progress, Still
  <2>8. portStage' = [portStage EXCEPT ![k] = "sent"] /\ portResult' = portResult
    BY <2>2, <2>5, <2>6, OneMoves DEF portResult
  <2> QED
    BY <1>2, <2>7, <2>8 DEF Port!Send, Port!Goto
<1> QED
  BY <1>5, <1>6 DEF Port!Next

\* An attempt ends: what it brings is said to the caller of the job, if it still waits, and
\* only if it is an outcome of the job.
LEMMA AnsweredIsPort ==
  ASSUME IInv, IInv', JobsApart, NEW w \in Workers, Answered(w)
  PROVE  [Port!Next]_Port!vars
<1> USE DEF IInv
<1> DEFINE j == worker[w]
<1>1. UNCHANGED <<caller, ask, asked, since>>
  BY DEF Answered, Refuse, Receive, Deliver, callerVars
<1>2. CASE ~ Owns(w)
  <2>1. job' = job
    BY <1>2 DEF Answered, Refuse, Receive, Deliver
  <2> QED
    BY <1>1, <2>1, HiddenStep
<1>3. CASE Owns(w)
  <2>1. j \in Jobs /\ job[j].state = "active"
    BY <1>3 DEF Owns, TypeOK
  <2>2. CASE job' = [job EXCEPT ![j] = AttemptFailed(job[j])]
    <3>1. /\ AttemptFailed(job[j]).state # "completed"
          /\ AttemptFailed(job[j]).question = job[j].question
          /\ AttemptFailed(job[j]).result = job[j].result
      BY <2>1 DEF AttemptFailed, TypeOK, JobRecords
    <3>2. \A i \in Jobs : job'[i] = IF i = j THEN AttemptFailed(job[j]) ELSE job[i]
      BY <2>2 DEF TypeOK
    <3> HIDE DEF j
    <3> QED
      BY <1>1, <2>1, <3>1, <3>2, HiddenStep
  <2>3. ASSUME NEW r \in Outcomes, r # None, Sends(job[j].question),
               job' = [job EXCEPT ![j] = Completed(job[j], r)]
        PROVE  [Port!Next]_Port!vars
    <3>1. r \in Results
      BY <2>3, OutcomesJudged
    <3>2. /\ job'[j].state = "completed" /\ job'[j].result = r
          /\ \A i \in Jobs \ {j} : job'[i] = job[i]
      BY <2>1, <2>3 DEF Completed, TypeOK, JobRecords
    <3> HIDE DEF j
    <3>3. \A l \in Callers : ~ (caller[l] = "waiting" /\ ask[l] = j) => Still(l)
      BY <1>1, <2>1, <3>2, StillFrom DEF OwnJob
    <3>4. CASE \A l \in Callers : Still(l)
      BY <3>4, NoneMoves
    <3>5. ASSUME NEW k \in Callers, ~ Still(k) PROVE Port!Say(k, r)
      <4>1. caller[k] = "waiting" /\ ask[k] = j
        BY <3>3, <3>5
      <4>2. \A l \in Callers \ {k} : Still(l)
        BY <3>3, <4>1 DEF JobsApart
      <4>3. k \in since[j] /\ job[j].question = asked[k]
        BY <2>1, <2>3, <4>1 DEF SentSince, OwnJob
      <4>4. portStage[k] = "sent"
        BY <2>1, <4>1, <4>3 DEF portStage, Progress
      <4>5. portStage'[k] = "said" /\ portResult'[k] = r
        BY <1>1, <3>2, <4>1 DEF portStage, portResult, Progress
      <4> QED
        BY <1>1, <4>2, <4>4, <4>5, OneMoves DEF Port!Say, Port!Goto
    <3> QED
      BY <3>1, <3>4, <3>5 DEF Port!Next
  <2> QED
    BY <1>3, <2>2, <2>3 DEF Answered, Refuse, Receive, Deliver
<1> QED
  BY <1>2, <1>3

LEMMA PortSteps ==
  ASSUME IInv, IInv', JobsApart, Unsent, [Next]_vars
  PROVE  [Port!Next]_Port!vars
<1>1. ASSUME NEW k \in Callers, NEW q \in Questions, Ask(k, q) \/ AskFails(k, q)
      PROVE  Port!Next
  BY <1>1, AskIsPort
<1>2. ASSUME NEW k \in Callers, Notice(k) \/ TimesOut(k) \/ Leave(k) PROVE Port!Next
  BY <1>2, WaitEndsIsPort, LeaveIsPort
<1>3. ASSUME NEW w \in Workers, Take(w) \/ Answered(w) \/ Die(w)
      PROVE  [Port!Next]_Port!vars
  BY <1>3, TakeIsPort, AnsweredIsPort, HiddenSteps
<1>4. ASSUME NEW j \in Jobs, Promote(j) \/ Stall(j) PROVE UNCHANGED Port!vars
  BY <1>4, HiddenSteps
<1>5. CASE UNCHANGED vars
  BY <1>5, HiddenStep DEF vars
<1> QED
  BY <1>1, <1>2, <1>3, <1>4, <1>5, CloseIsPort DEF Next

\* Retries, hand-overs, workers that live on and callers that leave implement the port: a
\* caller is asked for after it asked, told once what was said to that, and keeps it.
THEOREM ServesPortHolds == Spec => ServesPort
<1>1. Init => Port!Init
  BY DEF Init, Port!Init, portStage, portResult
<1>2. IInv /\ IInv' /\ JobsApart /\ Unsent /\ [Next]_vars => [Port!Next]_Port!vars
  BY PortSteps
<1> QED
  BY <1>1, <1>2, Inductive, ApartHolds, PTL DEF Spec, ServesPort, Port!Spec
=============================================================================
