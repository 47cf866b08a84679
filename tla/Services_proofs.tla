--------------------------- MODULE Services_proofs ---------------------------
(***************************************************************************)
(* Theorems about the small protocols that MCServices runs side by side,   *)
(* for every value of their constants.                                     *)
(***************************************************************************)
EXTENDS MCServices, AlertDelivery, FiniteSetTheorems, SequenceTheorems, WellFoundedInduction, TLAPS

(***************************************************************************)
(* Background runs.  While no lease lapses under its worker, a worker at   *)
(* work on a run holds a live lease on it and nobody else does; where the  *)
(* worker is says what the run and its file show.                          *)
(***************************************************************************)

\* The points at which a worker still has its run.
Owning == Handling \cup {"failing", "hooking", "clearing"}

OwnersHold ==
    \A w \in Worker : worker[w].at \in Owning =>
        /\ worker[w].run \in Run
        /\ claim[worker[w].run].by = w /\ claim[worker[w].run].lease = "live"

\* What a worker knows of the run it has, or of those it has released.
KnownAt(w) ==
    /\ worker[w].at = "claiming" => worker[w].run \in Run /\ runStatus[worker[w].run] = "queued"
    /\ worker[w].at \in Handling \cup {"failing"} => runStatus[worker[w].run] = "running"
    /\ worker[w].at \in {"starting", "reading", "failing", "hooking"} =>
         file[worker[w].run] \in {"pending", "running"}
    /\ worker[w].at = "marking" => file[worker[w].run] = "succeeded"
    /\ worker[w].at = "marking failed" => file[worker[w].run] = "failed"
    /\ worker[w].at = "hooking" => runStatus[worker[w].run] = "failed"
    /\ worker[w].at = "clearing" =>
         runStatus[worker[w].run] \in Ended /\ file[worker[w].run] = runStatus[worker[w].run]
    /\ worker[w].at = "telling" =>
         \A r \in worker[w].list :
             runStatus[r] = "failed" /\ file[r] # "succeeded" /\ claim[r].lease # "live"

\* A run that fails elsewhere has its file still to mark: in its own worker, or
\* in the one that released it.
StillToTell(r) ==
    \E w \in Worker :
        \/ worker[w].at = "hooking" /\ worker[w].run = r
        \/ worker[w].at = "telling" /\ r \in worker[w].list

FileFollows ==
    \A r \in Run :
        /\ runStatus[r] = "queued" => file[r] = "pending"
        /\ runStatus[r] = "running" =>
             \/ file[r] # "succeeded"
             \/ \E w \in Worker : worker[w].at = "marking" /\ worker[w].run = r
        /\ runStatus[r] \in Ended => file[r] = runStatus[r] \/ StillToTell(r)

ClaimsApart ==
    \A v, w \in Worker :
        worker[v].at = "claiming" /\ worker[w].at = "claiming" /\ worker[v].run = worker[w].run
            => v = w

Running == {r \in Run : runStatus[r] = "running"}
Claiming == {w \in Worker : worker[w].at = "claiming"}

\* Whoever claims looked while there was room.
RoomFor == Cardinality(Running) + Cardinality(Claiming) <= Limit + Cardinality(Worker) - 1

RunsCore ==
    /\ RunsTypeOK
    /\ OwnersHold
    /\ \A w \in Worker : KnownAt(w)
    /\ FileFollows
    /\ ClaimsApart

RunsInv == RunsCore /\ RoomFor

RunStates == {"none", "queued", "running", "succeeded", "failed"}
FileStates == {"none", "pending", "running", "succeeded", "failed"}
WorkerStates ==
    [at : Handling \cup {"idle", "claiming", "failing", "hooking", "clearing", "releasing",
                         "telling"},
     run : Run \cup {Unclaimed}, list : SUBSET Run]

\* What a worker does to itself is to move, or to rest.
LEMMA WorkerMoves ==
    ASSUME RunsTypeOK, NEW w \in Worker, NEW point \in Owning, Goto(w, point)
    PROVE  /\ worker' \in [Worker -> WorkerStates]
           /\ worker'[w].at = point /\ worker'[w].run = worker[w].run
           /\ worker'[w].list = worker[w].list
           /\ \A v \in Worker \ {w} : worker'[v] = worker[v]
<1> DEFINE next == [worker[w] EXCEPT !.at = point]
<1>1. worker \in [Worker -> WorkerStates] /\ worker[w] \in WorkerStates
  BY DEF RunsTypeOK, WorkerStates
<1>2. next \in WorkerStates /\ next.at = point /\ next.run = worker[w].run
      /\ next.list = worker[w].list
  BY <1>1 DEF WorkerStates, Owning, Handling
<1>3. worker' = [worker EXCEPT ![w] = next]
  BY DEF Goto
<1> HIDE DEF next
<1> QED BY <1>1, <1>2, <1>3

\* A worker that is done rests.
LEMMA WorkerRests ==
    ASSUME RunsTypeOK, NEW w \in Worker, worker' = [worker EXCEPT ![w] = Resting]
    PROVE  /\ worker' \in [Worker -> WorkerStates]
           /\ worker'[w].at = "idle"
           /\ \A v \in Worker \ {w} : worker'[v] = worker[v]
<1>1. worker \in [Worker -> WorkerStates] /\ Resting \in WorkerStates /\ Resting.at = "idle"
  BY DEF RunsTypeOK, WorkerStates, Resting
<1> QED BY <1>1

\* Whoever has a run keeps it while another worker does something else.
LEMMA OthersHold ==
    ASSUME OwnersHold, NEW w \in Worker, worker'[w].at \notin Owning,
           \A v \in Worker \ {w} : worker'[v] = worker[v],
           \A v \in Worker \ {w} : worker[v].at \in Owning =>
               claim'[worker[v].run] = claim[worker[v].run]
    PROVE  OwnersHold'
<1>1. UNCHANGED Owning
  BY DEF Owning, Handling
<1>2. ASSUME NEW v \in Worker, worker'[v].at \in Owning
      PROVE  /\ worker'[v].run \in Run /\ claim'[worker'[v].run].by = v
             /\ claim'[worker'[v].run].lease = "live"
  <2>1. v # w /\ worker'[v] = worker[v]
    BY <1>2
  <2>2. /\ worker[v].run \in Run /\ claim[worker[v].run].by = v
        /\ claim[worker[v].run].lease = "live"
    BY <1>2, <2>1 DEF OwnersHold
  <2>3. claim'[worker[v].run] = claim[worker[v].run]
    BY <1>2, <2>1
  <2> QED BY <2>1, <2>2, <2>3
<1> QED BY <1>1, <1>2 DEF OwnersHold

\* A worker that has a run changes that run and its file alone, and they come to be
\* what its next point says of them.
Moved(w, point, x, y) ==
    /\ worker[w].at \in Owning /\ point \in Owning /\ Goto(w, point)
    /\ x \in RunStates \ {"none", "queued"} /\ y \in FileStates \ {"none"}
    /\ runStatus' = [runStatus EXCEPT ![worker[w].run] = x]
    /\ file' = [file EXCEPT ![worker[w].run] = y]
    /\ UNCHANGED claim /\ deaths' \in 0 .. MaxDeaths
    /\ runStatus[worker[w].run] \in Ended => x = runStatus[worker[w].run] /\ y # "succeeded"
    /\ point \in Handling \cup {"failing"} => x = "running"
    /\ point \in {"starting", "reading", "failing", "hooking"} => y \in {"pending", "running"}
    /\ point = "marking" => y = "succeeded"
    /\ point = "marking failed" => y = "failed"
    /\ point = "hooking" => x = "failed"
    /\ point = "clearing" => x \in Ended /\ y = x

\* A worker that has its run moves from one point to the next (run_next, _read_upload).
LEMMA OwnerMoves ==
    ASSUME RunsCore, NEW w \in Worker, NEW point, NEW x, NEW y, Moved(w, point, x, y)
    PROVE  RunsCore'
<1> USE DEF Moved
<1>0. PICK r \in Run : r = worker[w].run /\ claim[r].by = w /\ claim[r].lease = "live"
  BY DEF RunsCore, OwnersHold
<1>1. RunsTypeOK /\ worker[w].run = r /\ claim[r].by = w
  BY <1>0 DEF RunsCore
<1>2. /\ worker' \in [Worker -> WorkerStates]
      /\ worker'[w].at = point /\ worker'[w].run = r
      /\ \A v \in Worker \ {w} : worker'[v] = worker[v]
  BY <1>1, WorkerMoves
<1>3. /\ runStatus'[r] = x /\ file'[r] = y
      /\ \A s \in Run \ {r} : runStatus'[s] = runStatus[s] /\ file'[s] = file[s]
      /\ runStatus' \in [Run -> RunStates] /\ file' \in [Run -> FileStates]
  BY <1>1 DEF RunsTypeOK, RunStates, FileStates
<1>4. runStatus[r] \notin {"none", "queued"}
  BY <1>1 DEF RunsCore, KnownAt, Owning, Handling, Ended
<1>5. \A v \in Worker \ {w} : worker[v].at \in Owning => worker[v].run # r
  <2>1. ASSUME NEW v \in Worker, worker[v].at \in Owning, worker[v].run = r PROVE v = w
    <3>1. claim[r].by = v
      BY <2>1 DEF RunsCore, OwnersHold
    <3> QED BY <1>1, <3>1
  <2> QED BY <2>1
<1>6. RunsTypeOK'
  <2>1. \A s \in Run : file'[s] = "none" <=> runStatus'[s] = "none"
    BY <1>1, <1>3 DEF RunsTypeOK
  <2> QED BY <1>1, <1>2, <1>3, <2>1 DEF RunsTypeOK, RunStates, FileStates, WorkerStates
<1>7. OwnersHold'
  <2>1. ASSUME NEW v \in Worker, worker'[v].at \in Owning
        PROVE  /\ worker'[v].run \in Run /\ claim[worker'[v].run].by = v
               /\ claim[worker'[v].run].lease = "live"
    <3>1. CASE v = w
      BY <1>0, <1>2, <3>1
    <3>2. CASE v # w
      BY <1>2, <2>1, <3>2 DEF RunsCore, OwnersHold
    <3> QED BY <3>1, <3>2
  <2>2. UNCHANGED Owning
    BY DEF Owning, Handling
  <2> QED BY <2>1, <2>2 DEF OwnersHold
<1>8. ASSUME NEW v \in Worker PROVE KnownAt(v)'
  <2>1. CASE v = w
    BY <1>2, <1>3, <2>1 DEF KnownAt, Owning, Handling
  <2>2. CASE v # w
    <3>1. KnownAt(v) /\ worker'[v] = worker[v] /\ worker[v].list \subseteq Run
      BY <1>1, <1>2, <2>2 DEF RunsCore, RunsTypeOK
    <3>2. worker[v].at \in Owning => worker[v].run \in Run \ {r}
      BY <1>5, <2>2 DEF RunsCore, OwnersHold
    <3>3. worker[v].at = "claiming" => worker[v].run \in Run \ {r}
      BY <1>4, <3>1 DEF KnownAt
    <3>4. worker[v].at = "telling" =>
            \A s \in worker[v].list : runStatus'[s] = "failed" /\ file'[s] # "succeeded"
      BY <1>3, <3>1 DEF KnownAt, Ended
    <3>5. worker[v].run \in Run \ {r} =>
            /\ runStatus'[worker[v].run] = runStatus[worker[v].run]
            /\ file'[worker[v].run] = file[worker[v].run]
      BY <1>3
    <3> QED BY <3>1, <3>2, <3>3, <3>4, <3>5 DEF KnownAt, Owning, Handling
  <2> QED BY <2>1, <2>2
<1>9. FileFollows'
  <2>1. ASSUME NEW s \in Run, s # r
        PROVE  /\ runStatus'[s] = "queued" => file'[s] = "pending"
               /\ runStatus'[s] = "running" =>
                    \/ file'[s] # "succeeded"
                    \/ \E v \in Worker : worker'[v].at = "marking" /\ worker'[v].run = s
               /\ runStatus'[s] \in Ended => file'[s] = runStatus'[s] \/ StillToTell(s)'
    <3>1. StillToTell(s) => StillToTell(s)'
      BY <1>1, <1>2, <2>1 DEF StillToTell, Owning, Handling
    <3>2. runStatus'[s] = runStatus[s] /\ file'[s] = file[s]
      BY <1>3, <2>1
    <3>3. ASSUME NEW v \in Worker, worker[v].at = "marking", worker[v].run = s
          PROVE  worker'[v].at = "marking" /\ worker'[v].run = s
      BY <1>1, <1>2, <2>1, <3>3
    <3>4. /\ runStatus[s] = "queued" => file[s] = "pending"
          /\ runStatus[s] = "running" =>
               \/ file[s] # "succeeded"
               \/ \E v \in Worker : worker[v].at = "marking" /\ worker[v].run = s
          /\ runStatus[s] \in Ended => file[s] = runStatus[s] \/ StillToTell(s)
      BY DEF RunsCore, FileFollows
    <3> QED BY <3>1, <3>2, <3>3, <3>4
  <2>2. /\ runStatus'[r] = "running" =>
             \/ file'[r] # "succeeded"
             \/ \E v \in Worker : worker'[v].at = "marking" /\ worker'[v].run = r
        /\ runStatus'[r] \in Ended => file'[r] = runStatus'[r] \/ StillToTell(r)'
    BY <1>2, <1>3 DEF StillToTell, Owning, Handling, Ended
  <2>3. runStatus'[r] # "queued"
    BY <1>3
  <2>4. ASSUME NEW s \in Run
        PROVE  /\ runStatus'[s] = "queued" => file'[s] = "pending"
               /\ runStatus'[s] = "running" =>
                    \/ file'[s] # "succeeded"
                    \/ \E v \in Worker : worker'[v].at = "marking" /\ worker'[v].run = s
               /\ runStatus'[s] \in Ended => file'[s] = runStatus'[s] \/ StillToTell(s)'
    <3>1. CASE s = r
      BY <2>2, <2>3, <3>1
    <3>2. CASE s # r
      BY <2>1, <3>2
    <3> QED BY <3>1, <3>2
  <2> QED BY <2>4 DEF FileFollows
<1>10. ClaimsApart'
  BY <1>2 DEF RunsCore, ClaimsApart, Owning, Handling
<1> QED BY <1>6, <1>7, <1>8, <1>9, <1>10 DEF RunsCore

\* Queueing and claiming (queue, claim_next): a run is queued with its file, and
\* claimed by one worker.
LEMMA QueueKeeps ==
    ASSUME RunsCore, NEW r \in Run, QueueUpload(r) PROVE RunsCore'
<1>1. /\ runStatus[r] = "none" /\ UNCHANGED <<claim, worker, deaths>> /\ RunsTypeOK
      /\ runStatus'[r] = "queued" /\ file'[r] = "pending"
      /\ \A s \in Run \ {r} : runStatus'[s] = runStatus[s] /\ file'[s] = file[s]
      /\ runStatus' \in [Run -> RunStates] /\ file' \in [Run -> FileStates]
  BY DEF RunsCore, RunsTypeOK, QueueUpload, RunStates, FileStates
<1>2. RunsTypeOK'
  BY <1>1 DEF RunsTypeOK, RunStates, FileStates
<1>3. OwnersHold' /\ ClaimsApart'
  BY <1>1 DEF RunsCore, OwnersHold, ClaimsApart
<1>4. ASSUME NEW v \in Worker PROVE KnownAt(v)'
  <2>1. KnownAt(v) /\ worker[v].list \subseteq Run
    BY <1>1 DEF RunsCore, RunsTypeOK
  <2>2. worker[v].at \in Owning \cup {"claiming"} => worker[v].run \in Run \ {r}
    BY <1>1, <2>1 DEF RunsCore, OwnersHold, KnownAt, Owning, Handling, Ended
  <2>3. worker[v].run \in Run \ {r} =>
          /\ runStatus'[worker[v].run] = runStatus[worker[v].run]
          /\ file'[worker[v].run] = file[worker[v].run]
    BY <1>1
  <2>4. worker[v].at = "telling" =>
          \A s \in worker[v].list : runStatus'[s] = "failed" /\ file'[s] # "succeeded"
    BY <1>1, <2>1 DEF KnownAt
  <2> QED BY <1>1, <2>1, <2>2, <2>3, <2>4 DEF KnownAt, Owning, Handling
<1>5. FileFollows'
  <2>1. \A s \in Run : StillToTell(s)' <=> StillToTell(s)
    BY <1>1 DEF StillToTell
  <2> QED BY <1>1, <2>1 DEF RunsCore, FileFollows, Ended
<1> QED BY <1>2, <1>3, <1>4, <1>5 DEF RunsCore

\* The first half of a claim: a queued run that no other worker holds (claim_next).
LEMMA SelectKeeps ==
    ASSUME RunsCore, NEW w \in Worker, NEW r \in Run, SelectRun(w, r) PROVE RunsCore'
<1> DEFINE next == [worker[w] EXCEPT !.at = "claiming", !.run = r]
<1>1. /\ RunsTypeOK /\ worker[w].at = "idle" /\ runStatus[r] = "queued" /\ ~Locked(r)
      /\ UNCHANGED <<runStatus, claim, file, deaths>>
  BY DEF RunsCore, SelectRun, At
<1>2. next \in WorkerStates /\ next.at = "claiming" /\ next.run = r
  BY <1>1 DEF RunsTypeOK, WorkerStates, Handling
<1>3. worker' = [worker EXCEPT ![w] = next]
  BY <1>1 DEF SelectRun, RunsTypeOK
<1> HIDE DEF next
<1>4. /\ worker' \in [Worker -> WorkerStates]
      /\ worker'[w].at = "claiming" /\ worker'[w].run = r
      /\ \A v \in Worker \ {w} : worker'[v] = worker[v]
  BY <1>1, <1>2, <1>3 DEF RunsTypeOK, WorkerStates
<1>5. RunsTypeOK'
  BY <1>1, <1>4 DEF RunsTypeOK, WorkerStates
<1>6. OwnersHold' /\ \A v \in Worker : KnownAt(v)'
  <2>1. OwnersHold'
    BY <1>1, <1>4, OthersHold DEF RunsCore, Owning, Handling
  <2>2. KnownAt(w)'
    BY <1>1, <1>4 DEF KnownAt, Handling
  <2>3. ASSUME NEW v \in Worker, v # w PROVE KnownAt(v)'
    <3>1. KnownAt(v) /\ worker'[v] = worker[v]
      BY <1>4, <2>3 DEF RunsCore
    <3> QED BY <1>1, <3>1 DEF KnownAt
  <2> QED BY <2>1, <2>2, <2>3
<1>7. ClaimsApart'
  BY <1>1, <1>4 DEF RunsCore, ClaimsApart, Locked, At
<1>8. FileFollows'
  <2>1. \A s \in Run : StillToTell(s) => StillToTell(s)'
    BY <1>1, <1>4 DEF StillToTell
  <2>2. \A v \in Worker : worker[v].at = "marking" => worker'[v] = worker[v]
    BY <1>1, <1>4
  <2> QED BY <1>1, <2>1, <2>2 DEF RunsCore, FileFollows
<1> QED BY <1>5, <1>6, <1>7, <1>8 DEF RunsCore

\* The second half: the run goes, and its lease is the worker's (claim_next).
LEMMA ClaimKeeps ==
    ASSUME RunsCore, NEW w \in Worker, ClaimRun(w) PROVE RunsCore'
<1>0. PICK r \in Run : r = worker[w].run /\ runStatus[r] = "queued"
  BY DEF RunsCore, KnownAt, ClaimRun, At
<1>1. /\ RunsTypeOK /\ worker[w].at = "claiming" /\ worker[w].run = r
      /\ Goto(w, "starting") /\ UNCHANGED <<file, deaths>>
      /\ runStatus' = [runStatus EXCEPT ![r] = "running"]
      /\ claim' = [claim EXCEPT ![r] = [by |-> w, lease |-> "live"]]
  BY <1>0 DEF RunsCore, ClaimRun, At
<1>2. /\ worker' \in [Worker -> WorkerStates]
      /\ worker'[w].at = "starting" /\ worker'[w].run = r
      /\ \A v \in Worker \ {w} : worker'[v] = worker[v]
  BY <1>1, WorkerMoves DEF Owning, Handling
<1>3. /\ runStatus' \in [Run -> RunStates] /\ runStatus'[r] = "running"
      /\ \A s \in Run \ {r} : runStatus'[s] = runStatus[s] /\ claim'[s] = claim[s]
      /\ claim'[r].by = w /\ claim'[r].lease = "live"
      /\ claim' \in [Run -> [by : Worker \cup {Unclaimed}, lease : {"none", "live", "past"}]]
  BY <1>1 DEF RunsTypeOK, RunStates
<1>4. \A v \in Worker \ {w} :
        worker[v].at \in Owning \cup {"claiming"} => worker[v].run \in Run \ {r}
  <2>1. ASSUME NEW v \in Worker \ {w}, worker[v].at \in Owning PROVE worker[v].run \in Run \ {r}
    <3>1. worker[v].run \in Run /\ runStatus[worker[v].run] \in {"running", "succeeded", "failed"}
      BY <2>1 DEF RunsCore, OwnersHold, KnownAt, Owning, Handling, Ended
    <3> QED BY <1>0, <3>1
  <2>2. ASSUME NEW v \in Worker \ {w}, worker[v].at = "claiming"
        PROVE  worker[v].run \in Run \ {r}
    BY <1>1, <2>2 DEF RunsCore, KnownAt, ClaimsApart
  <2> QED BY <2>1, <2>2
<1>5. RunsTypeOK'
  BY <1>0, <1>1, <1>2, <1>3 DEF RunsTypeOK, RunStates, WorkerStates
<1>6. OwnersHold'
  BY <1>2, <1>3, <1>4 DEF RunsCore, OwnersHold, Owning
<1>7. ASSUME NEW v \in Worker PROVE KnownAt(v)'
  <2>0. file[r] = "pending"
    BY <1>0 DEF RunsCore, FileFollows
  <2>1. CASE v = w
    BY <1>1, <1>2, <1>3, <2>0, <2>1 DEF KnownAt, Handling
  <2>2. CASE v # w
    <3>1. KnownAt(v) /\ worker'[v] = worker[v] /\ worker[v].list \subseteq Run
      BY <1>1, <1>2, <2>2 DEF RunsCore, RunsTypeOK
    <3>2. worker[v].at = "telling" =>
            \A s \in worker[v].list : runStatus'[s] = "failed" /\ claim'[s] = claim[s]
      BY <1>0, <1>3, <3>1 DEF KnownAt
    <3>3. worker[v].at \in Owning \cup {"claiming"} =>
            worker[v].run \in Run /\ runStatus'[worker[v].run] = runStatus[worker[v].run]
      BY <1>3, <1>4, <2>2
    <3>4. KnownAt(v)' <=>
            /\ worker[v].at = "claiming" =>
                 worker[v].run \in Run /\ runStatus'[worker[v].run] = "queued"
            /\ worker[v].at \in Handling \cup {"failing"} =>
                 runStatus'[worker[v].run] = "running"
            /\ worker[v].at \in {"starting", "reading", "failing", "hooking"} =>
                 file[worker[v].run] \in {"pending", "running"}
            /\ worker[v].at = "marking" => file[worker[v].run] = "succeeded"
            /\ worker[v].at = "marking failed" => file[worker[v].run] = "failed"
            /\ worker[v].at = "hooking" => runStatus'[worker[v].run] = "failed"
            /\ worker[v].at = "clearing" =>
                 /\ runStatus'[worker[v].run] \in Ended
                 /\ file[worker[v].run] = runStatus'[worker[v].run]
            /\ worker[v].at = "telling" =>
                 \A s \in worker[v].list :
                   runStatus'[s] = "failed" /\ file[s] # "succeeded" /\ claim'[s].lease # "live"
      BY <1>1, <3>1 DEF KnownAt, Handling, Ended
    <3> QED BY <3>1, <3>2, <3>3, <3>4 DEF KnownAt, Owning, Handling
  <2> QED BY <2>1, <2>2
<1>8. ClaimsApart'
  BY <1>2 DEF RunsCore, ClaimsApart
<1>9. FileFollows'
  <2>1. \A s \in Run : StillToTell(s) => StillToTell(s)'
    BY <1>1, <1>2 DEF StillToTell
  <2>2. \A v \in Worker : worker[v].at = "marking" => worker'[v] = worker[v]
    BY <1>1, <1>2
  <2>3. file[r] = "pending" /\ UNCHANGED file
    BY <1>0, <1>1 DEF RunsCore, FileFollows
  <2> QED BY <1>3, <2>1, <2>2, <2>3 DEF RunsCore, FileFollows, Ended
<1> QED BY <1>5, <1>6, <1>7, <1>8, <1>9 DEF RunsCore

\* The handler and the end of a run in its own worker (_read_upload, _fail).
LEMMA HandlerKeeps ==
    ASSUME RunsCore, NEW w \in Worker,
           \/ BeginReading(w) \/ CannotStart(w)
           \/ \E outcome \in {"succeeded", "failed"} : FileIsRead(w, outcome)
           \/ MarkRun(w) \/ MarkingFails(w) \/ FailRun(w) \/ AfterFailure(w)
    PROVE  RunsCore'
<1>1. RunsTypeOK /\ OwnersHold /\ KnownAt(w)
  BY DEF RunsCore
<1>2. worker[w].at \in Owning /\ UNCHANGED claim
  BY DEF BeginReading, CannotStart, FileIsRead, MarkRun, MarkingFails, FailRun, AfterFailure,
         At, Owning, Handling
<1>3. PICK r \in Run : r = worker[w].run
  BY <1>1, <1>2 DEF OwnersHold
<1>4. /\ runStatus = [runStatus EXCEPT ![r] = runStatus[r]]
      /\ file = [file EXCEPT ![r] = file[r]]
      /\ runStatus[r] \in RunStates /\ file[r] \in FileStates
      /\ deaths \in 0 .. MaxDeaths /\ MaxDeaths \in Nat
      /\ file[r] = "none" <=> runStatus[r] = "none"
  BY <1>1, RunsAssumption DEF RunsTypeOK, RunStates, FileStates
<1>5. CASE BeginReading(w)
  <2>1. /\ Goto(w, "reading") /\ worker[w].at = "starting"
        /\ file' = [file EXCEPT ![r] = "running"] /\ UNCHANGED <<runStatus, deaths>>
    BY <1>3, <1>5 DEF BeginReading, At
  <2>2. runStatus[r] = "running"
    BY <1>1, <1>3, <2>1 DEF KnownAt, Handling
  <2>3. Moved(w, "reading", runStatus[r], "running")
    BY <1>2, <1>3, <1>4, <2>1, <2>2 DEF Moved, Owning, Handling, Ended, RunStates, FileStates
  <2> QED BY <2>3, OwnerMoves
<1>6. CASE CannotStart(w)
  <2>1. /\ Goto(w, "failing") /\ worker[w].at = "starting"
        /\ UNCHANGED <<runStatus, file, deaths>>
    BY <1>6 DEF CannotStart, At
  <2>2. runStatus[r] = "running" /\ file[r] \in {"pending", "running"}
    BY <1>1, <1>3, <2>1 DEF KnownAt, Handling
  <2>3. Moved(w, "failing", runStatus[r], file[r])
    BY <1>2, <1>3, <1>4, <2>1, <2>2 DEF Moved, Owning, Handling, Ended, RunStates, FileStates
  <2> QED BY <2>3, OwnerMoves
<1>7. ASSUME NEW outcome \in {"succeeded", "failed"}, FileIsRead(w, outcome)
      PROVE  RunsCore'
  <2>1. /\ Goto(w, IF outcome = "succeeded" THEN "marking" ELSE "marking failed")
        /\ worker[w].at = "reading"
        /\ file' = [file EXCEPT ![r] = outcome] /\ UNCHANGED <<runStatus, deaths>>
    BY <1>3, <1>7 DEF FileIsRead, At
  <2>2. runStatus[r] = "running"
    BY <1>1, <1>3, <2>1 DEF KnownAt, Handling
  <2>3. Moved(w, IF outcome = "succeeded" THEN "marking" ELSE "marking failed", runStatus[r], outcome)
    BY <1>2, <1>3, <1>4, <2>1, <2>2 DEF Moved, Owning, Handling, Ended, RunStates, FileStates
  <2> QED BY <2>3, OwnerMoves
<1>8. CASE MarkRun(w)
  <2>1. /\ Goto(w, "clearing") /\ worker[w].at \in {"marking", "marking failed"}
        /\ runStatus' = [runStatus EXCEPT ![r] =
                           IF worker[w].at = "marking" THEN "succeeded" ELSE "failed"]
        /\ UNCHANGED <<file, deaths>>
    BY <1>3, <1>8 DEF MarkRun, At
  <2>2. /\ runStatus[r] = "running"
        /\ file[r] = IF worker[w].at = "marking" THEN "succeeded" ELSE "failed"
    BY <1>1, <1>3, <2>1 DEF KnownAt, Handling
  <2>3. Moved(w, "clearing", IF worker[w].at = "marking" THEN "succeeded" ELSE "failed", file[r])
    BY <1>2, <1>3, <1>4, <2>1, <2>2 DEF Moved, Owning, Handling, Ended, RunStates, FileStates
  <2> QED BY <2>3, OwnerMoves
<1>9. CASE MarkingFails(w)
  <2>1. /\ Goto(w, "marking failed") /\ worker[w].at = "marking"
        /\ file' = [file EXCEPT ![r] = "failed"] /\ UNCHANGED runStatus
        /\ deaths < MaxDeaths /\ deaths' = deaths + 1
    BY <1>3, <1>9 DEF MarkingFails, At
  <2>2. runStatus[r] = "running" /\ deaths' \in 0 .. MaxDeaths
    <3>1. runStatus[r] = "running"
      BY <1>1, <1>3, <2>1 DEF KnownAt, Handling
    <3>2. deaths' \in 0 .. MaxDeaths
      <4>1. \A d \in 0 .. MaxDeaths : d < MaxDeaths => d + 1 \in 0 .. MaxDeaths
        BY RunsAssumption
      <4> QED BY <1>1, <2>1, <4>1 DEF RunsTypeOK
    <3> QED BY <3>1, <3>2
  <2>3. Moved(w, "marking failed", runStatus[r], "failed")
    BY <1>2, <1>3, <1>4, <2>1, <2>2 DEF Moved, Owning, Handling, Ended, RunStates, FileStates
  <2> QED BY <2>3, OwnerMoves
<1>10. CASE FailRun(w)
  <2>1. worker[w].at = "failing" /\ UNCHANGED <<file, deaths>>
    BY <1>10 DEF FailRun, At
  <2>2. runStatus[r] = "running" /\ file[r] \in {"pending", "running"}
    BY <1>1, <1>3, <2>1 DEF KnownAt
  <2>3. Goto(w, "hooking") /\ runStatus' = [runStatus EXCEPT ![r] = "failed"]
    BY <1>3, <1>10, <2>2 DEF FailRun, Ended
  <2>4. Moved(w, "hooking", "failed", file[r])
    BY <1>2, <1>3, <1>4, <2>1, <2>2, <2>3 DEF Moved, Owning, Handling, Ended, RunStates, FileStates
  <2> QED BY <2>4, OwnerMoves
<1>11. CASE AfterFailure(w)
  <2>1. /\ worker[w].at = "hooking" /\ UNCHANGED <<runStatus, deaths>>
        /\ Goto(w, "clearing") /\ file' = FileNotRead(r)
    BY <1>3, <1>11 DEF AfterFailure, At
  <2>2. runStatus[r] = "failed" /\ file[r] \in {"pending", "running"}
    BY <1>1, <1>3, <2>1 DEF KnownAt
  <2>3. file' = [file EXCEPT ![r] = "failed"]
    BY <2>1, <2>2 DEF FileNotRead, Ended
  <2>4. Moved(w, "clearing", runStatus[r], "failed")
    BY <1>2, <1>3, <1>4, <2>1, <2>2, <2>3 DEF Moved, Owning, Handling, Ended, RunStates, FileStates
  <2> QED BY <2>4, OwnerMoves
<1> QED BY <1>5, <1>6, <1>7, <1>8, <1>9, <1>10, <1>11

\* A lease that nobody keeps runs out; one that somebody keeps does not (lease.kept).
LEMMA LeaseKeeps ==
    ASSUME RunsCore, Lapses = FALSE, NEW r \in Run, LeaseRunsOut(r) PROVE RunsCore'
<1>1. \A w \in Worker : worker[w].at \in Owning => worker[w].run # r
  BY DEF LeaseRunsOut, Kept, EndsInTime, Owning
<1>2. /\ UNCHANGED <<runStatus, file, worker, deaths>> /\ RunsTypeOK
      /\ \A s \in Run \ {r} : claim'[s] = claim[s]
      /\ claim' \in [Run -> [by : Worker \cup {Unclaimed}, lease : {"none", "live", "past"}]]
  BY DEF RunsCore, RunsTypeOK, LeaseRunsOut
<1>3. RunsTypeOK'
  BY <1>2 DEF RunsTypeOK
<1>4. OwnersHold'
  BY <1>1, <1>2 DEF RunsCore, OwnersHold, Owning
<1>5. FileFollows' /\ ClaimsApart'
  BY <1>2 DEF RunsCore, FileFollows, StillToTell, ClaimsApart
<1>6. ASSUME NEW v \in Worker PROVE KnownAt(v)'
  <2>1. KnownAt(v) /\ worker[v].list \subseteq Run /\ claim'[r].lease = "past"
    BY <1>2 DEF RunsCore, RunsTypeOK, LeaseRunsOut
  <2>2. worker[v].at = "telling" => \A s \in worker[v].list : claim'[s].lease # "live"
    BY <1>2, <2>1 DEF KnownAt
  <2> QED BY <1>2, <2>1, <2>2 DEF KnownAt
<1> QED BY <1>3, <1>4, <1>5, <1>6 DEF RunsCore

\* A worker lets go of its run by its id alone, and it is the worker's own (clear).
LEMMA ClearKeeps ==
    ASSUME RunsCore, NEW w \in Worker, ClearClaim(w) PROVE RunsCore'
<1>0. PICK r \in Run : r = worker[w].run /\ claim[r].by = w
  BY DEF RunsCore, OwnersHold, ClearClaim, At, Owning
<1>1. /\ RunsTypeOK /\ worker[w].at = "clearing" /\ worker[w].run = r
      /\ UNCHANGED <<runStatus, file, deaths>>
      /\ claim' = [claim EXCEPT ![r] = Free] /\ worker' = [worker EXCEPT ![w] = Resting]
  BY <1>0 DEF RunsCore, ClearClaim, At
<1>2. /\ worker' \in [Worker -> WorkerStates] /\ worker'[w].at = "idle"
      /\ \A v \in Worker \ {w} : worker'[v] = worker[v]
  BY <1>1, WorkerRests
<1>3. /\ \A s \in Run \ {r} : claim'[s] = claim[s]
      /\ claim'[r].lease = "none"
      /\ claim' \in [Run -> [by : Worker \cup {Unclaimed}, lease : {"none", "live", "past"}]]
  BY <1>1 DEF RunsTypeOK, Free
<1>4. \A v \in Worker \ {w} : worker[v].at \in Owning => worker[v].run # r
  BY <1>0 DEF RunsCore, OwnersHold
<1>5. RunsTypeOK'
  BY <1>1, <1>2, <1>3 DEF RunsTypeOK, WorkerStates
<1>6. OwnersHold'
  <2>1. \A v \in Worker \ {w} : worker[v].at \in Owning => worker[v].run \in Run \ {r}
    BY <1>4 DEF RunsCore, OwnersHold
  <2>2. \A v \in Worker \ {w} :
          worker[v].at \in Owning => claim'[worker[v].run] = claim[worker[v].run]
    BY <1>3, <2>1
  <2>3. worker'[w].at \notin Owning
    BY <1>2 DEF Owning, Handling
  <2> QED BY <1>2, <2>2, <2>3, OthersHold DEF RunsCore
<1>7. ASSUME NEW v \in Worker PROVE KnownAt(v)'
  <2>1. CASE v = w
    BY <1>2, <2>1 DEF KnownAt, Handling
  <2>2. CASE v # w
    <3>1. KnownAt(v) /\ worker'[v] = worker[v] /\ worker[v].list \subseteq Run
      BY <1>1, <1>2, <2>2 DEF RunsCore, RunsTypeOK
    <3>2. worker[v].at = "telling" => \A s \in worker[v].list : claim'[s].lease # "live"
      BY <1>3, <3>1 DEF KnownAt
    <3> QED BY <1>1, <3>1, <3>2 DEF KnownAt
  <2> QED BY <2>1, <2>2
<1>8. ClaimsApart'
  BY <1>2 DEF RunsCore, ClaimsApart
<1>9. FileFollows'
  <2>1. \A s \in Run : StillToTell(s) => StillToTell(s)'
    BY <1>1, <1>2 DEF StillToTell
  <2>2. \A v \in Worker : worker[v].at = "marking" => worker'[v] = worker[v]
    BY <1>1, <1>2
  <2> QED BY <1>1, <2>1, <2>2 DEF RunsCore, FileFollows
<1> QED BY <1>5, <1>6, <1>7, <1>8, <1>9 DEF RunsCore

\* Releasing the runs of workers that died (release_stalled): only runs whose lease
\* has run out, which nobody has.
LEMMA ScanKeeps ==
    ASSUME RunsCore, NEW w \in Worker, ReleaseScan(w) PROVE RunsCore'
<1> DEFINE next == [worker[w] EXCEPT !.at = "releasing", !.list = {r \in Run : Stalled(r)}]
<1>1. RunsTypeOK /\ worker[w].at = "idle" /\ UNCHANGED <<runStatus, claim, file, deaths>>
  BY DEF RunsCore, ReleaseScan, At
<1>2. next \in WorkerStates /\ next.at = "releasing"
  BY <1>1 DEF RunsTypeOK, WorkerStates, Handling
<1>3. worker' = [worker EXCEPT ![w] = next]
  BY <1>1 DEF ReleaseScan, RunsTypeOK
<1> HIDE DEF next
<1>4. /\ worker' \in [Worker -> WorkerStates] /\ worker'[w].at = "releasing"
      /\ \A v \in Worker \ {w} : worker'[v] = worker[v]
  BY <1>1, <1>2, <1>3 DEF RunsTypeOK, WorkerStates
<1>5. RunsTypeOK'
  BY <1>1, <1>4 DEF RunsTypeOK, WorkerStates
<1>6. OwnersHold' /\ ClaimsApart'
  <2>1. OwnersHold'
    BY <1>1, <1>4, OthersHold DEF RunsCore, Owning, Handling
  <2>2. ClaimsApart'
    BY <1>4 DEF RunsCore, ClaimsApart
  <2> QED BY <2>1, <2>2
<1>7. ASSUME NEW v \in Worker PROVE KnownAt(v)'
  <2>1. CASE v = w
    BY <1>4, <2>1 DEF KnownAt, Handling
  <2>2. CASE v # w
    <3>1. KnownAt(v) /\ worker'[v] = worker[v]
      BY <1>4, <2>2 DEF RunsCore
    <3> QED BY <1>1, <3>1 DEF KnownAt
  <2> QED BY <2>1, <2>2
<1>8. FileFollows'
  <2>1. \A s \in Run : StillToTell(s) => StillToTell(s)'
    BY <1>1, <1>4 DEF StillToTell
  <2>2. \A v \in Worker : worker[v].at = "marking" => worker'[v] = worker[v]
    BY <1>1, <1>4
  <2> QED BY <1>1, <2>1, <2>2 DEF RunsCore, FileFollows
<1> QED BY <1>5, <1>6, <1>7, <1>8 DEF RunsCore

\* The release itself fails runs that are still stalled, and they are nobody's.
LEMMA ReleaseKeeps ==
    ASSUME RunsCore, NEW w \in Worker, ReleaseRuns(w) PROVE RunsCore'
<1> DEFINE found == {r \in worker[w].list : Stalled(r)}
<1>0. PICK released \in SUBSET Run :
        /\ released = {r \in worker[w].list : Stalled(r)}
        /\ runStatus' = [r \in Run |-> IF r \in released THEN "failed" ELSE runStatus[r]]
        /\ claim' = [r \in Run |-> IF r \in released THEN Free ELSE claim[r]]
        /\ worker' = [worker EXCEPT ![w] = [worker[w] EXCEPT !.at = "telling",
                                                             !.list = released]]
  <2>1. worker[w].list \subseteq Run /\ worker \in [Worker -> WorkerStates]
    BY DEF RunsCore, RunsTypeOK, WorkerStates
  <2>2. found \in SUBSET Run
    BY <2>1
  <2>3. /\ runStatus' = [r \in Run |-> IF r \in found THEN "failed" ELSE runStatus[r]]
        /\ claim' = [r \in Run |-> IF r \in found THEN Free ELSE claim[r]]
        /\ worker' = [worker EXCEPT ![w].at = "telling", ![w].list = found]
    BY DEF ReleaseRuns
  <2>4. found = {r \in worker[w].list : Stalled(r)}
    OBVIOUS
  <2> HIDE DEF found
  <2>5. worker' = [worker EXCEPT ![w] = [worker[w] EXCEPT !.at = "telling", !.list = found]]
    BY <2>1, <2>3
  <2> QED BY <2>2, <2>3, <2>4, <2>5
<1> HIDE DEF found
<1> DEFINE next == [worker[w] EXCEPT !.at = "telling", !.list = released]
<1>1. RunsTypeOK /\ worker[w].at = "releasing" /\ UNCHANGED <<file, deaths>>
  BY DEF RunsCore, ReleaseRuns, At
<1>2. next \in WorkerStates /\ next.at = "telling" /\ next.list = released
  BY <1>1 DEF RunsTypeOK, WorkerStates
<1>3. worker' = [worker EXCEPT ![w] = next]
  BY <1>0
<1> HIDE DEF next
<1>4. /\ worker' \in [Worker -> WorkerStates]
      /\ worker'[w].at = "telling" /\ worker'[w].list = released
      /\ \A v \in Worker \ {w} : worker'[v] = worker[v]
  BY <1>1, <1>2, <1>3 DEF RunsTypeOK, WorkerStates
<1>5. \A r \in released : runStatus[r] = "running" /\ claim[r].lease = "past"
  BY <1>0 DEF Stalled
<1>6. \A w1 \in Worker : worker[w1].at \in Owning => worker[w1].run \in Run \ released
  BY <1>5 DEF RunsCore, OwnersHold
<1>7. /\ \A r \in released : runStatus'[r] = "failed" /\ claim'[r].lease = "none"
      /\ \A r \in Run \ released : runStatus'[r] = runStatus[r] /\ claim'[r] = claim[r]
      /\ runStatus' \in [Run -> RunStates]
      /\ claim' \in [Run -> [by : Worker \cup {Unclaimed}, lease : {"none", "live", "past"}]]
  BY <1>0, <1>1 DEF RunsTypeOK, RunStates, Free
<1>8. RunsTypeOK'
  <2>1. \A r \in Run : file[r] = "none" <=> runStatus'[r] = "none"
    BY <1>1, <1>5, <1>7 DEF RunsTypeOK
  <2> QED BY <1>1, <1>4, <1>7, <2>1 DEF RunsTypeOK, RunStates, WorkerStates
<1>9. OwnersHold'
  <2>1. \A v \in Worker \ {w} :
          worker[v].at \in Owning => claim'[worker[v].run] = claim[worker[v].run]
    BY <1>6, <1>7
  <2>2. worker'[w].at \notin Owning
    BY <1>4 DEF Owning, Handling
  <2> QED BY <1>4, <2>1, <2>2, OthersHold DEF RunsCore
<1>10. \A r \in released : file[r] # "succeeded"
  <2>1. ASSUME NEW r \in released PROVE file[r] # "succeeded"
    <3>1. ~ \E v \in Worker : worker[v].at = "marking" /\ worker[v].run = r
      BY <1>6 DEF Owning, Handling
    <3> QED BY <1>5, <3>1 DEF RunsCore, FileFollows
  <2> QED BY <2>1
<1>11. ASSUME NEW v \in Worker PROVE KnownAt(v)'
  <2>1. CASE v = w
    BY <1>1, <1>4, <1>7, <1>10, <2>1 DEF KnownAt, Handling
  <2>2. CASE v # w
    <3>1. KnownAt(v) /\ worker'[v] = worker[v] /\ worker[v].list \subseteq Run
      BY <1>1, <1>4, <2>2 DEF RunsCore, RunsTypeOK
    <3>2. worker[v].at \in Owning \cup {"claiming"} =>
            runStatus'[worker[v].run] = runStatus[worker[v].run]
      BY <1>5, <1>6, <1>7, <3>1 DEF KnownAt
    <3>3. worker[v].at = "telling" =>
            \A s \in worker[v].list : runStatus'[s] = "failed" /\ claim'[s].lease # "live"
      BY <1>7, <3>1 DEF KnownAt
    <3> QED BY <1>1, <3>1, <3>2, <3>3 DEF KnownAt, Owning, Handling
  <2> QED BY <2>1, <2>2
<1>12. ClaimsApart'
  BY <1>4 DEF RunsCore, ClaimsApart
<1>13. FileFollows'
  <2>1. \A s \in Run : StillToTell(s) => StillToTell(s)'
    BY <1>1, <1>4 DEF StillToTell
  <2>2. \A v \in Worker : worker[v].at = "marking" => worker'[v] = worker[v]
    BY <1>1, <1>4
  <2>3. \A s \in released : StillToTell(s)'
    BY <1>4 DEF StillToTell
  <2> QED BY <1>1, <1>7, <2>1, <2>2, <2>3 DEF RunsCore, FileFollows
<1> QED BY <1>8, <1>9, <1>11, <1>12, <1>13 DEF RunsCore

\* Each released run has its file marked (the after-failure hook).
LEMMA TellKeeps ==
    ASSUME RunsCore, NEW w \in Worker, AfterRelease(w) PROVE RunsCore'
<1>0. PICK r \in worker[w].list :
        /\ file' = FileNotRead(r)
        /\ worker' = [worker EXCEPT ![w] = [worker[w] EXCEPT !.list = worker[w].list \ {r}]]
  BY DEF RunsCore, RunsTypeOK, AfterRelease
<1> DEFINE next == [worker[w] EXCEPT !.list = worker[w].list \ {r}]
<1>1. RunsTypeOK /\ worker[w].at = "telling" /\ UNCHANGED <<runStatus, claim, deaths>>
  BY DEF RunsCore, AfterRelease, At
<1>2. next \in WorkerStates /\ next.at = "telling" /\ next.list = worker[w].list \ {r}
  BY <1>1 DEF RunsTypeOK, WorkerStates
<1>3. worker' = [worker EXCEPT ![w] = next]
  BY <1>0
<1> HIDE DEF next
<1>4. /\ worker' \in [Worker -> WorkerStates]
      /\ worker'[w].at = "telling" /\ worker'[w].list = worker[w].list \ {r}
      /\ \A v \in Worker \ {w} : worker'[v] = worker[v]
  BY <1>1, <1>2, <1>3 DEF RunsTypeOK, WorkerStates
<1>5. r \in Run /\ runStatus[r] = "failed" /\ file[r] # "succeeded" /\ file[r] # "none"
  BY <1>0, <1>1 DEF RunsCore, RunsTypeOK, KnownAt
<1>6. /\ file'[r] = "failed" /\ \A s \in Run \ {r} : file'[s] = file[s]
      /\ file' \in [Run -> FileStates]
  BY <1>0, <1>1, <1>5 DEF RunsTypeOK, FileNotRead, FileStates, Ended
<1>7. RunsTypeOK'
  BY <1>1, <1>4, <1>5, <1>6 DEF RunsTypeOK, FileStates, WorkerStates
<1>8. OwnersHold' /\ ClaimsApart'
  <2>1. OwnersHold'
    BY <1>1, <1>4, OthersHold DEF RunsCore, Owning, Handling
  <2>2. ClaimsApart'
    BY <1>4 DEF RunsCore, ClaimsApart
  <2> QED BY <2>1, <2>2
<1>9. \A v \in Worker : worker[v].at \in Owning => worker[v].run \in Run \ {r}
  <2>1. claim[r].lease # "live"
    BY <1>0, <1>1 DEF RunsCore, KnownAt
  <2>2. \A v \in Worker : worker[v].at \in Owning =>
          worker[v].run \in Run /\ claim[worker[v].run].lease = "live"
    BY DEF RunsCore, OwnersHold
  <2> QED BY <2>1, <2>2
<1>10. ASSUME NEW v \in Worker PROVE KnownAt(v)'
  <2>1. KnownAt(v) /\ worker'[v].list \subseteq worker[v].list /\ worker[v].list \subseteq Run
        /\ worker'[v].at = worker[v].at
    BY <1>1, <1>4 DEF RunsCore, RunsTypeOK
  <2>2. worker[v].at = "telling" => \A s \in worker[v].list : file'[s] # "succeeded"
    BY <1>6, <2>1 DEF KnownAt
  <2>3. CASE worker[v].at = "telling"
    BY <1>1, <2>1, <2>2, <2>3 DEF KnownAt, Handling
  <2>4. CASE worker[v].at # "telling"
    <3>1. worker'[v] = worker[v]
      BY <1>1, <1>4, <2>4
    <3>2. worker[v].at \in Owning => file'[worker[v].run] = file[worker[v].run]
      BY <1>6, <1>9
    <3> QED BY <1>1, <2>1, <2>4, <3>1, <3>2 DEF KnownAt, Owning, Handling
  <2> QED BY <2>3, <2>4
<1>11. FileFollows'
  <2>1. \A s \in Run \ {r} : StillToTell(s) => StillToTell(s)'
    BY <1>1, <1>4 DEF StillToTell
  <2>2. \A v \in Worker : worker[v].at = "marking" => worker'[v] = worker[v]
    BY <1>1, <1>4
  <2> QED BY <1>1, <1>5, <1>6, <2>1, <2>2 DEF RunsCore, FileFollows, Ended
<1> QED BY <1>7, <1>8, <1>10, <1>11 DEF RunsCore

\* A worker that stops, done or dead, with nothing left to mark.
LEMMA DoneKeeps ==
    ASSUME RunsCore, NEW w \in Worker, UNCHANGED <<runStatus, claim, file>>,
           worker' = [worker EXCEPT ![w] = Resting], deaths' \in 0 .. MaxDeaths,
           worker[w].at \notin {"marking", "hooking"},
           worker[w].at = "telling" => worker[w].list = {}
    PROVE  RunsCore'
<1>1. /\ worker' \in [Worker -> WorkerStates] /\ worker'[w].at = "idle"
      /\ \A v \in Worker \ {w} : worker'[v] = worker[v] /\ RunsTypeOK
  BY WorkerRests DEF RunsCore
<1>2. RunsTypeOK'
  BY <1>1 DEF RunsCore, RunsTypeOK, WorkerStates
<1>3. OwnersHold'
  BY <1>1, OthersHold DEF RunsCore, Owning, Handling
<1>4. ASSUME NEW v \in Worker PROVE KnownAt(v)'
  <2>1. CASE v = w
    BY <1>1, <2>1 DEF KnownAt, Handling
  <2>2. CASE v # w
    <3>1. KnownAt(v) /\ worker'[v] = worker[v]
      BY <1>1, <2>2 DEF RunsCore
    <3> QED BY <3>1 DEF KnownAt
  <2> QED BY <2>1, <2>2
<1>5. ClaimsApart'
  BY <1>1 DEF RunsCore, ClaimsApart
<1>6. FileFollows'
  <2>1. \A s \in Run : StillToTell(s) => StillToTell(s)'
    BY <1>1 DEF StillToTell
  <2>2. \A v \in Worker : worker[v].at = "marking" => worker'[v] = worker[v]
    BY <1>1
  <2> QED BY <2>1, <2>2 DEF RunsCore, FileFollows
<1> QED BY <1>2, <1>3, <1>4, <1>5, <1>6 DEF RunsCore

\* Nobody starts and nobody claims: there is as much room as before.
LEMMA RoomKept ==
    ASSUME RoomFor, Running' \subseteq Running, Claiming' \subseteq Claiming
    PROVE  RoomFor'
<1>1. IsFiniteSet(Running) /\ IsFiniteSet(Claiming) /\ IsFiniteSet(Worker)
  BY RunsAssumption, FS_Subset DEF Running, Claiming
<1>2. /\ Cardinality(Running') <= Cardinality(Running) /\ Cardinality(Running') \in Nat
      /\ Cardinality(Claiming') <= Cardinality(Claiming) /\ Cardinality(Claiming') \in Nat
  BY <1>1, FS_Subset, FS_CardinalityType
<1>3. /\ Cardinality(Running) \in Nat /\ Cardinality(Claiming) \in Nat
      /\ Cardinality(Worker) \in Nat /\ Limit \in Nat
  BY <1>1, FS_CardinalityType, RunsAssumption
<1> QED BY <1>2, <1>3 DEF RoomFor

\* A worker looks for a run only while there is room, and then it is one of those
\* that claim (claim_next: the count, read without a lock).
LEMMA RoomToSelect ==
    ASSUME RunsCore, RoomFor, NEW w \in Worker, NEW r \in Run, SelectRun(w, r)
    PROVE  RoomFor'
<1>1. IsFiniteSet(Running) /\ IsFiniteSet(Claiming) /\ IsFiniteSet(Worker)
  BY RunsAssumption, FS_Subset DEF Running, Claiming
<1>2. Running' = Running /\ Cardinality(Running) < Limit
  <2>1. Cardinality(Running) \in Nat /\ Limit \in Nat
    BY <1>1, FS_CardinalityType, RunsAssumption
  <2>2. ~(Cardinality(Running) >= Limit) /\ UNCHANGED runStatus
    BY DEF SelectRun, Busy, Running
  <2> QED BY <2>1, <2>2 DEF Running
<1>3. Claiming' \subseteq Worker
  BY DEF Claiming
<1>4. Cardinality(Claiming') <= Cardinality(Worker) /\ Cardinality(Claiming') \in Nat
  BY <1>1, <1>3, FS_Subset, FS_CardinalityType
<1>5. Cardinality(Running) \in Nat /\ Limit \in Nat /\ Cardinality(Worker) \in Nat
  BY <1>1, FS_CardinalityType, RunsAssumption
<1> QED BY <1>2, <1>4, <1>5 DEF RoomFor

\* A claim turns one that claims into one that runs.
LEMMA RoomToClaim ==
    ASSUME RunsCore, RoomFor, NEW w \in Worker, ClaimRun(w)
    PROVE  RoomFor'
<1>0. PICK r \in Run : r = worker[w].run
  BY DEF RunsCore, KnownAt, ClaimRun, At
<1>1. IsFiniteSet(Running) /\ IsFiniteSet(Claiming) /\ IsFiniteSet(Worker)
  BY RunsAssumption, FS_Subset DEF Running, Claiming
<1>2. Running' \subseteq Running \cup {r}
  BY <1>0 DEF ClaimRun, Running, RunsCore, RunsTypeOK
<1>3. w \in Claiming /\ Claiming' \subseteq Claiming \ {w}
  BY DEF ClaimRun, At, Goto, Claiming, RunsCore, RunsTypeOK
<1>4. /\ IsFiniteSet(Running \cup {r})
      /\ Cardinality(Running \cup {r}) <= Cardinality(Running) + 1
      /\ Cardinality(Running \cup {r}) \in Nat
  <2>1. IsFiniteSet(Running \cup {r}) /\ Cardinality(Running) \in Nat
    BY <1>1, FS_AddElement, FS_CardinalityType
  <2>2. Cardinality(Running \cup {r}) = IF r \in Running THEN Cardinality(Running)
                                        ELSE Cardinality(Running) + 1
    BY <1>1, FS_AddElement
  <2> HIDE DEF Running
  <2> QED BY <2>1, <2>2, FS_CardinalityType
<1>5. /\ IsFiniteSet(Claiming \ {w})
      /\ Cardinality(Claiming \ {w}) = Cardinality(Claiming) - 1
  BY <1>1, <1>3, FS_RemoveElement
<1>6. /\ Cardinality(Running') <= Cardinality(Running \cup {r}) /\ Cardinality(Running') \in Nat
      /\ Cardinality(Claiming') <= Cardinality(Claiming \ {w})
      /\ Cardinality(Claiming') \in Nat
  BY <1>2, <1>3, <1>4, <1>5, FS_Subset, FS_CardinalityType
<1>7. /\ Cardinality(Running) \in Nat /\ Cardinality(Claiming) \in Nat
      /\ Cardinality(Worker) \in Nat /\ Limit \in Nat
  BY <1>1, FS_CardinalityType, RunsAssumption
<1> QED BY <1>4, <1>5, <1>6, <1>7 DEF RoomFor

\* One step of one worker, of the queue or of a lease.
LEMMA RunsStep ==
    ASSUME Lapses = FALSE, DiesBetween = FALSE, RunsInv, [RunsNext]_runVars
    PROVE  RunsInv'
<1> USE DEF RunsInv
<1>1. ASSUME NEW r \in Run, QueueUpload(r) PROVE RunsInv'
  <2>1. Running' \subseteq Running /\ Claiming' \subseteq Claiming
    BY <1>1 DEF QueueUpload, Running, Claiming, RunsCore, RunsTypeOK
  <2> QED BY <1>1, <2>1, QueueKeeps, RoomKept
<1>2. ASSUME NEW r \in Run, LeaseRunsOut(r) PROVE RunsInv'
  <2>1. Running' \subseteq Running /\ Claiming' \subseteq Claiming
    BY <1>2 DEF LeaseRunsOut, Running, Claiming
  <2> QED BY <1>2, <2>1, LeaseKeeps, RoomKept
<1>3. ASSUME NEW w \in Worker, NEW r \in Run, SelectRun(w, r) PROVE RunsInv'
  BY <1>3, SelectKeeps, RoomToSelect
<1>4. ASSUME NEW w \in Worker, ClaimRun(w) PROVE RunsInv'
  BY <1>4, ClaimKeeps, RoomToClaim
<1>5. ASSUME NEW w \in Worker,
             \/ BeginReading(w) \/ CannotStart(w)
             \/ \E outcome \in {"succeeded", "failed"} : FileIsRead(w, outcome)
             \/ MarkRun(w) \/ MarkingFails(w) \/ FailRun(w) \/ AfterFailure(w)
      PROVE  RunsInv'
  <2>1. Running' \subseteq Running
    BY <1>5 DEF BeginReading, CannotStart, FileIsRead, MarkRun, MarkingFails, FailRun,
                AfterFailure, Running, RunsCore, RunsTypeOK
  <2>2. \E point \in Owning : Goto(w, point)
    BY <1>5 DEF BeginReading, CannotStart, FileIsRead, MarkRun, MarkingFails, FailRun,
                AfterFailure, Owning, Handling
  <2>3. Claiming' \subseteq Claiming
    BY <2>2, WorkerMoves DEF Claiming, RunsCore, Owning, Handling
  <2> QED BY <1>5, <2>1, <2>3, HandlerKeeps, RoomKept
<1>6. ASSUME NEW w \in Worker, ClearClaim(w) PROVE RunsInv'
  <2>1. Running' \subseteq Running /\ Claiming' \subseteq Claiming
    BY <1>6 DEF ClearClaim, Resting, Running, Claiming, RunsCore, RunsTypeOK
  <2> QED BY <1>6, <2>1, ClearKeeps, RoomKept
<1>7. ASSUME NEW w \in Worker, ReleaseScan(w) PROVE RunsInv'
  <2>1. Running' \subseteq Running /\ Claiming' \subseteq Claiming
    BY <1>7 DEF ReleaseScan, Running, Claiming, RunsCore, RunsTypeOK
  <2> QED BY <1>7, <2>1, ScanKeeps, RoomKept
<1>8. ASSUME NEW w \in Worker, ReleaseRuns(w) PROVE RunsInv'
  <2>1. Running' \subseteq Running
    BY <1>8 DEF ReleaseRuns, Running
  <2>2. Claiming' \subseteq Claiming
    BY <1>8 DEF ReleaseRuns, Claiming, RunsCore, RunsTypeOK
  <2> QED BY <1>8, <2>1, <2>2, ReleaseKeeps, RoomKept
<1>9. ASSUME NEW w \in Worker, AfterRelease(w) PROVE RunsInv'
  <2>1. Running' \subseteq Running /\ Claiming' \subseteq Claiming
    BY <1>9 DEF AfterRelease, Running, Claiming, RunsCore, RunsTypeOK
  <2> QED BY <1>9, <2>1, TellKeeps, RoomKept
<1>10. ASSUME NEW w \in Worker, ReleaseDone(w) \/ WorkerDies(w) PROVE RunsInv'
  <2>1. /\ UNCHANGED <<runStatus, claim, file>> /\ worker' = [worker EXCEPT ![w] = Resting]
        /\ worker[w].at \notin {"marking", "hooking"}
        /\ worker[w].at = "telling" => worker[w].list = {}
    BY <1>10 DEF ReleaseDone, WorkerDies, At
  <2>2. deaths' \in 0 .. MaxDeaths
    <3>1. \A d \in 0 .. MaxDeaths : d < MaxDeaths => d + 1 \in 0 .. MaxDeaths
      BY RunsAssumption
    <3> QED BY <1>10, <3>1 DEF ReleaseDone, WorkerDies, RunsCore, RunsTypeOK
  <2>3. Running' \subseteq Running /\ Claiming' \subseteq Claiming
    BY <2>1 DEF Resting, Running, Claiming, RunsCore, RunsTypeOK
  <2> QED BY <2>1, <2>2, <2>3, DoneKeeps, RoomKept
<1>11. CASE UNCHANGED runVars
  <2>1. RunsTypeOK' /\ OwnersHold' /\ ClaimsApart'
    BY <1>11 DEF runVars, RunsCore, RunsTypeOK, OwnersHold, ClaimsApart
  <2>2. (\A w \in Worker : KnownAt(w)')
    BY <1>11 DEF runVars, RunsCore, KnownAt
  <2>3. FileFollows'
    BY <1>11 DEF runVars, RunsCore, FileFollows, StillToTell
  <2>4. Running' \subseteq Running /\ Claiming' \subseteq Claiming
    BY <1>11 DEF runVars, Running, Claiming
  <2> QED BY <2>1, <2>2, <2>3, <2>4, RoomKept DEF RunsCore
<1> QED BY <1>1, <1>2, <1>3, <1>4, <1>5, <1>6, <1>7, <1>8, <1>9, <1>10, <1>11
        DEF RunsNext, WorkerStep

\* Nothing is queued and everybody rests.
LEMMA RunsStart == RunsInit => RunsInv
<1> SUFFICES ASSUME RunsInit PROVE RunsInv
  OBVIOUS
<1>1. Running = {} /\ Claiming = {}
  BY DEF RunsInit, Running, Claiming, Resting
<1>2. RoomFor
  BY <1>1, FS_EmptySet, FS_CardinalityType, RunsAssumption DEF RoomFor
<1>3. RunsTypeOK
  BY RunsAssumption DEF RunsInit, RunsTypeOK, Resting, Free
<1>4. \A w \in Worker : worker[w].at = "idle"
  BY DEF RunsInit, Resting
<1>5. OwnersHold /\ ClaimsApart /\ \A w \in Worker : KnownAt(w)
  BY <1>4 DEF OwnersHold, ClaimsApart, KnownAt, Owning, Handling
<1>6. FileFollows
  BY DEF RunsInit, FileFollows, Ended
<1> QED BY <1>2, <1>3, <1>5, <1>6 DEF RunsInv, RunsCore

\* Queued work is safe (background.py): one worker to a run, the run and its file say
\* the same once nobody is at work on it, and at most one run too many for each
\* worker but one.  That a worker's lease does not run out under it, and that it does
\* not die between two commits of one verdict, are conditions.
THEOREM RunsAreSafe ==
    ASSUME Lapses = FALSE, DiesBetween = FALSE
    PROVE  RunsSpec => []RunSafety
<1>1. RunsInit => RunsInv
  BY RunsStart
<1>2. RunsInv /\ [RunsNext]_runVars => RunsInv'
  BY RunsStep
<1>3. RunsInv => RunSafety
  <2> SUFFICES ASSUME RunsInv PROVE RunSafety
    OBVIOUS
  <2>1. OneWorkerHasIt
    <3>1. \A w \in Worker : worker[w].at \in Handling =>
            runStatus[worker[w].run] = "running" /\ claim[worker[w].run].by = w
      BY DEF RunsInv, RunsCore, OwnersHold, KnownAt, Owning
    <3> QED BY <3>1 DEF OneWorkerHasIt
  <2>2. RunAndFileAgree
    BY DEF RunsInv, RunsCore, RunAndFileAgree, FileFollows, StillToTell
  <2>3. NearTheLimit
    <3>1. /\ Cardinality(Running) \in Nat /\ Cardinality(Claiming) \in Nat
          /\ Cardinality(Worker) \in Nat /\ Limit \in Nat
      BY RunsAssumption, FS_Subset, FS_CardinalityType DEF Running, Claiming
    <3>2. Cardinality(Running) <= Limit + Cardinality(Worker) - 1
      BY <3>1 DEF RunsInv, RoomFor
    <3> QED BY <3>2 DEF NearTheLimit, Running
  <2> QED BY <2>1, <2>2, <2>3 DEF RunSafety, RunsInv, RunsCore
<1> QED BY <1>1, <1>2, <1>3, PTL DEF RunsSpec

\* The verdict of a run is not taken back (mark_finished, release_stalled: each looks
\* at the status it finds).
THEOREM RunVerdictIsFinal ==
    ASSUME Lapses = FALSE, DiesBetween = FALSE
    PROVE  RunsSpec => RunVerdictStands
<1>1. RunsInit => RunsInv
  BY RunsStart
<1>2. RunsInv /\ [RunsNext]_runVars => RunsInv'
  BY RunsStep
<1>3. RunsInv /\ [RunsNext]_runVars
        => [\A r \in Run : runStatus[r] \in Ended => runStatus'[r] = runStatus[r]]_runVars
  <2> SUFFICES ASSUME RunsInv, RunsNext, NEW r \in Run, runStatus[r] \in Ended
               PROVE  runStatus'[r] = runStatus[r]
    BY DEF runVars
  <2>1. RunsTypeOK /\ \A w \in Worker : KnownAt(w)
    BY DEF RunsInv, RunsCore
  <2>2. ASSUME NEW s \in Run, QueueUpload(s) PROVE runStatus'[r] = runStatus[r]
    BY <2>1, <2>2 DEF QueueUpload, Ended, RunsTypeOK
  <2>3. ASSUME NEW w \in Worker, ClaimRun(w) \/ MarkRun(w) \/ FailRun(w)
        PROVE  runStatus'[r] = runStatus[r]
    <3>1. runStatus[worker[w].run] \in {"queued", "running"}
      BY <2>1, <2>3 DEF KnownAt, ClaimRun, MarkRun, FailRun, At, Handling
    <3> QED BY <2>1, <2>3, <3>1 DEF ClaimRun, MarkRun, FailRun, Ended, RunsTypeOK
  <2>4. ASSUME NEW w \in Worker, ReleaseRuns(w) PROVE runStatus'[r] = runStatus[r]
    BY <2>4 DEF ReleaseRuns, Stalled, Ended
  <2> QED BY <2>2, <2>3, <2>4
          DEF RunsNext, WorkerStep, LeaseRunsOut, SelectRun, BeginReading, FileIsRead,
              AfterFailure, ClearClaim, ReleaseScan, AfterRelease, ReleaseDone, CannotStart,
              MarkingFails, WorkerDies
<1> QED BY <1>1, <1>2, <1>3, PTL DEF RunsSpec, RunVerdictStands

-----------------------------------------------------------------------------
(***************************************************************************)
(* Incidents.  A sweep that is about to open one looked when none was      *)
(* active: what is active now, with what is about to be opened, was opened *)
(* by sweeps that were under way together, or brought back by people.      *)
(***************************************************************************)

\* The sweeps that are about to open an incident.
Opening == {w \in Sweeper : /\ sweeper[w].at = "looked"
                            /\ sweeper[w].problem /\ sweeper[w].active = {}}

\* What a person is about to write suits what they saw.
ActsSuit ==
    \A o \in Operator : operator[o].at = "looked" =>
        operator[o].act \in Act /\ operator[o].of \in DOMAIN incidents
        /\ Permitted(operator[o].act, operator[o].seen)

IncidentsInv ==
    /\ IncidentsTypeOK
    /\ ActsSuit
    /\ Cardinality(UnderWay) <= together
    /\ Cardinality(Active) + Cardinality(Opening) <= together + reopened

SweeperStates ==
    [at : {"idle", "looked"}, problem : BOOLEAN, active : SUBSET DOMAIN incidents]
OperatorStates ==
    [at : {"idle", "looked"}, act : Act \cup {"none"}, of : DOMAIN incidents \cup {0},
     seen : Status]

\* The sets that are counted are finite.
LEMMA CountedSets ==
    ASSUME IncidentsTypeOK
    PROVE  /\ IsFiniteSet(UnderWay) /\ IsFiniteSet(Opening) /\ IsFiniteSet(Active)
           /\ Cardinality(UnderWay) \in Nat /\ Cardinality(Opening) \in Nat
           /\ Cardinality(Active) \in Nat
<1>1. IsFiniteSet(UnderWay) /\ IsFiniteSet(Opening)
  BY FS_Subset, IncidentsAssumption DEF UnderWay, Opening
<1>2. IsFiniteSet(1 .. Len(incidents)) /\ DOMAIN incidents = 1 .. Len(incidents)
  BY FS_Interval, LenProperties DEF IncidentsTypeOK
<1>3. IsFiniteSet(Active)
  BY <1>2, FS_Subset DEF Active
<1> QED BY <1>1, <1>3, FS_CardinalityType

\* With no more active incidents, sweeps under way and incidents about to be opened,
\* the counts stay as they should.
LEMMA NoMoreCounted ==
    ASSUME IncidentsInv, IncidentsTypeOK',
           Active' \subseteq Active, UnderWay' \subseteq UnderWay, Opening' \subseteq Opening,
           together' = together, reopened \in Nat, reopened' \in Nat, reopened <= reopened'
    PROVE  /\ Cardinality(UnderWay') <= together'
           /\ Cardinality(Active') + Cardinality(Opening') <= together' + reopened'
<1>1. /\ Cardinality(UnderWay') <= Cardinality(UnderWay)
      /\ Cardinality(Active') <= Cardinality(Active)
      /\ Cardinality(Opening') <= Cardinality(Opening)
  BY CountedSets, FS_Subset DEF IncidentsInv
<1>2. /\ Cardinality(UnderWay) \in Nat /\ Cardinality(Opening) \in Nat
      /\ Cardinality(Active) \in Nat /\ together \in Nat
      /\ Cardinality(UnderWay') \in Nat /\ Cardinality(Opening') \in Nat
      /\ Cardinality(Active') \in Nat
  BY CountedSets, FS_Subset, FS_CardinalityType DEF IncidentsInv, IncidentsTypeOK
<1>3. /\ Cardinality(Active) + Cardinality(Opening) <= together + reopened
      /\ Cardinality(UnderWay) <= together
  BY DEF IncidentsInv
<1> QED BY <1>1, <1>2, <1>3

\* The trouble comes or goes.
LEMMA TurnKeeps == ASSUME IncidentsInv, Turn PROVE IncidentsInv'
<1>1. /\ IncidentsTypeOK
      /\ UNCHANGED <<incidents, sweeper, operator, reopened, together, acts>>
      /\ turns' \in 0 .. MaxTurns /\ problem' \in BOOLEAN
  BY IncidentsAssumption DEF IncidentsInv, IncidentsTypeOK, Turn
<1> QED
  BY <1>1 DEF IncidentsInv, IncidentsTypeOK, ActsSuit, UnderWay, Active, Opening

\* A sweep looks (sweep_runtime_incidents, find_active).
LEMMA SweepLooksKeeps ==
    ASSUME IncidentsInv, NEW w \in Sweeper, SweepLooks(w)
    PROVE  IncidentsInv'
<1>1. /\ IncidentsTypeOK /\ UNCHANGED <<problem, incidents, operator, reopened, turns, acts>>
      /\ together \in Nat /\ reopened \in Nat
      /\ Cardinality(UnderWay) \in Nat /\ Cardinality(UnderWay) <= together
      /\ IsFiniteSet(UnderWay) /\ w \notin UnderWay
      /\ together' = IF Cardinality(UnderWay) < together THEN together
                     ELSE Cardinality(UnderWay) + 1
  BY CountedSets DEF IncidentsInv, IncidentsTypeOK, SweepLooks, UnderWay
<1>2. /\ sweeper' \in [Sweeper -> SweeperStates]
      /\ sweeper'[w].at = "looked" /\ sweeper'[w].problem = problem
      /\ sweeper'[w].active = Active
      /\ \A v \in Sweeper \ {w} : sweeper'[v] = sweeper[v]
  <2> DEFINE seen == [at |-> "looked", problem |-> problem, active |-> Active]
  <2>1. seen \in SweeperStates
    BY <1>1 DEF SweeperStates, IncidentsTypeOK, Active
  <2>2. seen.at = "looked" /\ seen.problem = problem /\ seen.active = Active
    OBVIOUS
  <2>3. sweeper' = [sweeper EXCEPT ![w] = seen] /\ sweeper \in [Sweeper -> SweeperStates]
    BY <1>1 DEF SweepLooks, IncidentsTypeOK, SweeperStates
  <2> HIDE DEF seen
  <2> QED BY <2>1, <2>2, <2>3
<1>3. together' \in Nat /\ together <= together' /\ Cardinality(UnderWay) + 1 <= together'
  BY <1>1
<1>4. IncidentsTypeOK'
  BY <1>1, <1>2, <1>3 DEF IncidentsTypeOK, SweeperStates
<1>5. ActsSuit'
  BY <1>1 DEF IncidentsInv, ActsSuit
<1>6. Cardinality(UnderWay') <= together'
  <2>1. UnderWay' = UnderWay \cup {w}
    BY <1>2 DEF UnderWay
  <2>2. Cardinality(UnderWay') = Cardinality(UnderWay) + 1
    BY <1>1, <2>1, FS_AddElement
  <2> QED BY <1>3, <2>2
<1>7. Cardinality(Active') + Cardinality(Opening') <= together' + reopened'
  <2>0. Active' = Active
    BY <1>1 DEF Active
  <2>1. CASE Active = {}
    <3>1. Cardinality(Active') = 0
      BY <2>0, <2>1, FS_EmptySet
    <3>2. Opening' \subseteq UnderWay' /\ IsFiniteSet(UnderWay')
      <4>1. Opening' \subseteq UnderWay'
        BY DEF Opening, UnderWay
      <4>2. UnderWay' = UnderWay \cup {w}
        BY <1>2 DEF UnderWay
      <4>3. IsFiniteSet(UnderWay')
        BY <1>1, <4>2, FS_AddElement
      <4> QED BY <4>1, <4>3
    <3>3. Cardinality(Opening') <= Cardinality(UnderWay') /\ Cardinality(Opening') \in Nat
          /\ Cardinality(UnderWay') \in Nat
      BY <3>2, FS_Subset, FS_CardinalityType
    <3> QED BY <1>1, <1>3, <1>6, <3>1, <3>3
  <2>2. CASE Active # {}
    <3>1. Opening' = Opening
      BY <1>1, <1>2, <2>2 DEF Opening, UnderWay
    <3>2. /\ Cardinality(Active) \in Nat /\ Cardinality(Opening) \in Nat
          /\ Cardinality(Active) + Cardinality(Opening) <= together + reopened
      BY CountedSets DEF IncidentsInv
    <3>3. Cardinality(Active) + Cardinality(Opening) <= together' + reopened'
      BY <1>1, <1>3, <3>2
    <3> QED BY <2>0, <3>1, <3>3
  <2> QED BY <2>1, <2>2
<1> QED BY <1>4, <1>5, <1>6, <1>7 DEF IncidentsInv

\* What a sweep writes: one more incident, or none active of those it saw (report,
\* auto_resolve).
LEMMA SweepWrites ==
    ASSUME IncidentsInv, NEW w \in Sweeper, SweepCommits(w)
    PROVE  /\ incidents' \in Seq(Status) /\ DOMAIN incidents \subseteq DOMAIN incidents'
           /\ sweeper[w].problem /\ sweeper[w].active = {} =>
                Len(incidents') = Len(incidents) + 1
                /\ Active' = Active \cup {Len(incidents) + 1}
           /\ sweeper[w].problem /\ sweeper[w].active # {} => incidents' = incidents
           /\ ~sweeper[w].problem =>
                Len(incidents') = Len(incidents) /\ Active' = Active \ sweeper[w].active
<1>1. incidents \in Seq(Status) /\ Len(incidents) \in Nat
      /\ DOMAIN incidents = 1 .. Len(incidents)
      /\ sweeper[w].problem \in BOOLEAN
  BY LenProperties DEF IncidentsInv, IncidentsTypeOK
<1>2. CASE sweeper[w].problem /\ sweeper[w].active = {}
  <2>1. incidents' = Append(incidents, "open")
    BY <1>2 DEF SweepCommits, Reported
  <2>2. /\ incidents' \in Seq(Status) /\ Len(incidents') = Len(incidents) + 1
        /\ DOMAIN incidents' = 1 .. Len(incidents) + 1
        /\ incidents'[Len(incidents) + 1] = "open"
        /\ \A i \in 1 .. Len(incidents) : incidents'[i] = incidents[i]
    BY <1>1, <2>1, LenProperties DEF Status
  <2>3. Active' = Active \cup {Len(incidents) + 1}
    BY <1>1, <2>2 DEF Active
  <2> QED BY <1>1, <1>2, <2>2, <2>3
<1>3. CASE sweeper[w].problem /\ sweeper[w].active # {}
  BY <1>1, <1>3 DEF SweepCommits, Reported
<1>4. CASE ~sweeper[w].problem
  <2>1. incidents' = [i \in 1 .. Len(incidents) |->
                        IF i \in sweeper[w].active THEN "resolved" ELSE incidents[i]]
    BY <1>1, <1>4 DEF SweepCommits, Closed
  <2>2. incidents' \in [1 .. Len(incidents) -> Status]
    BY <1>1, <2>1, LenProperties DEF Status
  <2>3. incidents' \in Seq(Status) /\ DOMAIN incidents' = 1 .. Len(incidents)
    BY <1>1, <2>2, SeqDef
  <2>4. Len(incidents') = Len(incidents)
    BY <1>1, <2>3, LenProperties
  <2>5. Active' = Active \ sweeper[w].active
    BY <1>1, <2>1, <2>3 DEF Active
  <2> QED BY <1>1, <1>4, <2>3, <2>4, <2>5
<1> QED BY <1>1, <1>2, <1>3, <1>4

\* A sweep reports or closes what it looked at (sweep_runtime_incidents).
LEMMA SweepCommitsKeeps ==
    ASSUME IncidentsInv, NEW w \in Sweeper, SweepCommits(w)
    PROVE  IncidentsInv'
<1>1. /\ IncidentsTypeOK /\ UNCHANGED <<problem, operator, reopened, together, turns, acts>>
      /\ together \in Nat /\ reopened \in Nat
      /\ incidents' \in Seq(Status) /\ DOMAIN incidents \subseteq DOMAIN incidents'
      /\ sweeper[w].problem \in BOOLEAN /\ sweeper[w].at = "looked"
  <2>1. incidents' \in Seq(Status) /\ DOMAIN incidents \subseteq DOMAIN incidents'
    BY SweepWrites
  <2> QED BY <2>1 DEF IncidentsInv, IncidentsTypeOK, SweepCommits
<1>2. /\ sweeper' \in [Sweeper -> SweeperStates'] /\ sweeper'[w].at = "idle"
      /\ \A v \in Sweeper \ {w} : sweeper'[v] = sweeper[v]
  <2>1. SweeperRests \in SweeperStates' /\ SweeperRests.at = "idle"
    BY DEF SweeperRests, SweeperStates
  <2>2. sweeper \in [Sweeper -> SweeperStates']
    BY <1>1 DEF IncidentsTypeOK, SweeperStates
  <2>3. sweeper' = [sweeper EXCEPT ![w] = SweeperRests]
    BY DEF SweepCommits
  <2> QED BY <2>1, <2>2, <2>3
<1>3. IncidentsTypeOK'
  <2>1. operator' \in [Operator -> OperatorStates']
    BY <1>1 DEF IncidentsTypeOK, OperatorStates
  <2> QED BY <1>1, <1>2, <2>1 DEF IncidentsTypeOK, SweeperStates, OperatorStates
<1>4. ActsSuit'
  BY <1>1 DEF IncidentsInv, ActsSuit
<1>5. UnderWay' \subseteq UnderWay /\ Opening' = Opening \ {w}
  BY <1>2 DEF UnderWay, Opening
<1>6. CASE sweeper[w].problem /\ sweeper[w].active = {}
  <2>1. Active' = Active \cup {Len(incidents) + 1} /\ w \in Opening
    BY <1>1, <1>6, SweepWrites DEF Opening
  <2>2. /\ IsFiniteSet(Active) /\ IsFiniteSet(Opening) /\ IsFiniteSet(UnderWay)
        /\ Cardinality(Active) \in Nat /\ Cardinality(Opening) \in Nat
        /\ Cardinality(UnderWay) \in Nat
    BY <1>1, CountedSets
  <2>3. Cardinality(Active') <= Cardinality(Active) + 1 /\ Cardinality(Active') \in Nat
    <3>1. /\ IsFiniteSet(Active')
          /\ Cardinality(Active') = IF Len(incidents) + 1 \in Active THEN Cardinality(Active)
                                    ELSE Cardinality(Active) + 1
      BY <2>1, <2>2, FS_AddElement
    <3> QED BY <2>2, <3>1
  <2>4. Cardinality(Opening') = Cardinality(Opening) - 1 /\ Cardinality(Opening') \in Nat
    BY <1>5, <2>1, <2>2, FS_RemoveElement, FS_CardinalityType
  <2>5. Cardinality(UnderWay') <= Cardinality(UnderWay) /\ Cardinality(UnderWay') \in Nat
    BY <1>5, <2>2, FS_Subset, FS_CardinalityType
  <2>6. /\ Cardinality(Active) + Cardinality(Opening) <= together + reopened
        /\ Cardinality(UnderWay) <= together
    BY DEF IncidentsInv
  <2>7. Cardinality(Active') + Cardinality(Opening') <= together' + reopened'
    BY <1>1, <2>2, <2>3, <2>4, <2>6
  <2>8. Cardinality(UnderWay') <= together'
    BY <1>1, <2>2, <2>5, <2>6
  <2> QED BY <1>3, <1>4, <2>7, <2>8 DEF IncidentsInv
<1>7. CASE ~(sweeper[w].problem /\ sweeper[w].active = {})
  <2>1. Active' \subseteq Active
    <3>1. incidents' = incidents => Active' = Active
      BY DEF Active
    <3> QED BY <1>1, <1>7, <3>1, SweepWrites
  <2>2. Opening' \subseteq Opening
    BY <1>5
  <2> QED BY <1>1, <1>3, <1>4, <1>5, <2>1, <2>2, NoMoreCounted DEF IncidentsInv
<1> QED BY <1>6, <1>7

\* A person looks at an incident and asks for something (acknowledge, resolve, reopen).
LEMMA ActLooksKeeps ==
    ASSUME IncidentsInv, NEW o \in Operator, NEW act \in Act, NEW i \in DOMAIN incidents,
           ActLooks(o, act, i)
    PROVE  IncidentsInv'
<1>1. /\ IncidentsTypeOK
      /\ UNCHANGED <<problem, incidents, sweeper, reopened, together, turns>>
      /\ acts' \in 0 .. MaxActs /\ incidents[i] \in Status
  BY IncidentsAssumption DEF IncidentsInv, IncidentsTypeOK, ActLooks
<1>2. /\ operator' \in [Operator -> OperatorStates]
      /\ operator'[o].at = "looked" /\ operator'[o].act = act /\ operator'[o].of = i
      /\ operator'[o].seen = incidents[i]
      /\ \A p \in Operator \ {o} : operator'[p] = operator[p]
  <2> DEFINE asks == [at |-> "looked", act |-> act, of |-> i, seen |-> incidents[i]]
  <2>1. asks \in OperatorStates
    BY <1>1 DEF OperatorStates
  <2>2. asks.at = "looked" /\ asks.act = act /\ asks.of = i /\ asks.seen = incidents[i]
    OBVIOUS
  <2>3. operator' = [operator EXCEPT ![o] = asks] /\ operator \in [Operator -> OperatorStates]
    BY <1>1 DEF ActLooks, IncidentsTypeOK, OperatorStates
  <2> HIDE DEF asks
  <2> QED BY <2>1, <2>2, <2>3
<1>3. IncidentsTypeOK'
  BY <1>1, <1>2 DEF IncidentsTypeOK, OperatorStates
<1>4. ActsSuit'
  <2>1. Permitted(act, incidents[i])
    BY DEF ActLooks
  <2> SUFFICES ASSUME NEW p \in Operator, operator'[p].at = "looked"
               PROVE  /\ operator'[p].act \in Act /\ operator'[p].of \in DOMAIN incidents
                      /\ Permitted(operator'[p].act, operator'[p].seen)
    BY <1>1 DEF ActsSuit, Permitted, Act
  <2>2. CASE p = o
    BY <1>2, <2>1, <2>2
  <2>3. CASE p # o
    BY <1>2, <2>3 DEF IncidentsInv, ActsSuit
  <2> QED BY <2>2, <2>3
<1>5. UnderWay' = UnderWay /\ Active' = Active /\ Opening' = Opening
  BY <1>1 DEF UnderWay, Active, Opening
<1> QED BY <1>1, <1>3, <1>4, <1>5 DEF IncidentsInv

\* What was asked for is written (acknowledge_incident, resolve_incident, reopen_incident).
LEMMA ActCommitsKeeps ==
    ASSUME IncidentsInv, NEW o \in Operator, ActCommits(o)
    PROVE  IncidentsInv'
<1>0. PICK i \in DOMAIN incidents, act \in Act, new \in Status :
        /\ i = operator[o].of /\ act = operator[o].act /\ new = Made(act)
        /\ Permitted(act, operator[o].seen)
        /\ new # "open" => act # "reopen"
        /\ new \in {"open", "acknowledged"} => act \in {"reopen", "acknowledge"}
  BY DEF IncidentsInv, ActsSuit, ActCommits, Made, Act, Status
<1>1. /\ IncidentsTypeOK /\ UNCHANGED <<problem, sweeper, together, turns, acts>>
      /\ together \in Nat /\ reopened \in Nat /\ incidents \in Seq(Status)
      /\ operator[o].at = "looked" /\ incidents' = [incidents EXCEPT ![i] = new]
      /\ reopened' = reopened + (IF act = "reopen" \/ incidents[i] # operator[o].seen
                                 THEN 1 ELSE 0)
      /\ operator' = [operator EXCEPT ![o] = OperatorRests]
  BY <1>0 DEF IncidentsInv, IncidentsTypeOK, ActCommits
<1>2. /\ incidents' \in Seq(Status) /\ DOMAIN incidents' = DOMAIN incidents
      /\ incidents'[i] = new
      /\ \A j \in DOMAIN incidents \ {i} : incidents'[j] = incidents[j]
  BY <1>1, ExceptSeq
<1>3. /\ operator' \in [Operator -> OperatorStates] /\ operator'[o].at = "idle"
      /\ \A p \in Operator \ {o} : operator'[p] = operator[p]
  <2>1. OperatorRests \in OperatorStates /\ OperatorRests.at = "idle"
    BY DEF OperatorRests, OperatorStates, Status
  <2> QED BY <1>1, <2>1 DEF IncidentsTypeOK, OperatorStates
<1>4. IncidentsTypeOK' /\ reopened' \in Nat /\ reopened <= reopened'
  <2>1. reopened' \in Nat /\ reopened <= reopened'
    BY <1>1
  <2> QED BY <1>1, <1>2, <1>3, <2>1 DEF IncidentsTypeOK, OperatorStates
<1>5. ActsSuit'
  BY <1>1, <1>2, <1>3 DEF IncidentsInv, ActsSuit
<1>6. UnderWay' = UnderWay /\ Opening' = Opening
  BY <1>1 DEF UnderWay, Opening
<1>7. CASE act = "reopen" \/ incidents[i] # operator[o].seen
  <2>1. reopened' = reopened + 1
    BY <1>1, <1>7
  <2>2. Active' \subseteq Active \cup {i}
    BY <1>2 DEF Active
  <2>3. /\ IsFiniteSet(Active) /\ Cardinality(Active) \in Nat
        /\ Cardinality(Opening) \in Nat
    BY <1>1, CountedSets
  <2>4. Cardinality(Active') <= Cardinality(Active) + 1 /\ Cardinality(Active') \in Nat
    <3>1. IsFiniteSet(Active \cup {i}) /\ Cardinality(Active \cup {i}) <= Cardinality(Active) + 1
          /\ Cardinality(Active \cup {i}) \in Nat
      <4>1. /\ IsFiniteSet(Active \cup {i})
            /\ Cardinality(Active \cup {i}) = IF i \in Active THEN Cardinality(Active)
                                              ELSE Cardinality(Active) + 1
        BY <2>3, FS_AddElement
      <4> QED BY <2>3, <4>1
    <3>2. Cardinality(Active') <= Cardinality(Active \cup {i}) /\ Cardinality(Active') \in Nat
      BY <2>2, <3>1, FS_Subset, FS_CardinalityType
    <3> QED BY <2>3, <3>1, <3>2
  <2>5. /\ Cardinality(Active) + Cardinality(Opening) <= together + reopened
        /\ Cardinality(UnderWay) <= together
    BY DEF IncidentsInv
  <2>6. Cardinality(Active') + Cardinality(Opening) <= together' + reopened'
    BY <1>1, <2>1, <2>3, <2>4, <2>5
  <2> QED BY <1>1, <1>4, <1>5, <1>6, <2>5, <2>6 DEF IncidentsInv
<1>8. CASE act # "reopen" /\ incidents[i] = operator[o].seen
  <2>1. new \in {"open", "acknowledged"} => incidents[i] = "open"
    BY <1>0, <1>8 DEF Permitted
  <2>2. Active' \subseteq Active
    BY <1>2, <2>1 DEF Active
  <2> QED BY <1>1, <1>4, <1>5, <1>6, <2>2, NoMoreCounted DEF IncidentsInv
<1> QED BY <1>7, <1>8

\* "The same rule failing again lands on the same incident": a problem never has more
\* active incidents than sweeps were under way at once and incidents were brought
\* back; with sweeps one after the other and nobody who brings one back, it has one
\* (report, auto_resolve, reopen).
THEOREM IncidentsAreSafe == IncidentsSpec => []IncidentSafety
<1>1. IncidentsInit => IncidentsInv
  <2> SUFFICES ASSUME IncidentsInit PROVE IncidentsInv
    OBVIOUS
  <2>1. /\ Active = {} /\ Opening = {} /\ UnderWay = {} /\ incidents \in Seq(Status)
    BY EmptySeq DEF IncidentsInit, Active, Opening, UnderWay, SweeperRests
  <2>2. IncidentsTypeOK
    <3>1. /\ SweeperRests \in SweeperStates /\ OperatorRests \in OperatorStates
          /\ turns \in 0 .. MaxTurns /\ acts \in 0 .. MaxActs
      BY IncidentsAssumption
         DEF IncidentsInit, SweeperRests, OperatorRests, Status, SweeperStates, OperatorStates
    <3>2. /\ sweeper \in [Sweeper -> SweeperStates] /\ operator \in [Operator -> OperatorStates]
          /\ problem \in BOOLEAN /\ reopened \in Nat /\ together \in Nat
      BY <3>1 DEF IncidentsInit
    <3> QED BY <2>1, <3>1, <3>2 DEF IncidentsTypeOK, SweeperStates, OperatorStates
  <2>3. ActsSuit
    BY DEF IncidentsInit, ActsSuit, OperatorRests
  <2>4. together = 0 /\ reopened = 0 /\ Cardinality({}) = 0
    BY FS_EmptySet DEF IncidentsInit
  <2> QED BY <2>1, <2>2, <2>3, <2>4 DEF IncidentsInv
<1>2. IncidentsInv /\ [IncidentsNext]_incidentVars => IncidentsInv'
  <2> SUFFICES ASSUME IncidentsInv, [IncidentsNext]_incidentVars PROVE IncidentsInv'
    OBVIOUS
  <2>1. CASE UNCHANGED incidentVars
    BY <2>1 DEF incidentVars, IncidentsInv, IncidentsTypeOK, ActsSuit, UnderWay, Active, Opening
  <2> QED BY <2>1, TurnKeeps, SweepLooksKeeps, SweepCommitsKeeps, ActLooksKeeps,
             ActCommitsKeeps DEF IncidentsNext, SweepStep
<1>3. IncidentsInv => IncidentSafety
  <2> SUFFICES ASSUME IncidentsInv PROVE Cardinality(Active) <= together + reopened
    BY DEF IncidentSafety, IncidentsInv, OneActive
  <2>1. Cardinality(Active) \in Nat /\ Cardinality(Opening) \in Nat
    BY CountedSets DEF IncidentsInv
  <2>2. /\ Cardinality(Active) + Cardinality(Opening) <= together + reopened
        /\ together \in Nat /\ reopened \in Nat
    BY DEF IncidentsInv, IncidentsTypeOK
  <2> QED BY <2>1, <2>2
<1> QED BY <1>1, <1>2, <1>3, PTL DEF IncidentsSpec

-----------------------------------------------------------------------------
(***************************************************************************)
(* Uploads.  While a request to complete runs beside no other, one request *)
(* finishes the session at a time, nothing is stored behind it, and the    *)
(* parts it removed are not there for the next.                            *)
(***************************************************************************)

Points == {"idle", "storing", "saving", "clearing away"} \cup Completing
Parts == {"none", "good", "spoilt", "removed"}
SessionStates ==
    [there : {"not yet", "yes", "no"}, received : SUBSET Chunk, expired : BOOLEAN]
RequestStates ==
    [at : Points, chunk : Chunk \cup {Nothing}, data : {"good", "spoilt"}, seen : SUBSET Chunk]

Finishing == {"joining", "cleaning", "ingesting"}

NotYetBegun ==
    session.there = "not yet" => session.received = {} /\ client = "sending"

\* What the row lists, and what a request will write to it, was stored.
ChunksStored ==
    /\ \A c \in session.received : part[c] # "none"
    /\ \A q \in Request : request[q].at \in {"storing", "saving"} =>
         request[q].chunk \in Chunk /\ \A c \in request[q].seen : part[c] # "none"

\* A client asks to complete when all has arrived, and sends nothing after.
AllArrived ==
    client # "sending" =>
        /\ \A q \in Request : request[q].at \notin {"storing", "saving"}
        /\ session.there = "yes" => session.received = Chunk

OneFinishes ==
    \A q \in Request : request[q].at \in Finishing =>
        /\ client # "sending"
        /\ \A other \in Request \ {q} : request[other].at \notin Finishing

NotTwice ==
    /\ datasets <= 1
    /\ datasets = 1 => client # "sending" /\ \A c \in Chunk : part[c] # "good"
    /\ \A q \in Request :
         /\ request[q].at \in {"cleaning", "ingesting"} => datasets = 0
         /\ request[q].at = "ingesting" => \A c \in Chunk : part[c] # "good"

UploadsInv ==
    /\ UploadsTypeOK
    /\ NotYetBegun
    /\ ChunksStored
    /\ AllArrived
    /\ OneFinishes
    /\ NotTwice

\* A mishap is one of few.
LEMMA MishapsBounded ==
    ASSUME UploadsTypeOK, Mishap \/ UNCHANGED mishaps PROVE mishaps' \in 0 .. MaxMishaps
<1>1. \A m \in 0 .. MaxMishaps : m < MaxMishaps => m + 1 \in 0 .. MaxMishaps
  BY UploadsAssumption
<1> QED BY <1>1 DEF UploadsTypeOK, Mishap

\* A request goes on, or is answered; the others stand.
LEMMA RequestGoes ==
    ASSUME UploadsTypeOK, NEW q \in Request, NEW what \in Points, Then(q, what)
    PROVE  /\ request' \in [Request -> RequestStates]
           /\ request'[q].at = what /\ request'[q].chunk = request[q].chunk
           /\ request'[q].seen = request[q].seen
           /\ \A other \in Request \ {q} : request'[other] = request[other]
<1> DEFINE next == [request[q] EXCEPT !.at = what]
<1>1. request \in [Request -> RequestStates] /\ request[q] \in RequestStates
  BY DEF UploadsTypeOK, RequestStates, Points
<1>2. /\ next \in RequestStates /\ next.at = what /\ next.chunk = request[q].chunk
      /\ next.seen = request[q].seen
  BY <1>1 DEF RequestStates
<1>3. request' = [request EXCEPT ![q] = next]
  BY DEF Then
<1> HIDE DEF next
<1> QED BY <1>1, <1>2, <1>3

\* A request that is answered leaves its worker idle.
LEMMA RequestAnswered ==
    ASSUME UploadsTypeOK, NEW q \in Request, Answer(q)
    PROVE  /\ request' \in [Request -> RequestStates] /\ request'[q].at = "idle"
           /\ \A other \in Request \ {q} : request'[other] = request[other]
<1>1. /\ request \in [Request -> RequestStates] /\ NoRequest \in RequestStates
      /\ NoRequest.at = "idle"
  BY DEF UploadsTypeOK, RequestStates, Points, NoRequest
<1> QED BY <1>1 DEF Answer

\* A step that stores nothing, records nothing and finishes nothing more: the row goes,
\* parts go, a request ends or goes elsewhere.
Quits(q) ==
    /\ request' \in [Request -> RequestStates]
    /\ request'[q].at \in {"idle", "clearing away", "dropping"}
    /\ \A other \in Request \ {q} : request'[other] = request[other]
    /\ part' \in {part, PartsRemoved}
    /\ UNCHANGED datasets
    /\ client' = client \/ (client # "sending" /\ client' = "refused")
    /\ session' \in SessionStates /\ session'.received = session.received
    /\ session'.there \in {session.there, "no"}
    /\ mishaps' \in 0 .. MaxMishaps

\* A request that ends without ingesting leaves nothing recorded that is not stored.
LEMMA QuitsKeeps ==
    ASSUME UploadsInv, NEW q \in Request, Quits(q) PROVE UploadsInv'
<1>1. UploadsTypeOK /\ Quits(q)
  BY DEF UploadsInv
<1>2. /\ part' \in [Chunk -> Parts]
      /\ \A c \in Chunk : /\ part[c] # "none" => part'[c] # "none"
                          /\ part'[c] = "good" => part[c] = "good"
  BY <1>1 DEF UploadsTypeOK, Quits, PartsRemoved, Parts
<1>3. client' \in {"sending", "completing", "refused"} /\ (client' = "sending" <=> client = "sending")
  BY <1>1 DEF UploadsTypeOK, Quits
<1>4. UploadsTypeOK'
  BY <1>1, <1>2, <1>3 DEF UploadsTypeOK, Quits, RequestStates, SessionStates, Points, Parts
<1>5. NotYetBegun'
  BY <1>1, <1>3 DEF UploadsInv, NotYetBegun, Quits
<1>6. ChunksStored'
  <2>1. session.received \subseteq Chunk /\ \A other \in Request : request[other].seen \subseteq Chunk
    BY <1>1 DEF UploadsTypeOK
  <2> QED BY <1>1, <1>2, <2>1 DEF UploadsInv, ChunksStored, Quits
<1>7. AllArrived' /\ OneFinishes'
  BY <1>1, <1>3 DEF UploadsInv, AllArrived, OneFinishes, Quits, Finishing
<1>8. NotTwice'
  BY <1>1, <1>2, <1>3 DEF UploadsInv, NotTwice, Quits
<1> QED BY <1>4, <1>5, <1>6, <1>7, <1>8 DEF UploadsInv

\* The session's row alone changes: it is there, it is too old, it is swept.
LEMMA RowKeeps ==
    ASSUME UploadsInv, Create \/ Expire \/ Sweep PROVE UploadsInv'
<1>1. /\ UploadsTypeOK /\ UNCHANGED <<part, request, datasets, client, mishaps>>
      /\ session' \in SessionStates /\ session'.received = session.received
      /\ session'.there # "not yet"
      /\ session'.there = "yes" => session.there = "yes" \/ client = "sending"
  BY DEF UploadsInv, UploadsTypeOK, NotYetBegun, Create, Expire, Sweep, Found, SessionStates
<1>2. UploadsTypeOK'
  BY <1>1 DEF UploadsTypeOK, SessionStates
<1> QED BY <1>1, <1>2 DEF UploadsInv, NotYetBegun, ChunksStored, AllArrived, OneFinishes, NotTwice

\* A chunk arrives at its request (put_chunk), while the client sends.
LEMMA PutKeeps ==
    ASSUME UploadsInv, NEW q \in Request, SendMissing(q) \/ SendAgain(q) PROVE UploadsInv'
<1>1. PICK c \in Chunk, content \in {"good", "spoilt"} : PutRead(q, c, content)
  BY DEF SendMissing, SendAgain, Missing
<1>2. /\ UploadsTypeOK /\ UNCHANGED <<session, part, datasets, client>>
      /\ mishaps' \in 0 .. MaxMishaps /\ session.there = "yes"
  BY <1>1, MishapsBounded DEF UploadsInv, SendMissing, SendAgain, PutRead, Found
<1>3. client = "sending"
  BY <1>2 DEF UploadsInv, AllArrived, SendMissing, SendAgain, Missing
<1>4. /\ request' \in [Request -> RequestStates]
      /\ request'[q].at = "storing" /\ request'[q].chunk = c
      /\ request'[q].seen = session.received
      /\ \A other \in Request \ {q} : request'[other] = request[other]
  <2> DEFINE next == [at |-> "storing", chunk |-> c, data |-> content, seen |-> session.received]
  <2>1. /\ next \in RequestStates /\ next.at = "storing" /\ next.chunk = c
        /\ next.seen = session.received
    BY <1>2 DEF RequestStates, Points, UploadsTypeOK
  <2>2. request' = [request EXCEPT ![q] = next] /\ request \in [Request -> RequestStates]
    BY <1>1, <1>2 DEF PutRead, UploadsTypeOK, RequestStates, Points
  <2> HIDE DEF next
  <2> QED BY <2>1, <2>2
<1>5. UploadsTypeOK'
  BY <1>2, <1>4 DEF UploadsTypeOK, RequestStates, Points
<1>6. ChunksStored'
  BY <1>2, <1>4 DEF UploadsInv, ChunksStored
<1>7. NotYetBegun' /\ AllArrived'
  BY <1>2, <1>3 DEF UploadsInv, NotYetBegun, AllArrived
<1>8. OneFinishes' /\ NotTwice'
  BY <1>2, <1>4 DEF UploadsInv, OneFinishes, NotTwice, Finishing
<1> QED BY <1>5, <1>6, <1>7, <1>8 DEF UploadsInv

\* The part is stored, before the row lists it (put_chunk).
LEMMA StoreKeeps ==
    ASSUME UploadsInv, NEW q \in Request, ReceiveChunk(q) PROVE UploadsInv'
<1>1. /\ UploadsTypeOK /\ UNCHANGED <<session, datasets, client, mishaps>>
      /\ request[q].at = "storing"
  BY DEF UploadsInv, ReceiveChunk, Doing
<1>2. PICK c \in Chunk : c = request[q].chunk
  BY <1>1 DEF UploadsInv, ChunksStored
<1>3. client = "sending"
  BY <1>1 DEF UploadsInv, AllArrived
<1>4. /\ request' \in [Request -> RequestStates]
      /\ request'[q].at = "saving" /\ request'[q].chunk = c
      /\ request'[q].seen = request[q].seen \cup {c}
      /\ \A other \in Request \ {q} : request'[other] = request[other]
  <2> DEFINE next == [request[q] EXCEPT !.at = "saving", !.seen = SeenNow(q)]
  <2>1. request \in [Request -> RequestStates] /\ SeenNow(q) = request[q].seen \cup {c}
    BY <1>1, <1>2 DEF UploadsTypeOK, RequestStates, Points, SeenNow
  <2>2. /\ next \in RequestStates /\ next.at = "saving" /\ next.chunk = c
        /\ next.seen = request[q].seen \cup {c}
    BY <1>2, <2>1 DEF RequestStates, Points
  <2>3. request' = [request EXCEPT ![q] = next]
    BY <2>1 DEF ReceiveChunk
  <2> HIDE DEF next
  <2> QED BY <2>1, <2>2, <2>3
<1>5. /\ part' \in [Chunk -> Parts] /\ part'[c] # "none"
      /\ \A d \in Chunk : part[d] # "none" => part'[d] # "none"
  BY <1>1, <1>2 DEF UploadsTypeOK, ReceiveChunk, Stored, RequestStates, Parts
<1>6. UploadsTypeOK'
  BY <1>1, <1>4, <1>5 DEF UploadsTypeOK, RequestStates, Points, Parts
<1>7. ChunksStored'
  <2>1. session.received \subseteq Chunk /\ \A other \in Request : request[other].seen \subseteq Chunk
    BY <1>1 DEF UploadsTypeOK
  <2>2. \A other \in Request : request'[other].at \in {"storing", "saving"} =>
          /\ request[other].at \in {"storing", "saving"}
          /\ request'[other].chunk = request[other].chunk
          /\ request'[other].seen \subseteq request[other].seen \cup {c}
    BY <1>1, <1>2, <1>4
  <2> QED BY <1>1, <1>5, <2>1, <2>2 DEF UploadsInv, ChunksStored
<1>8. NotYetBegun' /\ AllArrived'
  BY <1>1, <1>3 DEF UploadsInv, NotYetBegun, AllArrived
<1>9. OneFinishes' /\ NotTwice'
  BY <1>1, <1>3, <1>4 DEF UploadsInv, OneFinishes, NotTwice, Finishing
<1> QED BY <1>6, <1>7, <1>8, <1>9 DEF UploadsInv

\* The row lists what this request read and received (SessionStore.save).
LEMMA SaveKeeps ==
    ASSUME UploadsInv, NEW q \in Request, Save(q) PROVE UploadsInv'
<1>1. /\ UploadsTypeOK /\ UNCHANGED <<part, datasets, client, mishaps>>
      /\ request[q].at = "saving"
  BY DEF UploadsInv, Save, Doing
<1>2. /\ request' \in [Request -> RequestStates] /\ request'[q].at = "idle"
      /\ \A other \in Request \ {q} : request'[other] = request[other]
  BY <1>1, RequestAnswered DEF Save
<1>3. client = "sending"
  BY <1>1 DEF UploadsInv, AllArrived
<1>4. /\ session' \in SessionStates /\ session'.there = session.there
      /\ \/ session'.received = session.received
         \/ session.there = "yes" /\ session'.received = request[q].seen
  BY <1>1 DEF Save, UploadsTypeOK, SessionStates
<1>5. UploadsTypeOK'
  BY <1>1, <1>2, <1>4 DEF UploadsTypeOK, RequestStates, SessionStates, Points
<1>6. ChunksStored'
  BY <1>1, <1>2, <1>4 DEF UploadsInv, ChunksStored
<1>7. NotYetBegun' /\ AllArrived'
  BY <1>1, <1>3, <1>4 DEF UploadsInv, NotYetBegun, AllArrived
<1>8. OneFinishes' /\ NotTwice'
  BY <1>1, <1>2 DEF UploadsInv, OneFinishes, NotTwice, Finishing
<1> QED BY <1>5, <1>6, <1>7, <1>8 DEF UploadsInv

\* A request begins to complete the session: everything is listed, and no request of
\* the session is under way (complete).
LEMMA CompleteKeeps ==
    ASSUME Overlaps = FALSE, UploadsInv, NEW q \in Request, Complete(q) \/ CompleteAgain(q)
    PROVE  UploadsInv'
<1>1. /\ UploadsTypeOK /\ UNCHANGED <<session, part, datasets>> /\ Then(q, "joining")
      /\ session.there = "yes" /\ session.received = Chunk
      /\ \A other \in Request : request[other].at = "idle"
      /\ mishaps' \in 0 .. MaxMishaps /\ client' \in {"completing", "refused"}
  BY MishapsBounded DEF UploadsInv, UploadsTypeOK, Complete, CompleteAgain, CompleteRead, Found,
                        Missing, Doing
<1>2. /\ request' \in [Request -> RequestStates] /\ request'[q].at = "joining"
      /\ \A other \in Request \ {q} : request'[other] = request[other]
  BY <1>1, RequestGoes DEF Points, Completing
<1>3. UploadsTypeOK'
  BY <1>1, <1>2 DEF UploadsTypeOK, RequestStates, Points
<1>4. NotYetBegun' /\ ChunksStored'
  BY <1>1, <1>2 DEF UploadsInv, NotYetBegun, ChunksStored
<1>5. AllArrived' /\ OneFinishes'
  BY <1>1, <1>2 DEF UploadsInv, AllArrived, OneFinishes, Finishing
<1>6. NotTwice'
  BY <1>1, <1>2 DEF UploadsInv, NotTwice
<1> QED BY <1>3, <1>4, <1>5, <1>6 DEF UploadsInv

\* The parts are joined and checked: only whole parts make a file (assemble).
LEMMA AssembleKeeps ==
    ASSUME UploadsInv, NEW q \in Request, Assemble(q) PROVE UploadsInv'
<1>1. /\ UploadsTypeOK /\ UNCHANGED <<session, part, datasets, mishaps>>
      /\ request[q].at = "joining" /\ client # "sending"
  BY DEF UploadsInv, OneFinishes, Finishing, Assemble, Doing
<1>2. CASE ~Matches
  <2>1. Answer(q) /\ client' = "refused"
    BY <1>2 DEF Assemble
  <2>2. Quits(q)
    BY <1>1, <2>1, RequestAnswered DEF Quits, UploadsTypeOK, SessionStates
  <2> QED BY <2>2, QuitsKeeps
<1>3. CASE Matches
  <2>1. /\ request' \in [Request -> RequestStates] /\ request'[q].at = "cleaning"
        /\ \A other \in Request \ {q} : request'[other] = request[other]
        /\ UNCHANGED client
    BY <1>1, <1>3, RequestGoes DEF Assemble, Points, Completing
  <2>2. datasets = 0
    <3>1. datasets # 1
      BY <1>3, UploadsAssumption DEF Matches, UploadsInv, NotTwice
    <3>2. datasets \in Nat /\ datasets <= 1
      <4>1. Cardinality(Request) \in Nat
        BY UploadsAssumption, FS_CardinalityType
      <4>2. datasets \in 0 .. Cardinality(Request) /\ datasets <= 1
        BY DEF UploadsInv, NotTwice, UploadsTypeOK
      <4> QED BY <4>1, <4>2
    <3> QED BY <3>1, <3>2
  <2>3. UploadsTypeOK'
    BY <1>1, <2>1 DEF UploadsTypeOK, RequestStates, Points
  <2>4. NotYetBegun' /\ ChunksStored'
    BY <1>1, <2>1 DEF UploadsInv, NotYetBegun, ChunksStored
  <2>5. AllArrived' /\ OneFinishes'
    BY <1>1, <2>1 DEF UploadsInv, AllArrived, OneFinishes, Finishing
  <2>6. NotTwice'
    BY <1>1, <2>1, <2>2 DEF UploadsInv, NotTwice
  <2> QED BY <2>3, <2>4, <2>5, <2>6 DEF UploadsInv
<1> QED BY <1>2, <1>3

\* The parts are removed before the file is read (cleanup).
LEMMA CleanupKeeps ==
    ASSUME UploadsInv, NEW q \in Request, Cleanup(q) PROVE UploadsInv'
<1>1. /\ UploadsTypeOK /\ UNCHANGED <<session, datasets, client, mishaps>>
      /\ request[q].at = "cleaning" /\ datasets = 0
  BY DEF UploadsInv, NotTwice, Cleanup, Doing
<1>2. /\ request' \in [Request -> RequestStates] /\ request'[q].at = "ingesting"
      /\ \A other \in Request \ {q} : request'[other] = request[other]
  BY <1>1, RequestGoes DEF Cleanup, Points, Completing
<1>3. /\ part' \in [Chunk -> Parts]
      /\ \A c \in Chunk : /\ part[c] # "none" => part'[c] # "none"
                          /\ part'[c] # "good"
  BY <1>1 DEF UploadsTypeOK, Cleanup, PartsRemoved, Parts
<1>4. UploadsTypeOK'
  BY <1>1, <1>2, <1>3 DEF UploadsTypeOK, RequestStates, Points, Parts
<1>5. ChunksStored'
  <2>1. session.received \subseteq Chunk /\ \A other \in Request : request[other].seen \subseteq Chunk
    BY <1>1 DEF UploadsTypeOK
  <2> QED BY <1>1, <1>2, <1>3, <2>1 DEF UploadsInv, ChunksStored
<1>6. NotYetBegun' /\ AllArrived' /\ OneFinishes'
  BY <1>1, <1>2 DEF UploadsInv, NotYetBegun, AllArrived, OneFinishes, Finishing
<1>7. NotTwice'
  BY <1>1, <1>2, <1>3 DEF UploadsInv, NotTwice
<1> QED BY <1>4, <1>5, <1>6, <1>7 DEF UploadsInv

\* The file becomes a dataset, or cannot be read (complete).
LEMMA IngestKeeps ==
    ASSUME UploadsInv, NEW q \in Request, Ingest(q) PROVE UploadsInv'
<1>1. /\ UploadsTypeOK /\ UNCHANGED <<session, part, client, mishaps>>
      /\ request[q].at = "ingesting" /\ datasets' \in {0, 1} /\ client # "sending"
      /\ \A c \in Chunk : part[c] # "good"
      /\ \A other \in Request \ {q} : request[other].at \notin Finishing
  BY DEF UploadsInv, NotTwice, OneFinishes, Finishing, Ingest, Doing
<1>2. /\ request' \in [Request -> RequestStates] /\ request'[q].at = "dropping"
      /\ \A other \in Request \ {q} : request'[other] = request[other]
  BY <1>1, RequestGoes DEF Ingest, Points, Completing
<1>3. datasets' \in 0 .. Cardinality(Request)
  <2>1. Cardinality(Request) \in Nat /\ Cardinality(Request) # 0
    BY UploadsAssumption, FS_CardinalityType, FS_EmptySet
  <2> QED BY <1>1, <2>1
<1>4. UploadsTypeOK'
  BY <1>1, <1>2, <1>3 DEF UploadsTypeOK, RequestStates, Points
<1>5. NotYetBegun' /\ ChunksStored'
  BY <1>1, <1>2 DEF UploadsInv, NotYetBegun, ChunksStored
<1>6. AllArrived' /\ OneFinishes'
  BY <1>1, <1>2 DEF UploadsInv, AllArrived, OneFinishes, Finishing
<1>7. NotTwice'
  BY <1>1, <1>2 DEF UploadsInv, NotTwice, Finishing
<1> QED BY <1>4, <1>5, <1>6, <1>7 DEF UploadsInv

\* What ends a request or a session: the row is dropped, the request is refused, dies,
\* or removes the parts of a session that was given up.
LEMMA EndsKeep ==
    ASSUME UploadsInv, NEW q \in Request,
           \/ SpecNotFound(q) \/ Drop(q) \/ AbandonRead(q) \/ AbandonCleanup(q)
           \/ RequestDies(q)
    PROVE  UploadsInv'
<1>1. UploadsTypeOK /\ mishaps' \in 0 .. MaxMishaps /\ UNCHANGED datasets
  BY MishapsBounded
     DEF UploadsInv, SpecNotFound, Drop, AbandonRead, AbandonCleanup, RequestDies
<1>2. /\ request' \in [Request -> RequestStates]
      /\ request'[q].at \in {"idle", "clearing away", "dropping"}
      /\ \A other \in Request \ {q} : request'[other] = request[other]
  <2>1. CASE Answer(q)
    BY <1>1, <2>1, RequestAnswered
  <2>2. CASE Then(q, "clearing away")
    BY <1>1, <2>2, RequestGoes DEF Points
  <2>3. CASE Then(q, "dropping")
    BY <1>1, <2>3, RequestGoes DEF Points, Completing
  <2> QED BY <2>1, <2>2, <2>3
          DEF SpecNotFound, Drop, AbandonRead, AbandonCleanup, RequestDies
<1>3. part' \in {part, PartsRemoved}
  BY DEF SpecNotFound, Drop, AbandonRead, AbandonCleanup, RequestDies
<1>4. client' = client \/ (client # "sending" /\ client' = "refused")
  BY DEF SpecNotFound, Drop, AbandonRead, AbandonCleanup, RequestDies, UploadsInv, OneFinishes,
         Finishing, Doing
<1>5. /\ session' \in SessionStates /\ session'.received = session.received
      /\ session'.there \in {session.there, "no"}
  BY <1>1 DEF SpecNotFound, Drop, AbandonRead, AbandonCleanup, RequestDies, UploadsTypeOK,
              SessionStates
<1>6. Quits(q)
  BY <1>1, <1>2, <1>3, <1>4, <1>5 DEF Quits
<1> QED BY <1>6, QuitsKeeps

\* Uploads are safe (resumable.py): what is recorded was stored, and a file becomes one
\* dataset at most, though requests die and are sent again.  That a request to complete
\* runs beside no other of the session is a condition.
THEOREM UploadsAreSafe ==
    ASSUME Overlaps = FALSE
    PROVE  UploadsSpec => []UploadSafety
<1>1. UploadsInit => UploadsInv
  <2> SUFFICES ASSUME UploadsInit PROVE UploadsInv
    OBVIOUS
  <2>1. \A q \in Request : request[q].at = "idle"
    BY DEF UploadsInit, NoRequest
  <2>2. UploadsTypeOK
    <3>1. NoRequest \in RequestStates /\ session \in SessionStates
      BY DEF UploadsInit, NoRequest, RequestStates, Points, SessionStates
    <3>2. request \in [Request -> RequestStates] /\ part \in [Chunk -> Parts]
      BY <3>1 DEF UploadsInit, Parts
    <3>3. datasets \in 0 .. Cardinality(Request) /\ mishaps \in 0 .. MaxMishaps
      <4>1. Cardinality(Request) \in Nat /\ MaxMishaps \in Nat
        BY UploadsAssumption, FS_CardinalityType
      <4>2. datasets = 0 /\ mishaps = 0
        BY DEF UploadsInit
      <4> QED BY <4>1, <4>2
    <3>4. client \in {"sending", "completing", "refused"}
      BY DEF UploadsInit
    <3> QED BY <2>1, <3>1, <3>2, <3>3, <3>4
            DEF UploadsTypeOK, RequestStates, Points, SessionStates, Parts
  <2>3. NotYetBegun /\ ChunksStored /\ AllArrived
    BY <2>1 DEF UploadsInit, NotYetBegun, ChunksStored, AllArrived
  <2>4. OneFinishes /\ NotTwice
    <3>1. datasets = 0
      BY DEF UploadsInit
    <3> QED BY <2>1, <3>1 DEF OneFinishes, NotTwice, Finishing
  <2> QED BY <2>2, <2>3, <2>4 DEF UploadsInv
<1>2. UploadsInv /\ [UploadsNext]_uploadVars => UploadsInv'
  <2> SUFFICES ASSUME UploadsInv, [UploadsNext]_uploadVars PROVE UploadsInv'
    OBVIOUS
  <2>1. CASE UNCHANGED uploadVars
    BY <2>1 DEF uploadVars, UploadsInv, UploadsTypeOK, NotYetBegun, ChunksStored, AllArrived,
                OneFinishes, NotTwice
  <2> QED BY <2>1, RowKeeps, PutKeeps, StoreKeeps, SaveKeeps, CompleteKeeps, AssembleKeeps,
             CleanupKeeps, IngestKeeps, EndsKeep
          DEF UploadsNext, Serve, ClientGoesOn, StartAgain
<1>3. UploadsInv => UploadSafety
  BY DEF UploadsInv, ChunksStored, NotTwice, UploadSafety, ArrivedIsStored, IngestedOnce
<1> QED BY <1>1, <1>2, <1>3, PTL DEF UploadsSpec

-----------------------------------------------------------------------------
(***************************************************************************)
(* Contracts.  While nobody edits the contract as data is judged, data     *)
(* lands under the verdict of the contract as it is, and a check is of the *)
(* current data.  Under "stop" what the current data breaks is told by a   *)
(* check or an erasure, which no stopped data replaces.                    *)
(***************************************************************************)

Late(w) == ticker[w].at = "looked" /\ ticker[w].stale /\ ~ticker[w].open

PersonIsAlone ==
    person.at = "looking" =>
        /\ \A p \in Producer : producer[p].at = "idle"
        /\ person.seen = head
        /\ person.act = "check" =>
             contract.there /\ person.terms = contract.terms /\ person.stops = contract.stops

JudgedNow ==
    \A p \in Producer : producer[p].at = "landing" =>
        /\ producer[p].verdict = Verdict(p, producer[p].data)
        /\ ~Stops(p, producer[p].verdict)

ShownUnderStop ==
    contract.there /\ contract.stops /\ Reasons(contract.terms, head) # {} =>
        \E p \in open : /\ p.outcome = "let_through" /\ p.source \notin Feed
                        /\ p.reasons = Reasons(contract.terms, head)

\* Each problem that new data is late was opened by a worker of its own.
OverdueBounded ==
    overdue + Cardinality({w \in Ticker : Late(w)}) <= Cardinality(Ticker)

\* What is told as let through is what the current data breaks.
ThroughIsHead ==
    contract.there =>
        /\ Reasons(contract.terms, head) = {} => \A p \in open : p.outcome # "let_through"
        /\ Reasons(contract.terms, head) # {} =>
             \E p \in open : p.outcome = "let_through"
                             /\ p.reasons = Reasons(contract.terms, head)

\* What is told as stopped is the last data of each feed.
StoppedIsLast ==
    \A f \in Feed :
        /\ last[f] = {} => \A p \in open : p.source = f => p.outcome # "stopped"
        /\ last[f] # {} =>
             \E p \in open : p.source = f /\ p.outcome = "stopped" /\ p.reasons = last[f]

PromisesInv ==
    /\ PersonIsAlone
    /\ JudgedNow
    /\ ThroughIsHead
    /\ ShownUnderStop
    /\ StoppedIsLast

ContractsInv ==
    /\ ContractsTypeOK
    /\ PromisesInv
    /\ OverdueBounded

VerdictStates == [known : BOOLEAN, reasons : Data, stops : BOOLEAN]
ContractStates == [there : BOOLEAN, terms : Data, stops : BOOLEAN]
ProducerStates == [at : {"idle", "landing"}, data : Data, verdict : VerdictStates]
PersonStates ==
    [at : {"idle", "looking"}, act : {"save", "check"}, terms : Data, stops : BOOLEAN,
     seen : Data]
TickerStates == [at : {"idle", "looked"}, stale : BOOLEAN, open : BOOLEAN]
Listed(list) == list \subseteq Problem /\ \A p, q \in list : p.source = q.source => p = q

\* What a list of problems says once one is recorded: the problem, in place of its
\* source's last and of whatever was let through before it.
Tells(list, from, reasons, outcome) ==
    /\ Listed(list)
    /\ \E p \in list : p.source = from /\ p.reasons = reasons /\ p.outcome = outcome
    /\ \A p \in list : p.source = from => p.reasons = reasons /\ p.outcome = outcome
    /\ \A p \in list : p.source # from => p \in open
    /\ \A p \in open :
         p.source # from /\ ~(outcome = "let_through" /\ p.outcome = "let_through")
           => p \in list

\* In whatever order the open problems are gone through (_record_problem).
LEMMA RecordedTells ==
    ASSUME Listed(open), NEW from \in Source, NEW reasons \in Data \ {{}},
           NEW outcome \in {"stopped", "let_through"},
           NEW list \in Recorded(from, reasons, outcome)
    PROVE  Tells(list, from, reasons, outcome)
<1> DEFINE again == {p \in open : Same(p, from, reasons)}
           others == {p \in open \ again : Superseded(p, from, outcome)}
           new == [source |-> from, reasons |-> reasons, outcome |-> outcome]
<1>1. new \in Problem /\ new.source = from /\ new.reasons = reasons /\ new.outcome = outcome
  BY DEF Problem
<1>2. PICK gone \in SUBSET (again \cup others) :
        /\ list = (open \ gone) \cup {new}
        /\ \A p \in open : p.source = from => p \in gone
  <2>1. CASE again = {}
    <3>1. list = (open \ others) \cup {new}
      BY <2>1 DEF Recorded
    <3>2. \A p \in open : p.source = from => p \in others
      BY <2>1 DEF Superseded
    <3> QED BY <3>1, <3>2
  <2>2. CASE again # {}
    <3>1. PICK passed \in SUBSET others : list = (open \ (again \cup passed)) \cup {new}
      BY <2>2 DEF Recorded
    <3>2. \A p \in open : p.source = from => p \in again
      BY <2>2 DEF Same, Listed
    <3> HIDE DEF again, others, new
    <3> QED BY <3>1, <3>2
  <2> QED BY <2>1, <2>2
<1>3. \A p \in gone : p \in open /\ (p.source = from
                        \/ (outcome = "let_through" /\ p.outcome = "let_through"))
  BY DEF Same, Superseded
<1> HIDE DEF again, others, new
<1>4. Listed(list)
  BY <1>1, <1>2 DEF Listed
<1>5. new \in list /\ \A p \in list : p = new \/ (p \in open /\ p.source # from)
  BY <1>2
<1> QED BY <1>1, <1>2, <1>3, <1>4, <1>5 DEF Tells

\* Data that keeps the contract answers its source, the checks and what was let through.
LEMMA ResolvedSays ==
    ASSUME Listed(open), NEW from
    PROVE  /\ Listed(Resolved(from)) /\ Resolved(from) \subseteq open
           /\ \A p \in Resolved(from) : p.outcome # "let_through" /\ p.source # from
           /\ \A p \in open :
                p.outcome # "let_through" /\ p.source \notin {from, "check"}
                  => p \in Resolved(from)
  BY DEF Resolved, Answers, Listed

\* The list of overdue problems is not the promises' to change, nor these its own.
LEMMA OverdueRests == ASSUME OverdueBounded, UNCHANGED lateVars PROVE OverdueBounded'
  BY DEF OverdueBounded, lateVars, Late

\* One landing more stays in the bound.
LEMMA LandingsBounded ==
    \A n, m \in Nat : n < m => n + 1 \in 0 .. m
  OBVIOUS

\* New data is judged, and stopped or on its way (check_new_data).
LEMMA CheckKeeps ==
    ASSUME Meanwhile = FALSE, ContractsInv, NEW p \in Producer, NEW news \in Data,
           CheckNewData(p, news)
    PROVE  ContractsInv'
<1> DEFINE verdict == Verdict(p, news)
<1>1. /\ ContractsTypeOK /\ UNCHANGED <<contract, person, touches, head, lateVars>>
      /\ person.at = "idle" /\ landings' \in 0 .. MaxLandings /\ Listed(open)
      /\ producer[p].at = "idle"
  <2>1. landings' \in 0 .. MaxLandings
    <3>1. landings \in Nat /\ MaxLandings \in Nat /\ landings < MaxLandings
          /\ landings' = landings + 1
      BY ContractAssumption DEF ContractsInv, ContractsTypeOK, CheckNewData
    <3> QED BY <3>1, LandingsBounded
  <2> QED BY <2>1 DEF ContractsInv, ContractsTypeOK, CheckNewData, Listed
<1>2. verdict \in VerdictStates
  BY <1>1 DEF Verdict, NoVerdict, VerdictStates, Reasons, Data, ContractsTypeOK
<1>3. OverdueBounded'
  BY <1>1, OverdueRests DEF ContractsInv
<1>4. CASE ~Stops(p, verdict)
  <2>1. UNCHANGED <<open, last>>
    BY <1>4 DEF CheckNewData
  <2>2. /\ producer' \in [Producer -> ProducerStates]
        /\ producer'[p].at = "landing" /\ producer'[p].data = news
        /\ producer'[p].verdict = verdict
        /\ \A q \in Producer \ {p} : producer'[q] = producer[q]
    <3> DEFINE next == [at |-> "landing", data |-> news, verdict |-> verdict]
    <3>1. /\ next \in ProducerStates /\ next.at = "landing" /\ next.data = news
          /\ next.verdict = verdict
      BY <1>2 DEF ProducerStates
    <3>2. /\ producer' = [producer EXCEPT ![p] = next]
          /\ producer \in [Producer -> ProducerStates]
      BY <1>1, <1>4 DEF CheckNewData, ContractsTypeOK, ProducerStates, VerdictStates
    <3> HIDE DEF next
    <3> QED BY <3>1, <3>2
  <2>3. ContractsTypeOK'
    BY <1>1, <2>1, <2>2 DEF ContractsTypeOK, ProducerStates, VerdictStates, lateVars
  <2>4. JudgedNow'
    <3>1. ASSUME NEW q \in Producer, producer'[q].at = "landing"
          PROVE  /\ producer'[q].verdict = Verdict(q, producer'[q].data)
                 /\ ~Stops(q, producer'[q].verdict)
      <4>1. CASE q = p
        BY <1>4, <2>2, <4>1
      <4>2. CASE q # p
        BY <2>2, <3>1, <4>2 DEF ContractsInv, PromisesInv, JudgedNow
      <4> QED BY <4>1, <4>2
    <3>2. \A q, d : Verdict(q, d)' = Verdict(q, d)
      BY <1>1 DEF Verdict
    <3> QED BY <1>1, <3>1 DEF JudgedNow, Verdict, Stops
  <2>5. PersonIsAlone' /\ ThroughIsHead' /\ ShownUnderStop' /\ StoppedIsLast'
    BY <1>1, <2>1 DEF ContractsInv, PromisesInv, PersonIsAlone, ThroughIsHead, ShownUnderStop,
                      StoppedIsLast
  <2> QED BY <1>3, <2>3, <2>4, <2>5 DEF ContractsInv, PromisesInv
<1>5. CASE Stops(p, verdict)
  <2>1. /\ p \in Feed /\ UNCHANGED producer
        /\ open' \in Recorded(p, verdict.reasons, "stopped")
        /\ last' = [last EXCEPT ![p] = verdict.reasons]
    BY <1>5 DEF CheckNewData
  <2>2. /\ contract.there /\ contract.stops /\ verdict.reasons \in Data \ {{}}
    BY <1>2, <1>5 DEF Stops, Verdict, NoVerdict, VerdictStates
  <2>3. Tells(open', p, verdict.reasons, "stopped")
    BY <1>1, <2>1, <2>2, RecordedTells DEF Source
  <2>4. /\ last' \in [Feed -> Data] /\ last'[p] = verdict.reasons
        /\ \A f \in Feed \ {p} : last'[f] = last[f]
    BY <1>1, <2>1, <2>2 DEF ContractsTypeOK
  <2>5. ContractsTypeOK'
    BY <1>1, <2>1, <2>3, <2>4 DEF ContractsTypeOK, Tells, Listed, lateVars
  <2>6. PersonIsAlone' /\ JudgedNow'
    BY <1>1, <2>1 DEF ContractsInv, PromisesInv, PersonIsAlone, JudgedNow, Verdict, Stops
  <2>7. ThroughIsHead' /\ ShownUnderStop'
    <3>1. Reasons(contract.terms, head) = {} => \A q \in open' : q.outcome # "let_through"
      BY <2>2, <2>3 DEF ContractsInv, PromisesInv, ThroughIsHead, Tells
    <3>2. Reasons(contract.terms, head) # {} =>
            \E q \in open' : /\ q.outcome = "let_through" /\ q.source \notin Feed
                             /\ q.reasons = Reasons(contract.terms, head)
      BY <2>1, <2>2, <2>3 DEF ContractsInv, PromisesInv, ShownUnderStop, Tells
    <3> QED BY <1>1, <3>1, <3>2 DEF ThroughIsHead, ShownUnderStop
  <2>8. StoppedIsLast'
    <3>1. ASSUME NEW f \in Feed
          PROVE  /\ last'[f] = {} => \A q \in open' : q.source = f => q.outcome # "stopped"
                 /\ last'[f] # {} => \E q \in open' : /\ q.source = f /\ q.outcome = "stopped"
                                                      /\ q.reasons = last'[f]
      <4>1. CASE f = p
        BY <2>2, <2>3, <2>4, <4>1 DEF Tells
      <4>2. CASE f # p
        BY <2>3, <2>4, <4>2 DEF ContractsInv, PromisesInv, StoppedIsLast, Tells
      <4> QED BY <4>1, <4>2
    <3> QED BY <3>1 DEF StoppedIsLast
  <2> QED BY <1>3, <2>5, <2>6, <2>7, <2>8 DEF ContractsInv, PromisesInv
<1> QED BY <1>4, <1>5

\* A producer is done: the others stand.
LEMMA ProducerDone ==
    ASSUME ContractsTypeOK, NEW p \in Producer,
           producer' = [producer EXCEPT ![p] = ProducerRests]
    PROVE  /\ producer' \in [Producer -> ProducerStates] /\ producer'[p].at = "idle"
           /\ \A q \in Producer \ {p} : producer'[q] = producer[q]
<1>1. /\ producer \in [Producer -> ProducerStates]
      /\ ProducerRests \in ProducerStates /\ ProducerRests.at = "idle"
  BY DEF ContractsTypeOK, ProducerStates, VerdictStates, ProducerRests, NoVerdict, Data
<1> QED BY <1>1

\* It lands, and the outcome is recorded in the same commit (record_landing).
LEMMA LandKeeps ==
    ASSUME Meanwhile = FALSE, ContractsInv, NEW p \in Producer, Land(p)
    PROVE  ContractsInv'
<1>0. PICK news \in Data, verdict \in VerdictStates :
        /\ news = producer[p].data /\ verdict = producer[p].verdict
        /\ verdict = Verdict(p, news) /\ ~Stops(p, verdict)
  BY DEF ContractsInv, ContractsTypeOK, VerdictStates, PromisesInv, JudgedNow, Land
<1>1. /\ ContractsTypeOK /\ UNCHANGED <<contract, person, touches, landings, lateVars>>
      /\ person.at = "idle" /\ Listed(open) /\ head' = news
      /\ producer' = [producer EXCEPT ![p] = ProducerRests]
  BY <1>0 DEF ContractsInv, ContractsTypeOK, Land, Listed
<1>2. /\ producer' \in [Producer -> ProducerStates] /\ producer'[p].at = "idle"
      /\ \A q \in Producer \ {p} : producer'[q] = producer[q]
  BY <1>1, ProducerDone
<1>3. OverdueBounded'
  BY <1>1, OverdueRests DEF ContractsInv
<1>4. PersonIsAlone' /\ JudgedNow'
  BY <1>1, <1>2 DEF ContractsInv, PromisesInv, PersonIsAlone, JudgedNow, Verdict, Stops
<1>5. CASE ~contract.there
  <2>1. UNCHANGED <<open, last>>
    BY <1>5 DEF Land
  <2>2. ContractsTypeOK'
    BY <1>1, <1>2, <2>1 DEF ContractsTypeOK, ProducerStates, VerdictStates, lateVars
  <2> QED BY <1>1, <1>3, <1>4, <1>5, <2>1, <2>2
          DEF ContractsInv, PromisesInv, ThroughIsHead, ShownUnderStop, StoppedIsLast
<1>6. CASE contract.there
  <2>1. /\ verdict.known /\ verdict.reasons = Reasons(contract.terms, head')
        /\ verdict.reasons \in Data
        /\ contract.stops /\ verdict.reasons # {} => p = "erasure"
    BY <1>0, <1>1, <1>6 DEF Verdict, Stops, VerdictStates
  <2>2. /\ last' \in [Feed -> Data]
        /\ \A f \in Feed : last'[f] = IF f = p THEN {} ELSE last[f]
    <3>1. last' = IF p \in Feed THEN [last EXCEPT ![p] = {}] ELSE last
      BY <1>0, <1>6, <2>1 DEF Land
    <3> QED BY <1>1, <3>1 DEF ContractsTypeOK, Data
  <2>3. CASE verdict.reasons # {}
    <3>1. open' \in Recorded(p, verdict.reasons, "let_through")
      BY <1>0, <1>6, <2>1, <2>3 DEF Land
    <3>2. Tells(open', p, verdict.reasons, "let_through")
      BY <1>1, <2>1, <2>3, <3>1, RecordedTells DEF Source
    <3>3. ContractsTypeOK'
      BY <1>1, <1>2, <2>2, <3>2
         DEF ContractsTypeOK, ProducerStates, VerdictStates, Tells, Listed, lateVars
    <3>4. ThroughIsHead' /\ ShownUnderStop'
      <4>1. \E q \in open' : /\ q.outcome = "let_through" /\ q.source = p
                             /\ q.reasons = Reasons(contract.terms, head')
        BY <2>1, <3>2 DEF Tells
      <4>2. contract.stops => p \notin Feed
        BY <2>1, <2>3, ContractAssumption
      <4> QED BY <1>1, <2>1, <2>3, <4>1, <4>2 DEF ThroughIsHead, ShownUnderStop
    <3>5. StoppedIsLast'
      <4>1. ASSUME NEW f \in Feed
            PROVE  /\ last'[f] = {} => \A q \in open' : q.source = f => q.outcome # "stopped"
                   /\ last'[f] # {} => \E q \in open' : /\ q.source = f /\ q.outcome = "stopped"
                                                        /\ q.reasons = last'[f]
        <5>1. CASE f = p
          BY <2>2, <3>2, <5>1 DEF Tells
        <5>2. CASE f # p
          BY <2>2, <3>2, <5>2 DEF ContractsInv, PromisesInv, StoppedIsLast, Tells
        <5> QED BY <5>1, <5>2
      <4> QED BY <4>1 DEF StoppedIsLast
    <3> QED BY <1>3, <1>4, <3>3, <3>4, <3>5 DEF ContractsInv, PromisesInv
  <2>4. CASE verdict.reasons = {}
    <3>1. open' = Resolved(p)
      BY <1>0, <1>6, <2>1, <2>4 DEF Land
    <3>2. /\ Listed(open') /\ open' \subseteq open
          /\ \A q \in open' : q.outcome # "let_through" /\ q.source # p
          /\ \A q \in open : q.outcome # "let_through" /\ q.source \notin {p, "check"}
                               => q \in open'
      BY <1>1, <3>1, ResolvedSays
    <3>3. ContractsTypeOK'
      BY <1>1, <1>2, <2>2, <3>2
         DEF ContractsTypeOK, ProducerStates, VerdictStates, Listed, lateVars
    <3>4. ThroughIsHead' /\ ShownUnderStop'
      BY <1>1, <2>1, <2>4, <3>2 DEF ThroughIsHead, ShownUnderStop
    <3>5. StoppedIsLast'
      <4>1. ASSUME NEW f \in Feed
            PROVE  /\ last'[f] = {} => \A q \in open' : q.source = f => q.outcome # "stopped"
                   /\ last'[f] # {} => \E q \in open' : /\ q.source = f /\ q.outcome = "stopped"
                                                        /\ q.reasons = last'[f]
        <5>1. CASE f = p
          BY <2>2, <3>2, <5>1
        <5>2. CASE f # p
          BY <2>2, <3>2, <5>2, ContractAssumption
             DEF ContractsInv, PromisesInv, StoppedIsLast
        <5> QED BY <5>1, <5>2
      <4> QED BY <4>1 DEF StoppedIsLast
    <3> QED BY <1>3, <1>4, <3>3, <3>4, <3>5 DEF ContractsInv, PromisesInv
  <2> QED BY <2>3, <2>4
<1> QED BY <1>5, <1>6

\* It fails before it lands.
LEMMA FailsKeeps ==
    ASSUME ContractsInv, NEW p \in Producer, Fails(p) PROVE ContractsInv'
<1>1. /\ ContractsTypeOK
      /\ UNCHANGED <<contract, person, touches, head, open, last, landings, lateVars>>
      /\ producer' = [producer EXCEPT ![p] = ProducerRests]
  BY DEF ContractsInv, Fails
<1>2. /\ producer' \in [Producer -> ProducerStates] /\ producer'[p].at = "idle"
      /\ \A q \in Producer \ {p} : producer'[q] = producer[q]
  BY <1>1, ProducerDone
<1>3. ContractsTypeOK'
  BY <1>1, <1>2 DEF ContractsTypeOK, ProducerStates, VerdictStates, lateVars
<1>4. PersonIsAlone' /\ JudgedNow'
  BY <1>1, <1>2 DEF ContractsInv, PromisesInv, PersonIsAlone, JudgedNow, Verdict, Stops
<1>5. ThroughIsHead' /\ ShownUnderStop' /\ StoppedIsLast'
  BY <1>1 DEF ContractsInv, PromisesInv, ThroughIsHead, ShownUnderStop, StoppedIsLast
<1>6. OverdueBounded'
  BY <1>1, OverdueRests DEF ContractsInv
<1> QED BY <1>3, <1>4, <1>5, <1>6 DEF ContractsInv, PromisesInv

\* A person looks at the current data (save_contract, check_contract_now).
LEMMA LookKeeps ==
    ASSUME Meanwhile = FALSE, ContractsInv, NEW act \in {"save", "check"}, NEW terms \in Data,
           NEW strict \in BOOLEAN, Look(act, terms, strict)
    PROVE  ContractsInv'
<1>1. /\ ContractsTypeOK /\ UNCHANGED <<contract, landVars, lateVars>>
      /\ \A p \in Producer : producer[p].at = "idle"
      /\ act = "check" => contract.there /\ terms = contract.terms /\ strict = contract.stops
      /\ person' = [at |-> "looking", act |-> act, terms |-> terms, stops |-> strict,
                    seen |-> head]
  BY DEF ContractsInv, Look, Alone
<1>2. touches' \in 0 .. MaxTouches
  <2>1. touches \in Nat /\ MaxTouches \in Nat /\ touches < MaxTouches /\ touches' = touches + 1
    BY ContractAssumption DEF ContractsInv, ContractsTypeOK, Look
  <2> QED BY <2>1, LandingsBounded
<1>3. /\ person' \in PersonStates /\ person'.act = act /\ person'.terms = terms
      /\ person'.stops = strict /\ person'.seen = head
  BY <1>1 DEF PersonStates, ContractsTypeOK
<1>4. ContractsTypeOK'
  BY <1>1, <1>2, <1>3 DEF ContractsTypeOK, PersonStates, landVars, lateVars
<1>5. PersonIsAlone'
  BY <1>1, <1>3 DEF PersonIsAlone, landVars
<1>6. JudgedNow' /\ ThroughIsHead' /\ ShownUnderStop' /\ StoppedIsLast'
  BY <1>1 DEF ContractsInv, PromisesInv, JudgedNow, Verdict, Stops, ThroughIsHead,
              ShownUnderStop, StoppedIsLast, landVars
<1>7. OverdueBounded'
  BY <1>1, OverdueRests DEF ContractsInv
<1> QED BY <1>4, <1>5, <1>6, <1>7 DEF ContractsInv, PromisesInv

\* What is made of it is committed: the contract is judged anew on the current data.
LEMMA SettleKeeps ==
    ASSUME ContractsInv, Settle PROVE ContractsInv'
<1>1. /\ ContractsTypeOK /\ UNCHANGED <<touches, head, last, producer, landings, lateVars>>
      /\ person.at = "looking" /\ person.seen = head /\ Listed(open)
      /\ person.terms \in Data /\ person.stops \in BOOLEAN
      /\ \A p \in Producer : producer[p].at = "idle"
      /\ person' = PersonRests
  BY DEF ContractsInv, ContractsTypeOK, PromisesInv, PersonIsAlone, Settle, Listed
<1>2. /\ contract' \in ContractStates /\ contract'.there /\ contract'.terms = person.terms
  <2>1. CASE person.act = "check"
    BY <1>1, <2>1 DEF Settle, ContractsInv, PromisesInv, PersonIsAlone, ContractsTypeOK,
                      ContractStates
  <2>2. CASE person.act # "check"
    BY <1>1, <2>2 DEF Settle, ContractStates
  <2> QED BY <2>1, <2>2
<1>3. PersonRests \in PersonStates /\ PersonRests.at = "idle"
  BY DEF PersonRests, PersonStates, Data
<1>4. PersonIsAlone' /\ JudgedNow' /\ OverdueBounded'
  BY <1>1, <1>3, OverdueRests DEF ContractsInv, PersonIsAlone, JudgedNow
<1> DEFINE broken == Reasons(person.terms, head)
<1>5. broken \in Data /\ Reasons(contract'.terms, head') = broken
  BY <1>1, <1>2 DEF Reasons, Data
<1>6. CASE broken # {}
  <2>1. open' \in Recorded("check", broken, "let_through")
    BY <1>1, <1>6 DEF Settle, AfterCheck
  <2>2. Tells(open', "check", broken, "let_through")
    BY <1>1, <1>5, <1>6, <2>1, RecordedTells DEF Source
  <2>3. ContractsTypeOK'
    BY <1>1, <1>2, <1>3, <2>2
       DEF ContractsTypeOK, ContractStates, PersonStates, Tells, Listed, lateVars
  <2>4. ThroughIsHead' /\ ShownUnderStop'
    <3>1. \E q \in open' : /\ q.outcome = "let_through" /\ q.source = "check"
                           /\ q.reasons = broken
      BY <2>2 DEF Tells
    <3> QED BY <1>5, <1>6, <3>1, ContractAssumption DEF ThroughIsHead, ShownUnderStop
  <2>5. StoppedIsLast'
    <3>1. ASSUME NEW f \in Feed
          PROVE  /\ last[f] = {} => \A q \in open' : q.source = f => q.outcome # "stopped"
                 /\ last[f] # {} => \E q \in open' : /\ q.source = f /\ q.outcome = "stopped"
                                                     /\ q.reasons = last[f]
      <4>1. f # "check"
        BY ContractAssumption
      <4> QED BY <2>2, <4>1 DEF ContractsInv, PromisesInv, StoppedIsLast, Tells
    <3> QED BY <1>1, <3>1 DEF StoppedIsLast
  <2> QED BY <1>4, <2>3, <2>4, <2>5 DEF ContractsInv, PromisesInv
<1>7. CASE broken = {}
  <2>1. open' = Resolved("check")
    BY <1>1, <1>7 DEF Settle, AfterCheck
  <2>2. /\ Listed(open') /\ open' \subseteq open
        /\ \A q \in open' : q.outcome # "let_through" /\ q.source # "check"
        /\ \A q \in open : q.outcome # "let_through" /\ q.source \notin {"check", "check"}
                             => q \in open'
    BY <1>1, <2>1, ResolvedSays
  <2>3. ContractsTypeOK'
    BY <1>1, <1>2, <1>3, <2>2
       DEF ContractsTypeOK, ContractStates, PersonStates, Listed, lateVars
  <2>4. ThroughIsHead' /\ ShownUnderStop'
    BY <1>5, <1>7, <2>2 DEF ThroughIsHead, ShownUnderStop
  <2>5. StoppedIsLast'
    <3>1. ASSUME NEW f \in Feed
          PROVE  /\ last[f] = {} => \A q \in open' : q.source = f => q.outcome # "stopped"
                 /\ last[f] # {} => \E q \in open' : /\ q.source = f /\ q.outcome = "stopped"
                                                     /\ q.reasons = last[f]
      <4>1. f # "check"
        BY ContractAssumption
      <4> QED BY <2>2, <4>1 DEF ContractsInv, PromisesInv, StoppedIsLast
    <3> QED BY <1>1, <3>1 DEF StoppedIsLast
  <2> QED BY <1>4, <2>3, <2>4, <2>5 DEF ContractsInv, PromisesInv
<1> QED BY <1>6, <1>7

\* A contract goes with its problems (remove_contract).
LEMMA RemoveKeeps ==
    ASSUME Meanwhile = FALSE, ContractsInv, RemoveContract PROVE ContractsInv'
<1>1. /\ ContractsTypeOK /\ UNCHANGED <<person, head, landings, lateVars>>
      /\ \A p \in Producer : producer[p].at = "idle"
      /\ person.at = "idle" /\ contract' = NoContract /\ open' = {}
      /\ last' = [f \in Feed |-> {}]
      /\ producer' = [p \in Producer |-> [producer[p] EXCEPT !.verdict = NoVerdict]]
  BY DEF ContractsInv, RemoveContract, Alone
<1>2. touches' \in 0 .. MaxTouches
  <2>1. touches \in Nat /\ MaxTouches \in Nat /\ touches < MaxTouches /\ touches' = touches + 1
    BY ContractAssumption DEF ContractsInv, ContractsTypeOK, RemoveContract
  <2> QED BY <2>1, LandingsBounded
<1>3. /\ producer' \in [Producer -> ProducerStates]
      /\ \A p \in Producer : producer'[p].at = "idle"
  <2>1. \A p \in Producer : producer[p] \in ProducerStates
    BY <1>1 DEF ContractsTypeOK, ProducerStates, VerdictStates
  <2>2. \A x \in ProducerStates : /\ [x EXCEPT !.verdict = NoVerdict] \in ProducerStates
                                  /\ [x EXCEPT !.verdict = NoVerdict].at = x.at
    BY DEF ProducerStates, VerdictStates, NoVerdict, Data
  <2> QED BY <1>1, <2>1, <2>2
<1>4. NoContract \in ContractStates /\ ~NoContract.there
  BY DEF NoContract, ContractStates, Data
<1>5. ContractsTypeOK'
  BY <1>1, <1>2, <1>3, <1>4
     DEF ContractsTypeOK, ContractStates, ProducerStates, VerdictStates, lateVars, Data
<1>6. PersonIsAlone' /\ JudgedNow' /\ ThroughIsHead' /\ ShownUnderStop' /\ StoppedIsLast'
  BY <1>1, <1>3, <1>4 DEF PersonIsAlone, JudgedNow, ThroughIsHead, ShownUnderStop, StoppedIsLast
<1>7. OverdueBounded'
  BY <1>1, OverdueRests DEF ContractsInv
<1> QED BY <1>5, <1>6, <1>7 DEF ContractsInv, PromisesInv

\* The workers that look for late data leave the promises alone (sync_overdue).
LEMMA OverdueKeeps ==
    ASSUME ContractsInv, OverdueNext PROVE ContractsInv'
<1>1. /\ ContractsTypeOK /\ UNCHANGED <<contract, person, touches, landVars>>
      /\ overdue \in Nat /\ Cardinality(Ticker) \in Nat
      /\ IsFiniteSet({w \in Ticker : Late(w)}) /\ Cardinality({w \in Ticker : Late(w)}) \in Nat
      /\ ticker \in [Ticker -> TickerStates]
  <2>1. IsFiniteSet({w \in Ticker : Late(w)})
    BY ContractAssumption, FS_Subset
  <2>2. Cardinality(Ticker) \in Nat /\ Cardinality({w \in Ticker : Late(w)}) \in Nat
    BY <2>1, ContractAssumption, FS_CardinalityType
  <2>3. overdue \in 0 .. Cardinality(Ticker)
    BY DEF ContractsInv, ContractsTypeOK
  <2> QED BY <2>1, <2>2, <2>3
          DEF ContractsInv, ContractsTypeOK, TickerStates, OverdueNext, Flip, TickStep,
              TickLooks, TickCommits
<1>2. PromisesInv'
  BY <1>1 DEF ContractsInv, PromisesInv, PersonIsAlone, JudgedNow, Verdict, Stops, ThroughIsHead,
              ShownUnderStop, StoppedIsLast, landVars
<1>3. CASE Flip
  <2>1. flips' \in 0 .. MaxFlips
    <3>1. flips \in Nat /\ MaxFlips \in Nat /\ flips < MaxFlips /\ flips' = flips + 1
      BY <1>3, ContractAssumption DEF ContractsInv, ContractsTypeOK, Flip
    <3> QED BY <3>1, LandingsBounded
  <2>2. ContractsTypeOK'
    BY <1>1, <1>3, <2>1 DEF ContractsTypeOK, Flip, landVars
  <2>3. OverdueBounded'
    BY <1>3 DEF ContractsInv, OverdueBounded, Flip, Late
  <2> QED BY <1>2, <2>2, <2>3 DEF ContractsInv
<1>4. ASSUME NEW w \in Ticker, TickLooks(w) PROVE ContractsInv'
  <2>1. /\ ticker' \in [Ticker -> TickerStates]
        /\ UNCHANGED <<stale, overdue, flips>> /\ stale # (overdue > 0)
        /\ ticker'[w].stale = stale /\ ticker'[w].open = (overdue > 0)
        /\ \A v \in Ticker \ {w} : ticker'[v] = ticker[v]
    <3> DEFINE next == [at |-> "looked", stale |-> stale, open |-> overdue > 0]
    <3>1. next \in TickerStates /\ next.stale = stale /\ next.open = (overdue > 0)
      BY <1>1 DEF TickerStates, ContractsTypeOK
    <3>2. ticker' = [ticker EXCEPT ![w] = next]
      BY <1>4 DEF TickLooks
    <3> HIDE DEF next
    <3> QED BY <1>1, <1>4, <3>1, <3>2 DEF TickLooks
  <2>2. ContractsTypeOK'
    BY <1>1, <2>1 DEF ContractsTypeOK, TickerStates, landVars
  <2>3. {v \in Ticker : Late(v)'} \subseteq Ticker /\ IsFiniteSet({v \in Ticker : Late(v)'})
        /\ Cardinality({v \in Ticker : Late(v)'}) <= Cardinality(Ticker)
        /\ Cardinality({v \in Ticker : Late(v)'}) \in Nat
    BY ContractAssumption, FS_Subset, FS_CardinalityType
  <2>4. overdue' + Cardinality({v \in Ticker : Late(v)'}) <= Cardinality(Ticker)
    <3>1. CASE overdue = 0
      BY <1>1, <2>1, <2>3, <3>1
    <3>2. CASE overdue > 0
      <4>1. {v \in Ticker : Late(v)'} \subseteq {v \in Ticker : Late(v)}
        BY <2>1, <3>2 DEF Late
      <4>2. Cardinality({v \in Ticker : Late(v)'}) <= Cardinality({v \in Ticker : Late(v)})
        BY <1>1, <4>1, FS_Subset
      <4>3. overdue + Cardinality({v \in Ticker : Late(v)}) <= Cardinality(Ticker)
        BY DEF ContractsInv, OverdueBounded
      <4> QED BY <1>1, <2>1, <2>3, <4>2, <4>3
    <3> QED BY <1>1, <3>1, <3>2
  <2> QED BY <1>2, <2>2, <2>4 DEF ContractsInv, OverdueBounded
<1>5. ASSUME NEW w \in Ticker, TickCommits(w) PROVE ContractsInv'
  <2>1. /\ ticker' \in [Ticker -> TickerStates]
        /\ UNCHANGED <<stale, flips>> /\ overdue' = OverdueAfter(ticker[w])
        /\ ticker[w].at = "looked" /\ ticker'[w].at = "idle"
        /\ \A v \in Ticker \ {w} : ticker'[v] = ticker[v]
    <3> DEFINE next == [ticker[w] EXCEPT !.at = "idle"]
    <3>1. next \in TickerStates /\ next.at = "idle"
      BY <1>1 DEF TickerStates
    <3>2. ticker' = [ticker EXCEPT ![w] = next]
      BY <1>5 DEF TickCommits
    <3> HIDE DEF next
    <3> QED BY <1>1, <1>5, <3>1, <3>2 DEF TickCommits
  <2>2. {v \in Ticker : Late(v)'} = {v \in Ticker : Late(v)} \ {w}
    BY <2>1 DEF Late
  <2>3. /\ Cardinality({v \in Ticker : Late(v)'}) =
             IF Late(w) THEN Cardinality({v \in Ticker : Late(v)}) - 1
             ELSE Cardinality({v \in Ticker : Late(v)})
        /\ Cardinality({v \in Ticker : Late(v)'}) \in Nat
    <3>1. w \in {v \in Ticker : Late(v)} <=> Late(w)
      OBVIOUS
    <3>2. IsFiniteSet({v \in Ticker : Late(v)} \ {w})
      BY <1>1, FS_RemoveElement
    <3> QED BY <1>1, <2>2, <3>1, <3>2, FS_RemoveElement, FS_CardinalityType
  <2>4. overdue + Cardinality({v \in Ticker : Late(v)}) <= Cardinality(Ticker)
    BY DEF ContractsInv, OverdueBounded
  <2>5. overdue' \in Nat /\ overdue' <= overdue + (IF Late(w) THEN 1 ELSE 0)
    BY <1>1, <2>1 DEF OverdueAfter, Late, TickerStates
  <2>6. overdue' + Cardinality({v \in Ticker : Late(v)'}) <= Cardinality(Ticker)
    BY <1>1, <2>3, <2>4, <2>5
  <2>7. overdue' \in 0 .. Cardinality(Ticker)
    BY <1>1, <2>3, <2>5, <2>6
  <2>8. ContractsTypeOK'
    BY <1>1, <2>1, <2>7 DEF ContractsTypeOK, TickerStates, landVars
  <2> QED BY <1>2, <2>6, <2>8 DEF ContractsInv, OverdueBounded
<1> QED BY <1>3, <1>4, <1>5 DEF OverdueNext, TickStep

\* At the start no contract has a problem and nothing is on its way.
LEMMA ContractsStart == ContractsInit => ContractsInv
<1> SUFFICES ASSUME ContractsInit PROVE ContractsInv
  OBVIOUS
<1>1. ContractsTypeOK
  <2>1. /\ NoContract \in ContractStates /\ ProducerRests \in ProducerStates
        /\ PersonRests \in PersonStates /\ {} \in Data
        /\ [at |-> "idle", stale |-> FALSE, open |-> FALSE] \in TickerStates
    BY DEF NoContract, ContractStates, ProducerRests, ProducerStates, NoVerdict, VerdictStates,
           PersonRests, PersonStates, TickerStates, Data
  <2>2. overdue \in 0 .. Cardinality(Ticker)
    <3>1. Cardinality(Ticker) \in Nat /\ overdue = 0
      BY ContractAssumption, FS_CardinalityType DEF ContractsInit
    <3> QED BY <3>1
  <2>3. touches \in 0 .. MaxTouches /\ landings \in 0 .. MaxLandings /\ flips \in 0 .. MaxFlips
    BY ContractAssumption DEF ContractsInit
  <2>4. /\ contract \in ContractStates /\ producer \in [Producer -> ProducerStates]
        /\ person \in PersonStates /\ ticker \in [Ticker -> TickerStates]
        /\ head \in Data /\ last \in [Feed -> Data] /\ open = {} /\ stale \in BOOLEAN
    BY <2>1 DEF ContractsInit
  <2> QED BY <2>2, <2>3, <2>4 DEF ContractsTypeOK, ContractStates, ProducerStates, VerdictStates,
                                  PersonStates, TickerStates
<1>2. PromisesInv
  BY DEF ContractsInit, PromisesInv, PersonIsAlone, JudgedNow, ThroughIsHead, ShownUnderStop,
         StoppedIsLast, NoContract, ProducerRests, PersonRests
<1>3. OverdueBounded
  <2>1. {w \in Ticker : Late(w)} = {} /\ overdue = 0
    BY DEF ContractsInit, Late
  <2>2. Cardinality({w \in Ticker : Late(w)}) = 0 /\ Cardinality(Ticker) \in Nat
    BY <2>1, ContractAssumption, FS_CardinalityType, FS_EmptySet
  <2> QED BY <2>1, <2>2 DEF OverdueBounded
<1> QED BY <1>1, <1>2, <1>3 DEF ContractsInv

\* Every step of the feeds, the checks, the people and the tick keeps the invariant.
LEMMA ContractsStep ==
    ASSUME Meanwhile = FALSE, ContractsInv, [ContractsNext]_contractVars PROVE ContractsInv'
<1>1. CASE UNCHANGED contractVars
  <2>1. ContractsTypeOK'
    BY <1>1 DEF contractVars, landVars, lateVars, ContractsInv, ContractsTypeOK
  <2>2. PromisesInv'
    BY <1>1 DEF contractVars, landVars, ContractsInv, PromisesInv, PersonIsAlone, JudgedNow,
                Verdict, Stops, ThroughIsHead, ShownUnderStop, StoppedIsLast
  <2>3. OverdueBounded'
    BY <1>1, OverdueRests DEF contractVars, ContractsInv
  <2> QED BY <2>1, <2>2, <2>3 DEF ContractsInv
<1> QED BY <1>1, CheckKeeps, LandKeeps, FailsKeeps, LookKeeps, SettleKeeps, RemoveKeeps,
           OverdueKeeps DEF ContractsNext, PromisesNext

\* The open problems of a contract are those of the current data and of the data that
\* was stopped (data_contracts.py): while nobody edits the contract, or looks at the
\* data, as new data is judged.
THEOREM ContractsAreShown ==
    ASSUME Meanwhile = FALSE
    PROVE  ContractsSpec => []ContractSafety
<1>1. ContractsInit => ContractsInv
  BY ContractsStart
<1>2. ContractsInv /\ [ContractsNext]_contractVars => ContractsInv'
  BY ContractsStep
<1>3. ContractsInv => ContractSafety
  <2> SUFFICES ASSUME ContractsInv PROVE ContractSafety
    OBVIOUS
  <2>1. HeadIsShown
    BY DEF ContractsInv, PromisesInv, ThroughIsHead, HeadIsShown
  <2>2. StoppedIsShown
    <3> SUFFICES ASSUME NEW f \in Feed
                 PROVE  LET stopped == {p \in open : p.source = f /\ p.outcome = "stopped"} IN
                        IF last[f] = {} THEN stopped = {}
                        ELSE \E p \in stopped : stopped = {p} /\ p.reasons = last[f]
      BY DEF StoppedIsShown
    <3>1. CASE last[f] = {}
      BY <3>1 DEF ContractsInv, PromisesInv, StoppedIsLast
    <3>2. CASE last[f] # {}
      <4>1. PICK p \in open : p.source = f /\ p.outcome = "stopped" /\ p.reasons = last[f]
        BY <3>2 DEF ContractsInv, PromisesInv, StoppedIsLast
      <4>2. \A q \in open : q.source = f => q = p
        BY <4>1 DEF ContractsInv, ContractsTypeOK
      <4> QED BY <3>2, <4>1, <4>2
    <3> QED BY <3>1, <3>2
  <2> QED BY <2>1, <2>2 DEF ContractSafety, ContractsInv
<1> QED BY <1>1, <1>2, <1>3, PTL DEF ContractsSpec

-----------------------------------------------------------------------------
(***************************************************************************)
(* Write-back.  While no edit is staged as a commit goes on, and keys are  *)
(* enforced, whoever commits has the change set as it is; and an edit that *)
(* has changed its row leaves the row in a state it will not change again. *)
(***************************************************************************)

EditingAt == {"staging", "dropping", "discarding"}
CellStates == {"gone", "old", "theirs", "new", "later"}
CallerStates ==
    [at : CommittingAt \cup {"idle"} \cup EditingAt, edits : SUBSET Edit, allow : BOOLEAN]

\* A commit is of the edits as they are, and none is staged beside it.
CommitHasAll ==
    /\ IsFiniteSet(edits)
    /\ \A q \in Caller : asked[q].at \in CommittingAt =>
         /\ asked[q].edits = edits
         /\ \A other \in Caller : asked[other].at \notin EditingAt

\* What was run outside is recorded after, and nothing is staged any more then.
RunThenRecorded ==
    /\ \A q \in Caller : asked[q].at = "recording" => asked[q].edits \subseteq ran
    /\ status = "committed" =>
         edits \subseteq ran /\ \A q \in Caller : asked[q].at \notin EditingAt

\* A key has one row.
OneRow == \A k \in Key : table[<<k, 2>>] = "gone"

Does(kind, k, E) == \E f \in E : f.kind = kind /\ f.key = k

\* The cell of an edit that changed it: it will not change it again.
CellWritten(e) ==
    LET cell == table[<<e.key, 1>>] IN
    /\ e.kind = "set" => cell \notin {e.previous, "old"}
    /\ e.kind = "insert" /\ ~Does("delete", e.key, ran) => cell \in {"new", "later"}
    /\ e.kind = "delete" /\ ~Does("insert", e.key, ran) => cell = "gone"

\* An edit whose own change nothing that was run undoes.
StaysWritten(e) ==
    \/ e.kind = "set"
    \/ e.kind = "insert" /\ ~Does("delete", e.key, ran)
    \/ e.kind = "delete" /\ ~Does("insert", e.key, ran)

WrittenOnce ==
    \A e \in Edit :
        /\ ~Counted(e) => wrote[e] = 0
        /\ wrote[e] # 0 => CellWritten(e)
        /\ StaysWritten(e) => wrote[e] <= 1

WritebackInv ==
    /\ WritebackTypeOK
    /\ CommitHasAll
    /\ RunThenRecorded
    /\ OneRow
    /\ WrittenOnce

\* What nobody wrote is as it was.
LEMMA TableRests ==
    ASSUME OneRow, WrittenOnce, UNCHANGED <<table, ran, wrote>> PROVE OneRow' /\ WrittenOnce'
  BY DEF OneRow, WrittenOnce, StaysWritten, CellWritten, Does, Counted

\* A request is answered, or lost; what it leaves behind is the status.
LEMMA AnsweredKeeps ==
    ASSUME WritebackInv, NEW q \in Caller, asked' = [asked EXCEPT ![q] = Unasked],
           UNCHANGED <<table, edits, ran, wrote>>, upsets' \in 0 .. MaxUpsets,
           \/ status' \in {status, "discarded"}
           \/ status' = "committed" /\ asked[q].at = "recording"
    PROVE  WritebackInv'
<1>1. WritebackTypeOK /\ CommitHasAll /\ RunThenRecorded /\ OneRow /\ WrittenOnce
  BY DEF WritebackInv
<1>2. /\ asked' \in [Caller -> CallerStates] /\ asked'[q].at = "idle"
      /\ \A other \in Caller \ {q} : asked'[other] = asked[other]
  <2>1. Unasked \in CallerStates /\ Unasked.at = "idle"
    BY DEF Unasked, CallerStates
  <2>2. asked \in [Caller -> CallerStates]
    BY <1>1 DEF WritebackTypeOK, CallerStates, EditingAt
  <2> QED BY <2>1, <2>2
<1>3. WritebackTypeOK'
  <2>1. status' \in {"draft", "committed", "discarded"}
    BY <1>1 DEF WritebackTypeOK
  <2>2. \A other \in Caller : asked'[other].at \in CommittingAt => asked'[other].edits # {}
    BY <1>1, <1>2 DEF WritebackTypeOK, CommittingAt
  <2> QED BY <1>1, <1>2, <2>1, <2>2 DEF WritebackTypeOK, CallerStates, EditingAt
<1>4. CommitHasAll'
  BY <1>1, <1>2 DEF CommitHasAll, CommittingAt, EditingAt
<1>5. RunThenRecorded'
  <2>1. CASE status' \in {status, "discarded"}
    BY <1>1, <1>2, <2>1 DEF RunThenRecorded, EditingAt
  <2>2. CASE status' = "committed" /\ asked[q].at = "recording"
    <3>1. edits \subseteq ran /\ \A other \in Caller : asked[other].at \notin EditingAt
      BY <1>1, <2>2 DEF CommitHasAll, RunThenRecorded, CommittingAt
    <3> QED BY <1>1, <1>2, <3>1 DEF RunThenRecorded, EditingAt
  <2> QED BY <2>1, <2>2
<1> QED BY <1>1, <1>3, <1>4, <1>5, TableRests DEF WritebackInv

\* A request asks for something: it is marked as under way.
LEMMA CallerSteps ==
    ASSUME WritebackTypeOK, NEW q \in Caller, NEW point \in CommittingAt \cup EditingAt,
           Step(q, point)
    PROVE  /\ asked' \in [Caller -> CallerStates] /\ asked'[q].at = point
           /\ asked'[q].edits = asked[q].edits
           /\ \A other \in Caller \ {q} : asked'[other] = asked[other]
<1> DEFINE next == [asked[q] EXCEPT !.at = point]
<1>1. asked \in [Caller -> CallerStates] /\ asked[q] \in CallerStates
  BY DEF WritebackTypeOK, CallerStates, EditingAt
<1>2. next \in CallerStates /\ next.at = point /\ next.edits = asked[q].edits
  BY <1>1 DEF CallerStates
<1>3. asked' = [asked EXCEPT ![q] = next]
  BY DEF Step
<1> HIDE DEF next
<1> QED BY <1>1, <1>2, <1>3

\* Staging, dropping and discarding begin while no commit goes on.
LEMMA ChangeKeeps ==
    ASSUME EditedMeanwhile = FALSE, WritebackInv, NEW q \in Caller, NEW point \in EditingAt,
           Change(q, point)
    PROVE  WritebackInv'
<1>1. /\ WritebackTypeOK /\ UNCHANGED <<table, status, edits, ran, wrote, upsets>>
      /\ status = "draft" /\ \A other \in Caller : asked[other].at \notin CommittingAt
  BY DEF WritebackInv, Change, IsDraft, CommitGoesOn
<1>2. /\ asked' \in [Caller -> CallerStates] /\ asked'[q].at = point
      /\ \A other \in Caller \ {q} : asked'[other] = asked[other]
  BY <1>1, CallerSteps DEF Change
<1>3. \A other \in Caller : asked'[other].at \notin CommittingAt
  BY <1>1, <1>2 DEF CommittingAt, EditingAt
<1>4. WritebackTypeOK'
  BY <1>1, <1>2, <1>3 DEF WritebackTypeOK, CallerStates, EditingAt
<1>5. CommitHasAll' /\ RunThenRecorded'
  BY <1>1, <1>3 DEF WritebackInv, CommitHasAll, RunThenRecorded, CommittingAt
<1> QED BY <1>1, <1>4, <1>5, TableRests DEF WritebackInv

\* An edit is staged or dropped (add_edit, remove_edit).
LEMMA EditKeeps ==
    ASSUME WritebackInv, NEW q \in Caller, AddEdit(q) \/ RemoveEdit(q) PROVE WritebackInv'
<1>1. /\ WritebackTypeOK /\ UNCHANGED <<table, status, ran, wrote, upsets>>
      /\ asked[q].at \in EditingAt /\ IsFiniteSet(edits)
      /\ asked' = [asked EXCEPT ![q] = Unasked]
  BY DEF WritebackInv, CommitHasAll, AddEdit, RemoveEdit, AskedAt, Answered, EditingAt
<1>2. /\ edits' \subseteq Edit /\ IsFiniteSet(edits')
      /\ \A e, f \in edits' : e.kind = f.kind /\ e.key = f.key => e = f
  <2>1. CASE AddEdit(q)
    <3>1. PICK e \in Edit : edits' = EditsWith(e)
      BY <2>1 DEF AddEdit
    <3>2. IsFiniteSet({f \in edits : f.kind # e.kind \/ f.key # e.key})
      BY <1>1, FS_Subset
    <3>3. IsFiniteSet(EditsWith(e))
      BY <3>2, FS_AddElement DEF EditsWith
    <3> QED BY <1>1, <3>1, <3>3 DEF EditsWith, WritebackTypeOK
  <2>2. CASE RemoveEdit(q)
    <3>1. edits' \subseteq edits
      BY <2>2 DEF RemoveEdit
    <3>2. IsFiniteSet(edits')
      BY <1>1, <3>1, FS_Subset
    <3> QED BY <1>1, <3>1, <3>2 DEF WritebackTypeOK
  <2> QED BY <2>1, <2>2
<1>3. /\ asked' \in [Caller -> CallerStates] /\ asked'[q].at = "idle"
      /\ \A other \in Caller \ {q} : asked'[other] = asked[other]
  <2>1. Unasked \in CallerStates /\ Unasked.at = "idle"
    BY DEF Unasked, CallerStates
  <2>2. asked \in [Caller -> CallerStates]
    BY <1>1 DEF WritebackTypeOK, CallerStates, EditingAt
  <2> QED BY <1>1, <2>1, <2>2
<1>4. /\ \A other \in Caller : asked'[other].at \notin CommittingAt
      /\ status # "committed"
  BY <1>1, <1>3 DEF WritebackInv, CommitHasAll, RunThenRecorded, CommittingAt
<1>5. WritebackTypeOK'
  BY <1>1, <1>2, <1>3, <1>4 DEF WritebackTypeOK, CallerStates, EditingAt
<1>6. CommitHasAll' /\ RunThenRecorded'
  BY <1>1, <1>2, <1>4 DEF CommitHasAll, RunThenRecorded, CommittingAt
<1> QED BY <1>1, <1>5, <1>6, TableRests DEF WritebackInv

\* A commit is rehearsed while no edit is staged (commit_change_set).
LEMMA RehearseKeeps ==
    ASSUME EditedMeanwhile = FALSE, WritebackInv, NEW q \in Caller, NEW allow \in BOOLEAN,
           Rehearse(q, allow)
    PROVE  WritebackInv'
<1>1. /\ WritebackTypeOK /\ UNCHANGED <<table, status, edits, ran, wrote, upsets>>
      /\ \A other \in Caller : asked[other].at \notin EditingAt
      /\ edits # {} /\ status = "draft"
      /\ asked' = [asked EXCEPT ![q] = [at |-> "rehearsed", edits |-> edits, allow |-> allow]]
  BY DEF WritebackInv, Rehearse, EditGoesOn, EditingAt, IsDraft
<1>2. /\ asked' \in [Caller -> CallerStates]
      /\ asked'[q].at = "rehearsed" /\ asked'[q].edits = edits
      /\ \A other \in Caller \ {q} : asked'[other] = asked[other]
  <2> DEFINE next == [at |-> "rehearsed", edits |-> edits, allow |-> allow]
  <2>1. next \in CallerStates /\ next.at = "rehearsed" /\ next.edits = edits
    BY <1>1 DEF CallerStates, CommittingAt, WritebackTypeOK
  <2>2. asked \in [Caller -> CallerStates] /\ asked' = [asked EXCEPT ![q] = next]
    BY <1>1 DEF WritebackTypeOK, CallerStates, EditingAt
  <2> HIDE DEF next
  <2> QED BY <2>1, <2>2
<1>3. WritebackTypeOK'
  <2>1. \A other \in Caller : asked'[other].at \in CommittingAt => asked'[other].edits # {}
    BY <1>1, <1>2 DEF WritebackTypeOK
  <2> QED BY <1>1, <1>2, <2>1 DEF WritebackTypeOK, CallerStates, EditingAt
<1>4. CommitHasAll'
  BY <1>1, <1>2 DEF WritebackInv, CommitHasAll, EditingAt, CommittingAt
<1>5. RunThenRecorded'
  BY <1>1, <1>2 DEF WritebackInv, RunThenRecorded
<1> QED BY <1>1, <1>3, <1>4, <1>5, TableRests DEF WritebackInv

\* Others change the table: a cell never goes back to what it was.
LEMMA ElsewhereKeeps == ASSUME WritebackInv, Elsewhere PROVE WritebackInv'
<1>1. /\ WritebackTypeOK /\ UNCHANGED <<status, edits, asked, ran, wrote>>
      /\ upsets' \in 0 .. MaxUpsets
  <2>1. upsets \in Nat /\ MaxUpsets \in Nat /\ upsets < MaxUpsets /\ upsets' = upsets + 1
    BY WritebackAssumption DEF WritebackInv, WritebackTypeOK, Elsewhere
  <2> QED BY <2>1, LandingsBounded DEF WritebackInv, Elsewhere
<1>2. PICK r \in Row, cell \in CellStates :
        /\ table' = [table EXCEPT ![r] = cell]
        /\ \/ table[r] = "old" /\ cell = "theirs"
           \/ table[r] = "new" /\ cell = "later"
           \/ table[r] \in {"old", "theirs"} /\ cell = "gone"
  BY DEF Elsewhere, CellStates
<1>3. /\ table' \in [Row -> CellStates]
      /\ \A s \in Row : \/ table'[s] = table[s]
                        \/ table[s] = "old" /\ table'[s] = "theirs"
                        \/ table[s] = "new" /\ table'[s] = "later"
                        \/ table[s] \in {"old", "theirs"} /\ table'[s] = "gone"
  BY <1>1, <1>2 DEF WritebackTypeOK, CellStates
<1>4. WritebackTypeOK'
  BY <1>1, <1>3 DEF WritebackTypeOK, CellStates
<1>5. CommitHasAll' /\ RunThenRecorded'
  BY <1>1 DEF WritebackInv, CommitHasAll, RunThenRecorded
<1>6. \A k \in Key : <<k, 1>> \in Row /\ <<k, 2>> \in Row
  BY DEF Row
<1>7. OneRow'
  BY <1>3, <1>6 DEF WritebackInv, OneRow
<1>8. WrittenOnce'
  <2>1. ASSUME NEW e \in Edit, CellWritten(e), wrote[e] # 0 PROVE CellWritten(e)'
    <3>1. e.key \in Key /\ e.previous \in {"old", "theirs", "unread"}
      BY DEF Edit
    <3>2. PICK before, after \in CellStates :
            /\ before = table[<<e.key, 1>>] /\ after = table'[<<e.key, 1>>]
            /\ \/ after = before
               \/ before = "old" /\ after = "theirs"
               \/ before = "new" /\ after = "later"
               \/ before \in {"old", "theirs"} /\ after = "gone"
      BY <1>1, <1>3, <1>6, <3>1 DEF WritebackTypeOK, CellStates
    <3> QED BY <1>1, <2>1, <3>1, <3>2 DEF CellWritten, Does
  <2> QED BY <1>1, <2>1 DEF WritebackInv, WrittenOnce, StaysWritten, Does, Counted
<1> QED BY <1>4, <1>5, <1>7, <1>8 DEF WritebackInv

\* What the statements of a change set make of a table whose keys have one row each
\* (compiler.py): the cell of each key, step by step.
LEMMA CellAfter ==
    ASSUME NEW E \in SUBSET Edit, NEW t \in [Row -> CellStates], NEW k \in Key
    PROVE  LET t1 == Inserted(E, t)
               t2 == Updated(E, t1)
               t3 == AfterAll(E, t)
               r == <<k, 1>> IN
           /\ r \in Row /\ t1 \in [Row -> CellStates] /\ t2 \in [Row -> CellStates]
           /\ t3 \in [Row -> CellStates]
           /\ t1[r] = IF Does("insert", k, E) THEN "new" ELSE t[r]
           /\ t2[r] \in {"new", t1[r]} /\ (t1[r] = "gone" => t2[r] = "gone")
           /\ \A e \in OfKind(E, "set") : r \in Hit(e, t1) => t2[r] = "new"
           /\ t3[r] = IF Does("delete", k, E) THEN "gone" ELSE t2[r]
           /\ t[<<k, 2>>] = "gone" =>
                t1[<<k, 2>>] = "gone" /\ t2[<<k, 2>>] = "gone" /\ t3[<<k, 2>>] = "gone"
<1> DEFINE t1 == Inserted(E, t)
           t2 == Updated(E, t1)
           t3 == AfterAll(E, t)
           r == <<k, 1>>
           twin == <<k, 2>>
<1>1. r \in Row /\ twin \in Row /\ r[1] = k /\ r[2] = 1 /\ twin[1] = k /\ twin[2] = 2
  BY DEF Row
<1>2. /\ t1 \in [Row -> CellStates]
      /\ t1[r] = IF Does("insert", k, E) THEN "new" ELSE t[r]
      /\ t1[twin] = t[twin]
  BY <1>1 DEF Inserted, Does, OfKind, CellStates
<1> HIDE DEF t1
<1>3. /\ t2 \in [Row -> CellStates]
      /\ \A s \in Row : /\ t2[s] = IF s \in Affected(OfKind(E, "set"), t1) THEN "new" ELSE t1[s]
                        /\ s \in Affected(OfKind(E, "set"), t1) => t1[s] # "gone"
  BY <1>2 DEF Updated, CellStates, Affected, Hit, RowsOf
<1>4. \A e \in OfKind(E, "set") : r \in Hit(e, t1) => r \in Affected(OfKind(E, "set"), t1)
  BY DEF Affected
<1>5. t3 = Deleted(E, t2)
  BY DEF AfterAll, t1
<1> HIDE DEF t2, t3
<1>6. /\ t3 \in [Row -> CellStates]
      /\ t3[r] = IF Does("delete", k, E) THEN "gone" ELSE t2[r]
      /\ t3[twin] \in {"gone", t2[twin]}
  BY <1>1, <1>3, <1>5 DEF Deleted, Does, OfKind, CellStates
<1> HIDE DEF r, twin
<1>7. /\ r \in Row /\ t1 \in [Row -> CellStates] /\ t2 \in [Row -> CellStates]
      /\ t3 \in [Row -> CellStates]
      /\ t1[r] = IF Does("insert", k, E) THEN "new" ELSE t[r]
      /\ t2[r] \in {"new", t1[r]} /\ (t1[r] = "gone" => t2[r] = "gone")
      /\ \A e \in OfKind(E, "set") : r \in Hit(e, t1) => t2[r] = "new"
      /\ t3[r] = IF Does("delete", k, E) THEN "gone" ELSE t2[r]
      /\ t[twin] = "gone" => t1[twin] = "gone" /\ t2[twin] = "gone" /\ t3[twin] = "gone"
  BY <1>1, <1>2, <1>3, <1>4, <1>6
<1> QED BY <1>7 DEF t1, t2, t3, r, twin

\* Which edits change a row, where keys have one row each.
LEMMA WhatTakesEffect ==
    ASSUME NEW E \in SUBSET Edit, NEW t \in [Row -> CellStates],
           \A k \in Key : t[<<k, 2>>] = "gone", ~InsertFails(E, t),
           NEW e \in Effective(E, t)
    PROVE  LET cell == t[<<e.key, 1>>]
               after == AfterAll(E, t)[<<e.key, 1>>] IN
           /\ e \in E
           /\ e.kind = "set" /\ e.previous # "unread" =>
                /\ cell = e.previous \/ (Does("insert", e.key, E) /\ e.previous = "new")
                /\ after \in {"new", "gone"}
           /\ e.kind = "insert" =>
                cell = "gone" /\ (~Does("delete", e.key, E) => after = "new")
           /\ e.kind = "delete" =>
                after = "gone" /\ (~Does("insert", e.key, E) => cell # "gone")
<1> DEFINE t1 == Inserted(E, t)
           t2 == Updated(E, t1)
           t3 == AfterAll(E, t)
           r == <<e.key, 1>>
<1>1. e \in E /\ e.key \in Key /\ e.kind \in {"set", "insert", "delete"}
  BY DEF Effective, Edit
<1>2. /\ r \in Row /\ t1 \in [Row -> CellStates] /\ t2 \in [Row -> CellStates]
      /\ t1[r] = IF Does("insert", e.key, E) THEN "new" ELSE t[r]
      /\ t2[r] \in {"new", t1[r]} /\ (t1[r] = "gone" => t2[r] = "gone")
      /\ \A f \in OfKind(E, "set") : r \in Hit(f, t1) => t2[r] = "new"
      /\ t3[r] = IF Does("delete", e.key, E) THEN "gone" ELSE t2[r]
      /\ t1[<<e.key, 2>>] = "gone" /\ t2[<<e.key, 2>>] = "gone"
  BY <1>1, CellAfter
<1>3. \A s \in Row : s[1] = e.key => s \in {r, <<e.key, 2>>}
  BY DEF Row
<1>4. /\ RowsOf(e.key, t1) \subseteq {r} /\ RowsOf(e.key, t2) \subseteq {r}
      /\ t[r] # "gone" => RowsOf(e.key, t) # {}
  <2>1. r[1] = e.key
    OBVIOUS
  <2> HIDE DEF r, t1, t2
  <2> QED BY <1>2, <1>3, <2>1 DEF RowsOf
<1> DEFINE cell == t[r]
           after == t3[r]
<1>5. CASE e.kind = "set"
  <2>1. Hit(e, t1) # {}
    BY <1>5 DEF Effective
  <2>2. r \in Hit(e, t1)
    <3> HIDE DEF r, t1
    <3> QED BY <1>4, <2>1 DEF Hit
  <2>3. t2[r] = "new" /\ e.previous \in {"unread", t1[r]}
    <3>1. e \in OfKind(E, "set")
      BY <1>1, <1>5 DEF OfKind
    <3> HIDE DEF r, t1, t2
    <3> QED BY <1>2, <2>2, <3>1 DEF Hit
  <2> HIDE DEF r, t1, t2, t3
  <2> QED BY <1>1, <1>2, <1>5, <2>3 DEF r, t3
<1>6. CASE e.kind = "insert"
  <2>1. RowsOf(e.key, t) = {} /\ Does("insert", e.key, E)
    BY <1>1, <1>6 DEF InsertFails, OfKind, Does
  <2>2. t[r] = "gone" /\ t2[r] = "new"
    <3> HIDE DEF r, t1, t2
    <3> QED BY <1>2, <1>4, <2>1
  <2> HIDE DEF r, t1, t2, t3
  <2> QED BY <1>1, <1>2, <1>6, <2>2 DEF r, t3
<1>7. CASE e.kind = "delete"
  <2>1. RowsOf(e.key, t2) # {} /\ Does("delete", e.key, E)
    BY <1>1, <1>7 DEF Effective, Does
  <2>2. t2[r] # "gone"
    <3> HIDE DEF r, t1, t2
    <3> QED BY <1>4, <2>1 DEF RowsOf
  <2> HIDE DEF r, t1, t2, t3
  <2> QED BY <1>1, <1>2, <1>7, <2>1, <2>2 DEF r, t3
<1> QED BY <1>1, <1>5, <1>6, <1>7

\* The statements are run and committed in the outside database (commit_change_set).
LEMMA RunKeeps == ASSUME WritebackInv, NEW q \in Caller, RunCommit(q) PROVE WritebackInv'
<1>0. PICK E \in SUBSET Edit : E = asked[q].edits
  BY DEF WritebackInv, WritebackTypeOK
<1>1. /\ WritebackTypeOK /\ OneRow /\ UNCHANGED <<status, edits, upsets>>
      /\ asked[q].at = "rehearsed" /\ E = edits /\ IsFiniteSet(edits)
      /\ Step(q, "recording") /\ ran' = ran \cup E /\ table' = AfterAll(E, table)
      /\ \A other \in Caller : asked[other].at \notin EditingAt
      /\ ~InsertFails(E, table) /\ table \in [Row -> CellStates]
      /\ wrote' = [e \in Edit |-> IF e \in Effective(E, table) /\ Counted(e) /\ wrote[e] < 2
                                  THEN wrote[e] + 1 ELSE wrote[e]]
  BY <1>0 DEF WritebackInv, CommitHasAll, WritebackTypeOK, RunCommit, Refused, AskedAt,
              CommittingAt, CellStates
<1>2. /\ asked' \in [Caller -> CallerStates] /\ asked'[q].at = "recording" /\ asked'[q].edits = E
      /\ \A other \in Caller \ {q} : asked'[other] = asked[other]
  BY <1>0, <1>1, CallerSteps DEF CommittingAt
<1>3. /\ \A k \in Key :
           /\ LET cell == table[<<k, 1>>]
                  after == table'[<<k, 1>>] IN
              /\ cell \in CellStates /\ after \in CellStates
              /\ after \in {"new", "gone", cell}
              /\ ~Does("delete", k, E) /\ cell \in {"new", "later"} => after \in {"new", "later"}
              /\ ~Does("insert", k, E) /\ cell = "gone" => after = "gone"
           /\ table'[<<k, 2>>] = "gone"
  <2>1. ASSUME NEW k \in Key
        PROVE  LET cell == table[<<k, 1>>]
                   after == table'[<<k, 1>>] IN
               /\ cell \in CellStates /\ after \in CellStates
               /\ after \in {"new", "gone", cell}
               /\ ~Does("delete", k, E) /\ cell \in {"new", "later"} => after \in {"new", "later"}
               /\ ~Does("insert", k, E) /\ cell = "gone" => after = "gone"
               /\ table'[<<k, 2>>] = "gone"
    <3>1. table[<<k, 2>>] = "gone"
      BY <1>1 DEF OneRow
    <3>2. /\ <<k, 1>> \in Row /\ AfterAll(E, table) \in [Row -> CellStates]
          /\ Inserted(E, table)[<<k, 1>>] =
               IF Does("insert", k, E) THEN "new" ELSE table[<<k, 1>>]
          /\ Updated(E, Inserted(E, table))[<<k, 1>>]
               \in {"new", Inserted(E, table)[<<k, 1>>]}
          /\ Inserted(E, table)[<<k, 1>>] = "gone" =>
               Updated(E, Inserted(E, table))[<<k, 1>>] = "gone"
          /\ AfterAll(E, table)[<<k, 1>>] =
               IF Does("delete", k, E) THEN "gone" ELSE Updated(E, Inserted(E, table))[<<k, 1>>]
          /\ AfterAll(E, table)[<<k, 2>>] = "gone"
      BY <1>0, <1>1, <3>1, CellAfter
    <3> QED BY <1>1, <3>2
  <2> QED BY <2>1
<1>4. table' \in [Row -> CellStates]
  <2>1. CASE Key = {}
    <3>1. Row = {}
      BY <2>1 DEF Row
    <3> QED BY <1>1, <3>1 DEF AfterAll, Deleted
  <2>2. CASE Key # {}
    <3>1. PICK k \in Key : TRUE
      BY <2>2
    <3> QED BY <1>1, <3>1, CellAfter
  <2> QED BY <2>1, <2>2
<1>5. /\ wrote' \in [Edit -> 0 .. 2]
      /\ \A e \in Edit : wrote'[e] \in {wrote[e], wrote[e] + 1}
      /\ \A e \in Edit : wrote'[e] # wrote[e] => e \in Effective(E, table) /\ Counted(e)
  <2>1. ASSUME NEW e \in Edit
        PROVE  /\ wrote'[e] \in 0 .. 2 /\ wrote'[e] \in {wrote[e], wrote[e] + 1}
               /\ wrote'[e] # wrote[e] => e \in Effective(E, table) /\ Counted(e)
    <3>1. wrote[e] \in 0 .. 2
      BY <1>1 DEF WritebackTypeOK
    <3>2. wrote'[e] = wrote[e]
            \/ (wrote'[e] = wrote[e] + 1 /\ wrote[e] < 2 /\ e \in Effective(E, table)
                /\ Counted(e))
      BY <1>1
    <3> QED BY <3>1, <3>2
  <2>2. wrote' = [e \in Edit |-> wrote'[e]]
    BY <1>1
  <2> QED BY <2>1, <2>2
<1>6. WritebackTypeOK'
  <2>1. \A other \in Caller : asked'[other].at \in CommittingAt => asked'[other].edits # {}
    BY <1>0, <1>1, <1>2 DEF WritebackTypeOK, CommittingAt
  <2> QED BY <1>1, <1>2, <1>4, <1>5, <2>1 DEF WritebackTypeOK, CallerStates, CellStates, EditingAt
<1>7. CommitHasAll'
  <2>1. \A other \in Caller : asked'[other].at \notin EditingAt
    BY <1>1, <1>2 DEF EditingAt
  <2>2. \A other \in Caller : asked'[other].at \in CommittingAt => asked'[other].edits = edits
    BY <1>1, <1>2 DEF WritebackInv, CommitHasAll
  <2> QED BY <1>1, <2>1, <2>2 DEF CommitHasAll
<1>8. RunThenRecorded'
  <2>1. \A other \in Caller : asked'[other].at = "recording" => asked'[other].edits \subseteq ran'
    BY <1>1, <1>2 DEF WritebackInv, RunThenRecorded
  <2>2. \A other \in Caller : asked'[other].at \notin EditingAt
    BY <1>1, <1>2 DEF EditingAt
  <2> QED BY <1>1, <2>1, <2>2 DEF RunThenRecorded
<1>9. OneRow'
  BY <1>3 DEF OneRow
<1>10. WrittenOnce'
  <2>1. ASSUME NEW e \in Edit
        PROVE  /\ ~Counted(e) => wrote'[e] = 0
               /\ wrote'[e] # 0 => CellWritten(e)'
               /\ StaysWritten(e)' => wrote'[e] <= 1
    <3> DEFINE cell == table[<<e.key, 1>>]
               after == table'[<<e.key, 1>>]
    <3>1. /\ ~Counted(e) => wrote[e] = 0
          /\ wrote[e] # 0 => CellWritten(e)
          /\ StaysWritten(e) => wrote[e] <= 1
          /\ wrote[e] \in 0 .. 2
      BY <1>1 DEF WritebackInv, WrittenOnce, WritebackTypeOK
    <3>2. /\ e.key \in Key /\ e.kind \in {"set", "insert", "delete"}
          /\ e.previous \in {"old", "theirs", "unread"}
      BY DEF Edit
    <3>3. \A kind : Does(kind, e.key, ran') <=> Does(kind, e.key, ran) \/ Does(kind, e.key, E)
      BY <1>1 DEF Does
    <3>4. wrote'[e] \in {wrote[e], wrote[e] + 1}
          /\ (wrote'[e] # wrote[e] => e \in Effective(E, table) /\ Counted(e))
      BY <1>5
    <3>5. CASE wrote'[e] = wrote[e]
      <4>1. /\ cell \in CellStates /\ after \in CellStates
            /\ after \in {"new", "gone", cell}
            /\ ~Does("delete", e.key, E) /\ cell \in {"new", "later"} => after \in {"new", "later"}
            /\ ~Does("insert", e.key, E) /\ cell = "gone" => after = "gone"
        BY <1>3, <3>2
      <4>2. CellWritten(e) => CellWritten(e)'
        BY <3>2, <3>3, <4>1 DEF CellWritten
      <4>3. StaysWritten(e)' => StaysWritten(e)
        BY <3>3 DEF StaysWritten
      <4> QED BY <3>1, <3>5, <4>2, <4>3
    <3>6. CASE wrote'[e] # wrote[e]
      <4>1. e \in Effective(E, table) /\ Counted(e) /\ wrote'[e] = wrote[e] + 1
        BY <3>4, <3>6
      <4>2. /\ e.kind = "set" /\ e.previous # "unread" =>
                 /\ cell = e.previous \/ (Does("insert", e.key, E) /\ e.previous = "new")
                 /\ after \in {"new", "gone"}
            /\ e.kind = "insert" =>
                 cell = "gone" /\ (~Does("delete", e.key, E) => after = "new")
            /\ e.kind = "delete" =>
                 after = "gone" /\ (~Does("insert", e.key, E) => cell # "gone")
        <5>1. \A k \in Key : table[<<k, 2>>] = "gone"
          BY <1>1 DEF OneRow
        <5>2. /\ e.kind = "set" /\ e.previous # "unread" =>
                   /\ \/ table[<<e.key, 1>>] = e.previous
                      \/ Does("insert", e.key, E) /\ e.previous = "new"
                   /\ AfterAll(E, table)[<<e.key, 1>>] \in {"new", "gone"}
              /\ e.kind = "insert" =>
                   /\ table[<<e.key, 1>>] = "gone"
                   /\ ~Does("delete", e.key, E) => AfterAll(E, table)[<<e.key, 1>>] = "new"
              /\ e.kind = "delete" =>
                   /\ AfterAll(E, table)[<<e.key, 1>>] = "gone"
                   /\ ~Does("insert", e.key, E) => table[<<e.key, 1>>] # "gone"
          BY <1>0, <1>1, <4>1, <5>1, WhatTakesEffect
        <5> QED BY <1>1, <5>2
      <4>3. CellWritten(e)'
        BY <3>2, <3>3, <4>1, <4>2 DEF CellWritten, Counted
      <4>4. StaysWritten(e)' => ~CellWritten(e)
        BY <3>2, <3>3, <4>1, <4>2 DEF StaysWritten, CellWritten, Counted
      <4> QED BY <3>1, <4>1, <4>3, <4>4
    <3> QED BY <3>5, <3>6
  <2> QED BY <2>1 DEF WrittenOnce, Counted
<1> QED BY <1>6, <1>7, <1>8, <1>9, <1>10 DEF WritebackInv

\* At the start every key is one row and nothing was written.
LEMMA WritebackStart == ASSUME Repeated = {}, WritebackInit PROVE WritebackInv
<1>1. \A q \in Caller : asked[q].at = "idle" /\ asked[q].edits = {}
  BY DEF WritebackInit, Unasked
<1>2. table \in [Row -> CellStates] /\ \A k \in Key : table[<<k, 2>>] = "gone"
  <2>1. \A k \in Key : <<k, 2>> \in Row
    BY DEF Row
  <2> QED BY <2>1 DEF WritebackInit, CellStates
<1>3. WritebackTypeOK
  <2>1. Unasked \in CallerStates
    BY DEF Unasked, CallerStates
  <2>2. asked \in [Caller -> CallerStates] /\ wrote \in [Edit -> 0 .. 2]
    BY <2>1 DEF WritebackInit
  <2>3. upsets \in 0 .. MaxUpsets
    BY WritebackAssumption DEF WritebackInit
  <2> QED BY <1>1, <1>2, <2>2, <2>3
          DEF WritebackInit, WritebackTypeOK, CallerStates, CellStates, EditingAt, CommittingAt
<1>4. CommitHasAll
  BY <1>1, FS_EmptySet DEF WritebackInit, CommitHasAll, CommittingAt
<1>5. RunThenRecorded
  BY <1>1 DEF WritebackInit, RunThenRecorded
<1>6. OneRow
  BY <1>2 DEF OneRow
<1>7. WrittenOnce
  <2>1. \A e \in Edit : wrote[e] = 0
    BY DEF WritebackInit
  <2> QED BY <2>1 DEF WrittenOnce
<1> QED BY <1>3, <1>4, <1>5, <1>6, <1>7 DEF WritebackInv

\* Every step of the people, the requests and whoever else writes keeps the invariant.
LEMMA WritebackStep ==
    ASSUME EditedMeanwhile = FALSE, WritebackInv, [WritebackNext]_writebackVars
    PROVE  WritebackInv'
<1>1. CASE UNCHANGED writebackVars
  <2>1. WritebackTypeOK' /\ CommitHasAll' /\ RunThenRecorded'
    BY <1>1 DEF writebackVars, WritebackInv, WritebackTypeOK, CommitHasAll, RunThenRecorded
  <2> QED BY <1>1, <2>1, TableRests DEF writebackVars, WritebackInv
<1>2. ASSUME NEW q \in Caller, Discard(q) \/ CommitRefused(q) \/ RecordCommit(q)
      PROVE  WritebackInv'
  <2>1. upsets' \in 0 .. MaxUpsets
    BY <1>2 DEF Discard, CommitRefused, RecordCommit, WritebackInv, WritebackTypeOK
  <2>2. \/ status' \in {status, "discarded"}
        \/ status' = "committed" /\ asked[q].at = "recording"
    BY <1>2 DEF Discard, CommitRefused, RecordCommit, StatusAfterRefusal, AskedAt
  <2>3. /\ asked' = [asked EXCEPT ![q] = Unasked] /\ UNCHANGED <<table, edits, ran, wrote>>
    BY <1>2 DEF Discard, CommitRefused, RecordCommit, Answered
  <2> QED BY <2>1, <2>2, <2>3, AnsweredKeeps
<1>3. ASSUME NEW q \in Caller, RequestIsLost(q) PROVE WritebackInv'
  <2>1. upsets' \in 0 .. MaxUpsets
    <3>1. upsets \in Nat /\ MaxUpsets \in Nat /\ upsets < MaxUpsets /\ upsets' = upsets + 1
      BY <1>3, WritebackAssumption DEF WritebackInv, WritebackTypeOK, RequestIsLost
    <3> QED BY <3>1, LandingsBounded
  <2> QED BY <1>3, <2>1, AnsweredKeeps DEF RequestIsLost, Answered
<1> QED BY <1>1, <1>2, <1>3, ElsewhereKeeps, ChangeKeeps, EditKeeps, RehearseKeeps, RunKeeps
        DEF WritebackNext, EditingAt

\* Write-back is safe (commit_change_set): what is marked committed was run outside, and
\* an edit that says what it replaces, an insert or a delete is run once, whatever is
\* lost and asked again.  That keys are enforced, and that nobody stages an edit while a
\* commit goes on, are conditions.
THEOREM WritebackIsSafe ==
    ASSUME EditedMeanwhile = FALSE, Repeated = {}
    PROVE  WritebackSpec => []WritebackSafety
<1>1. WritebackInit => WritebackInv
  BY WritebackStart
<1>2. WritebackInv /\ [WritebackNext]_writebackVars => WritebackInv'
  BY WritebackStep
<1>3. WritebackInv => WritebackSafety
  <2> SUFFICES ASSUME WritebackInv PROVE WritebackSafety
    OBVIOUS
  <2>1. CommittedIsApplied
    BY DEF WritebackInv, RunThenRecorded, CommittedIsApplied
  <2>2. AppliedOnce
    <3> SUFFICES ASSUME NEW e \in Edit,
                        e.kind = "set" \/ (\A f \in ran : f.key = e.key => f.kind \in {e.kind, "set"})
                 PROVE  wrote[e] <= 1
      BY DEF AppliedOnce
    <3>1. e.kind \in {"set", "insert", "delete"}
      BY DEF Edit
    <3>2. StaysWritten(e)
      BY <3>1 DEF StaysWritten, Does
    <3> QED BY <3>2 DEF WritebackInv, WrittenOnce
  <2> QED BY <2>1, <2>2 DEF WritebackInv, WritebackSafety
<1> QED BY <1>1, <1>2, <1>3, PTL DEF WritebackSpec

\* Where keys have one row each, a batch of cell edits that hits as many rows as it has
\* edits hits the row of each (compiler.py): an edit that misses cannot be made up for.
LEMMA CountsSuffice ==
    ASSUME NEW E \in SUBSET Edit, IsFiniteSet(E),
           \A e, f \in E : e.kind = f.kind /\ e.key = f.key => e = f,
           NEW t \in [Row -> CellStates], \A k \in Key : t[<<k, 2>>] = "gone",
           NEW G \in Batches(E), Cardinality(Affected(G, Inserted(E, t))) = Cardinality(G),
           NEW e \in G
    PROVE  Hit(e, Inserted(E, t)) = {<<e.key, 1>>}
<1> DEFINE t1 == Inserted(E, t)
           RowOf == [f \in G |-> <<f.key, 1>>]
           Aimed == {<<f.key, 1>> : f \in G}
<1>1. /\ G \subseteq E /\ \A f \in G : f \in Edit /\ f.kind = "set" /\ f.key \in Key
  BY DEF Batches, OfKind, Edit
<1>2. IsFiniteSet(G) /\ Cardinality(G) \in Nat
  BY <1>1, FS_Subset, FS_CardinalityType
<1>3. \A f \in G : Hit(f, t1) \subseteq {<<f.key, 1>>}
  <2> SUFFICES ASSUME NEW f \in G, NEW r \in Hit(f, t1) PROVE r = <<f.key, 1>>
    OBVIOUS
  <2>1. t1[<<f.key, 2>>] = "gone"
    <3>1. <<f.key, 2>> \in Row
      BY <1>1 DEF Row
    <3>2. t1[<<f.key, 2>>] = t[<<f.key, 2>>]
      BY <3>1 DEF Inserted
    <3> QED BY <1>1, <3>2
  <2>2. r \in Row /\ r[1] = f.key /\ t1[r] # "gone"
    BY DEF Hit, RowsOf
  <2>3. r \in {<<f.key, 1>>, <<f.key, 2>>}
    BY <2>2 DEF Row
  <2> QED BY <2>1, <2>2, <2>3
<1> HIDE DEF t1
<1>4. Affected(G, t1) \subseteq Aimed
  BY <1>3 DEF Affected
<1>5. RowOf \in Bijection(G, Aimed)
  <2>1. RowOf \in [G -> Aimed]
    OBVIOUS
  <2>2. \A f, g \in G : RowOf[f] = RowOf[g] => f = g
    BY <1>1
  <2>3. \A r \in Aimed : \E f \in G : RowOf[f] = r
    OBVIOUS
  <2> QED BY <2>1, <2>2, <2>3 DEF Bijection, Injection, Surjection, IsInjective
<1>6. IsFiniteSet(Aimed) /\ Cardinality(Aimed) = Cardinality(G)
  BY <1>2, <1>5, FS_Bijection DEF ExistsBijection
<1>7. Affected(G, t1) = Aimed
  BY <1>4, <1>6, FS_Subset DEF t1
<1>8. PICK f \in G : <<e.key, 1>> \in Hit(f, t1)
  BY <1>7 DEF Affected
<1>9. f = e
  <2>1. f.key = e.key
    BY <1>3, <1>8
  <2> QED BY <1>1, <2>1
<1> QED BY <1>3, <1>8, <1>9 DEF t1

\* A commit nobody allowed to surprise replaces only what was seen (compiler.py:180-183):
\* each cell edit changes one row, which holds what its person saw.
THEOREM WhatWasSeenIsReplaced ==
    ASSUME EditedMeanwhile = FALSE, Repeated = {}
    PROVE  WritebackSpec => NothingWrittenOver
<1> DEFINE Replaced(q, e) ==
             LET t1 == Inserted(asked[q].edits, table) IN
             Cardinality({r \in RowsOf(e.key, t1) :
                             e.previous = "unread" \/ t1[r] = e.previous}) = 1
<1>1. WritebackInit => WritebackInv
  BY WritebackStart
<1>2. WritebackInv /\ [WritebackNext]_writebackVars => WritebackInv'
  BY WritebackStep
<1>3. ASSUME WritebackInv, NEW q \in Caller, RunCommit(q), ~asked[q].allow,
             NEW e \in OfKind(asked[q].edits, "set")
      PROVE  Replaced(q, e)
  <2> DEFINE t1 == Inserted(edits, table)
  <2>1. /\ edits \in SUBSET Edit /\ IsFiniteSet(edits) /\ asked[q].edits = edits
        /\ table \in [Row -> CellStates] /\ \A k \in Key : table[<<k, 2>>] = "gone"
        /\ \A f, g \in edits : f.kind = g.kind /\ f.key = g.key => f = g
        /\ ~Surprised(edits, table)
    BY <1>3 DEF WritebackInv, WritebackTypeOK, CommitHasAll, OneRow, RunCommit, Refused,
                AskedAt, CommittingAt, CellStates
  <2>2. PICK G \in Batches(edits) : e \in G
    BY <1>3, <2>1 DEF Batches, OfKind
  <2>3. Cardinality(Affected(G, t1)) = Cardinality(G)
    BY <2>1 DEF Surprised
  <2>4. Hit(e, t1) = {<<e.key, 1>>}
    BY <2>1, <2>2, <2>3, CountsSuffice
  <2> HIDE DEF t1
  <2>5. {r \in RowsOf(e.key, t1) : e.previous = "unread" \/ t1[r] = e.previous} = Hit(e, t1)
    BY DEF Hit
  <2>6. Cardinality({<<e.key, 1>>}) = 1
    BY FS_Singleton
  <2> QED BY <2>1, <2>4, <2>5, <2>6 DEF t1
<1>4. WritebackInv /\ [WritebackNext]_writebackVars =>
        [\A q \in Caller :
            LET t1 == Inserted(asked[q].edits, table) IN
            RunCommit(q) /\ ~asked[q].allow =>
              \A e \in OfKind(asked[q].edits, "set") :
                  Cardinality({r \in RowsOf(e.key, t1) :
                                  e.previous = "unread" \/ t1[r] = e.previous}) = 1]_writebackVars
  BY <1>3
<1> QED BY <1>1, <1>2, <1>4, PTL DEF WritebackSpec, NothingWrittenOver

(***************************************************************************)
(* Alerts.  Captures do not overlap: the line is what the last event says. *)
(* A sender at work on an event it claimed is the only one, and a delivery *)
(* that is tried again is in the hands of one worker, whose record of it   *)
(* starts from the attempts the row shows.                                 *)
(***************************************************************************)

SendingAt == {"posting", "recording"}
TryingAt == {"trying", "closing"}
Event == [of : Capture, kind : {"crossed", "cleared"}, afresh : BOOLEAN]
Judging == [at : {"waiting", "judging", "done"}, past : BOOLEAN, moves : BOOLEAN,
            seen : {"ok", "crossed"}]
Result == [of : Capture, outcome : Outcome \cup {"off"}, before : 0 .. MaxAttempts]
SenderStates ==
    [at : {"idle", "claiming"} \cup SendingAt \cup TryingAt, list : Seq(Capture),
     results : Seq(Result)]

\* What a sender has in hand: the events it has listed, and those it has a result for.
Queued(hand) == {hand.list[i] : i \in DOMAIN hand.list}
Tried(hand) == {hand.results[i].of : i \in DOMAIN hand.results}
Sends(hand, c) == hand.at \in SendingAt /\ c = Head(hand.list)
Tries(hand, c) == hand.at \in TryingAt /\ c \in Queued(hand) \cup Tried(hand)
Posted(hand, c) ==
    \E i \in DOMAIN hand.results : hand.results[i].of = c /\ hand.results[i].outcome # "off"

HandIsRight(hand) ==
    /\ hand.at \in {"claiming", "posting", "recording", "trying"} => hand.list # <<>>
    /\ hand.at \in {"idle", "claiming", "posting"} => hand.results = <<>>
    /\ hand.at = "recording" =>
         \E outcome \in Outcome :
             hand.results = <<[of |-> Head(hand.list), outcome |-> outcome, before |-> 0]>>
    /\ hand.at \in TryingAt =>
         /\ Queued(hand) \cap Tried(hand) = {}
         /\ \A i, j \in DOMAIN hand.list : hand.list[i] = hand.list[j] => i = j
         /\ \A i, j \in DOMAIN hand.results :
              hand.results[i].of = hand.results[j].of => i = j

\* The line is where the last event left it, or was moved since, and who judges has read it.
LineFollows ==
    /\ line = "crossed" => events # <<>> /\ events[Len(events)].kind = "crossed"
    /\ line = "ok" => events = <<>> \/ events[Len(events)].kind = "cleared" \/ afresh
    /\ \A c, d \in Capture : capture[c].at = "judging" /\ capture[d].at = "judging" => c = d
    /\ \A c \in Capture :
         /\ capture[c].at = "judging" => capture[c].seen = line
         /\ capture[c].at # "done" => \A i \in DOMAIN events : events[i].of # c

\* An event is sent by the one worker that claimed it.
SentAlone ==
    /\ \A c \in Capture :
         /\ ~sent[c] => told[c] = 0 /\ posts[c] = 0 /\ c \notin untold
         /\ told[c] = 0 /\ c \notin untold => delivery[c] = NoDelivery
         /\ told[c] <= 1
    /\ \A w \in Sender, c \in Capture : Sends(sender[w], c) =>
         sent[c] /\ told[c] = 0 /\ c \notin untold
    /\ \A v, w \in Sender, c \in Capture : Sends(sender[v], c) /\ Sends(sender[w], c) => v = w

\* A delivery is tried again by one worker at a time, from the attempts the row shows.
TriedAlone ==
    /\ \A c \in Capture : delivery[c].status = "pending" => delivery[c].attempts < MaxAttempts
    /\ \A w \in Sender, c \in Capture : Tries(sender[w], c) => delivery[c].status = "pending"
    /\ \A v, w \in Sender, c \in Capture : Tries(sender[v], c) /\ Tries(sender[w], c) => v = w
    /\ \A w \in Sender : sender[w].at \in TryingAt =>
         \A i \in DOMAIN sender[w].results :
             sender[w].results[i].before = delivery[sender[w].results[i].of].attempts

\* A post more than the attempts that are counted is one that is not recorded yet, or one
\* whose worker died.
PostsAreCounted ==
    \A c \in Capture :
        /\ posts[c] <= delivery[c].attempts + kills + 1
        /\ (\A w \in Sender : ~Posted(sender[w], c)) => posts[c] <= delivery[c].attempts + kills

SendingInv ==
    /\ \A w \in Sender : HandIsRight(sender[w])
    /\ SentAlone
    /\ TriedAlone
    /\ PostsAreCounted

AlertInv ==
    /\ AlertTypeOK
    /\ LineFollows
    /\ CrossingsAlternate
    /\ SendingInv


\* What is left of a list when its head is taken.
LEMMA TakeHead ==
    ASSUME NEW S, NEW list \in Seq(S), list # <<>>,
           \A i, j \in DOMAIN list : list[i] = list[j] => i = j
    PROVE  /\ Head(list) \in S /\ Head(list) = list[1] /\ 1 \in DOMAIN list
           /\ Tail(list) \in Seq(S)
           /\ Len(list) = 1 <=> Tail(list) = <<>>
           /\ \A i \in DOMAIN Tail(list) :
                i + 1 \in DOMAIN list /\ Tail(list)[i] = list[i + 1] /\ Tail(list)[i] # Head(list)
           /\ \A i, j \in DOMAIN Tail(list) : Tail(list)[i] = Tail(list)[j] => i = j
<1>1. Len(list) \in Nat \ {0} /\ DOMAIN list = 1 .. Len(list)
  BY EmptySeq, LenProperties
<1>2. /\ Head(list) \in S /\ Tail(list) \in Seq(S) /\ Len(Tail(list)) = Len(list) - 1
      /\ \A i \in 1 .. Len(Tail(list)) : Tail(list)[i] = list[i + 1]
  BY HeadTailProperties
<1>3. DOMAIN Tail(list) = 1 .. Len(Tail(list))
  BY <1>2, LenProperties
<1>4. Head(list) = list[1] /\ 1 \in DOMAIN list
  BY <1>1
<1>5. Len(list) = 1 <=> Tail(list) = <<>>
  BY <1>1, <1>2, EmptySeq
<1>6. ASSUME NEW i \in DOMAIN Tail(list)
      PROVE  i + 1 \in DOMAIN list /\ Tail(list)[i] = list[i + 1] /\ Tail(list)[i] # Head(list)
  <2>1. i \in Nat \ {0} /\ i + 1 \in DOMAIN list /\ i + 1 # 1
    BY <1>1, <1>2, <1>3
  <2> QED BY <1>2, <1>3, <1>4, <2>1
<1>7. ASSUME NEW i \in DOMAIN Tail(list), NEW j \in DOMAIN Tail(list),
             Tail(list)[i] = Tail(list)[j]
      PROVE  i = j
  <2>1. i + 1 = j + 1
    BY <1>6, <1>7
  <2> QED BY <1>3, <2>1
<1> QED BY <1>2, <1>4, <1>5, <1>6, <1>7

\* What a query finds is listed once each.
LEMMA QueryListsOnce ==
    ASSUME AlertTypeOK, NEW found \in SUBSET Written, NEW list \in FromOldest(found)
    PROVE  /\ list \in Seq(Capture)
           /\ found # {} => list # <<>>
           /\ \A i \in DOMAIN list : list[i] \in found
           /\ \A i, j \in DOMAIN list : list[i] = list[j] => i = j
<1>1. /\ DOMAIN events = 1 .. Len(events) /\ Len(events) \in Nat
      /\ \A i \in DOMAIN events : events[i].of \in Capture
  <2>1. events \in Seq(Event)
    BY DEF AlertTypeOK, Event
  <2>2. DOMAIN events = 1 .. Len(events) /\ Len(events) \in Nat
    BY <2>1, LenProperties
  <2>3. \A i \in DOMAIN events : events[i] \in Event
    BY <2>1, <2>2, ElementOfSeq
  <2> QED BY <2>2, <2>3 DEF Event
<1>2. IsFiniteSet(Written)
  <2> DEFINE Of == [i \in DOMAIN events |-> events[i].of]
  <2>1. Of \in Surjection(DOMAIN events, Written)
    BY DEF Surjection, Written
  <2>2. IsFiniteSet(DOMAIN events)
    BY <1>1, FS_Interval
  <2> QED BY <2>1, <2>2, FS_Surjection
<1>3. IsFiniteSet(found) /\ Cardinality(found) \in Nat /\ (found # {} => Cardinality(found) # 0)
  BY <1>2, FS_Subset, FS_CardinalityType, FS_EmptySet
<1>4. list \in [1 .. Cardinality(found) -> found]
  BY DEF FromOldest
<1>5. found \subseteq Capture
  BY <1>1 DEF Written
<1>6. list \in Seq(Capture) /\ Len(list) = Cardinality(found)
  BY <1>3, <1>4, <1>5, SeqDef
<1>7. ASSUME NEW i \in 1 .. Cardinality(found), NEW j \in 1 .. Cardinality(found), i < j
      PROVE  list[i] # list[j]
  <2>1. PICK m, n \in DOMAIN events :
          m < n /\ events[m].of = list[i] /\ events[n].of = list[j]
    BY <1>7 DEF FromOldest
  <2>2. m # n
    BY <1>1, <2>1
  <2> QED BY <2>1, <2>2 DEF AlertTypeOK
<1>8. ASSUME NEW i \in DOMAIN list, NEW j \in DOMAIN list, list[i] = list[j] PROVE i = j
  <2>1. i \in 1 .. Cardinality(found) /\ j \in 1 .. Cardinality(found)
    BY <1>4
  <2>2. ~(i < j) /\ ~(j < i)
    BY <1>7, <1>8, <2>1
  <2> QED BY <1>3, <2>1, <2>2
<1>9. found # {} => list # <<>>
  BY <1>3, <1>6, EmptySeq
<1> QED BY <1>4, <1>6, <1>8, <1>9

\* The alert's own side does not depend on who sends.
LEMMA CapturesRest ==
    ASSUME UNCHANGED alertSide PROVE /\ LineFollows => LineFollows'
                                     /\ CrossingsAlternate => CrossingsAlternate'
  BY DEF alertSide, LineFollows, CrossingsAlternate

\* Nothing of the sending moves.
LEMMA SendersRest ==
    ASSUME SendingInv, UNCHANGED <<sendSide, delivery, posts, sender, kills>> PROVE SendingInv'
<1>1. /\ sent' = sent /\ told' = told /\ untold' = untold /\ delivery' = delivery
      /\ posts' = posts /\ sender' = sender /\ kills' = kills
  BY DEF sendSide
<1>2. SentAlone' /\ TriedAlone'
  BY <1>1 DEF SendingInv, SentAlone, TriedAlone
<1>3. PostsAreCounted'
  BY <1>1 DEF SendingInv, PostsAreCounted
<1> QED BY <1>1, <1>2, <1>3 DEF SendingInv

\* What the sending side of the type says, without the rest.
SendingTypeOK ==
    /\ sent \in [Capture -> BOOLEAN]
    /\ told \in [Capture -> 0 .. Cardinality(Sender)]
    /\ untold \subseteq Capture
    /\ delivery \in [Capture -> [status : {"none", "pending", "succeeded", "failed"},
                                 attempts : 0 .. MaxAttempts, due : BOOLEAN]]
    /\ posts \in [Capture -> Nat]
    /\ sender \in [Sender -> SenderStates]
    /\ kills \in 0 .. MaxKills

\* The type of what the sending changes.
LEMMA SendingTypes ==
    AlertTypeOK <=>
      /\ SendingTypeOK
      /\ line \in {"ok", "crossed"}
      /\ capture \in [Capture -> Judging]
      /\ events \in Seq(Event) /\ afresh \in BOOLEAN
      /\ \A i, j \in DOMAIN events : events[i].of = events[j].of => i = j
      /\ target \in BOOLEAN
  BY DEF AlertTypeOK, SendingTypeOK, SenderStates, SendingAt, TryingAt, Result, Event, Judging

\* What the captures leave alone keeps its type.
LEMMA SendingTypesKept ==
    ASSUME AlertTypeOK, SendingTypeOK', UNCHANGED alertSide, target' \in BOOLEAN
    PROVE  AlertTypeOK'
  BY DEF AlertTypeOK, SendingTypeOK, SenderStates, SendingAt, TryingAt, Result, alertSide

\* A capture, or a person who moves the line, reads the alert while nobody judges it.
LEMMA ReadKeeps ==
    ASSUME CapturesOverlap = FALSE, AlertInv, NEW c \in Capture, NEW past \in BOOLEAN,
           NEW moves \in BOOLEAN, ReadAlert(c, past, moves)
    PROVE  AlertInv'
<1> DEFINE next == [at |-> "judging", past |-> past, moves |-> moves, seen |-> line]
<1>1. /\ AlertTypeOK /\ SendingTypeOK /\ LineFollows /\ SendingInv /\ CrossingsAlternate
      /\ UNCHANGED <<line, events, afresh, sendSide, delivery, posts, sender, target, kills>>
      /\ capture[c].at = "waiting" /\ \A other \in Capture : capture[other].at # "judging"
      /\ capture' = [capture EXCEPT ![c] = next]
  BY SendingTypes DEF AlertInv, ReadAlert
<1>2. next \in Judging /\ next.at = "judging" /\ next.seen = line
  BY <1>1, SendingTypes DEF Judging
<1> HIDE DEF next
<1>3. /\ capture' \in [Capture -> Judging]
      /\ capture'[c].at = "judging" /\ capture'[c].seen = line
      /\ \A other \in Capture \ {c} : capture'[other] = capture[other]
  BY <1>1, <1>2, SendingTypes
<1>4. AlertTypeOK'
  <2>1. SendingTypeOK'
    BY <1>1 DEF SendingTypeOK, sendSide
  <2> QED BY <1>1, <1>3, <2>1
          DEF AlertTypeOK, SendingTypeOK, Judging, SenderStates, SendingAt, TryingAt, Result
<1>5. LineFollows'
  BY <1>1, <1>3 DEF LineFollows
<1>6. CrossingsAlternate'
  BY <1>1 DEF CrossingsAlternate
<1> QED BY <1>1, <1>4, <1>5, <1>6, SendersRest DEF AlertInv

\* The alert's state is committed, with the event if the line is crossed or the alert comes
\* back over it.
LEMMA JudgeKeeps ==
    ASSUME AlertInv, NEW c \in Capture, Judge(c) PROVE AlertInv'
<1> DEFINE next == [CaptureRests EXCEPT !.at = "done"]
<1>1. /\ AlertTypeOK /\ SendingTypeOK /\ LineFollows /\ SendingInv /\ CrossingsAlternate
      /\ UNCHANGED <<sendSide, delivery, posts, sender, target, kills>>
      /\ capture[c].at = "judging" /\ line' = StateAfter(c)
      /\ capture' = [capture EXCEPT ![c] = next]
      /\ afresh' = (StateOf(c) = Against(c) /\ (afresh \/ capture[c].moves))
  BY SendingTypes DEF AlertInv, Judge
<1>2. next \in Judging /\ next.at = "done"
  BY DEF CaptureRests, Judging
<1> HIDE DEF next
<1>3. /\ capture' \in [Capture -> Judging] /\ capture'[c].at = "done"
      /\ \A other \in Capture \ {c} : capture'[other] = capture[other]
  BY <1>1, <1>2, SendingTypes
<1>4. /\ capture[c].seen = line /\ line \in {"ok", "crossed"}
      /\ capture[c].moves \in BOOLEAN /\ capture[c].past \in BOOLEAN /\ afresh \in BOOLEAN
      /\ \A i \in DOMAIN events : events[i].of # c
      /\ \A other \in Capture \ {c} : capture[other].at # "judging"
  BY <1>1 DEF LineFollows, AlertTypeOK
<1>5. line' = StateOf(c) /\ StateOf(c) \in {"ok", "crossed"}
  BY <1>1, <1>4 DEF StateAfter, StateOf
<1>6. SendingTypeOK' /\ afresh' \in BOOLEAN /\ target' \in BOOLEAN
  BY <1>1, SendingTypes DEF SendingTypeOK, sendSide
<1>7. \A d \in Capture : capture'[d].at # "judging"
  BY <1>3, <1>4
<1>8. CASE StateOf(c) = Against(c)
  <2>1. UNCHANGED events
    BY <1>8 DEF Judge
  <2>2. AlertTypeOK'
    BY <1>1, <1>3, <1>5, <1>6, <2>1
       DEF AlertTypeOK, SendingTypeOK, Judging, SenderStates, SendingAt, TryingAt, Result
  <2>3. afresh' = (afresh \/ capture[c].moves)
    BY <1>1, <1>8
  <2>4. capture[c].moves => StateOf(c) = "ok"
    BY <1>8 DEF Against
  <2>5. ~capture[c].moves => line' = line
    BY <1>4, <1>5, <1>8 DEF Against
  <2>6. LineFollows'
    <3>1. /\ line' = "crossed" => events # <<>> /\ events[Len(events)].kind = "crossed"
          /\ line' = "ok" => events = <<>> \/ events[Len(events)].kind = "cleared" \/ afresh'
      BY <1>1, <1>4, <1>5, <2>3, <2>4, <2>5 DEF LineFollows
    <3> QED BY <1>1, <1>3, <1>7, <2>1, <3>1 DEF LineFollows
  <2>7. CrossingsAlternate'
    BY <1>1, <2>1 DEF CrossingsAlternate
  <2> QED BY <1>1, <2>2, <2>6, <2>7, SendersRest DEF AlertInv
<1>9. CASE StateOf(c) # Against(c)
  <2> DEFINE event == [of |-> c, kind |-> IF capture[c].past THEN "crossed" ELSE "cleared",
                       afresh |-> afresh \/ capture[c].moves]
             n == Len(events)
  <2>1. events' = Append(events, event)
    BY <1>9 DEF Judge
  <2>2. /\ event \in Event /\ event.of = c /\ event.afresh = (afresh \/ capture[c].moves)
        /\ event.kind = IF capture[c].past THEN "crossed" ELSE "cleared"
    BY <1>4 DEF Event
  <2> HIDE DEF event
  <2>3. n \in Nat /\ DOMAIN events = 1 .. n /\ events \in Seq(Event) /\ (events = <<>> <=> n = 0)
    BY <1>1, SendingTypes, LenProperties, EmptySeq
  <2>4. /\ events' \in Seq(Event) /\ Len(events') = n + 1 /\ DOMAIN events' = 1 .. n + 1
        /\ \A i \in 1 .. n : events'[i] = events[i]
        /\ events'[n + 1] = event /\ events' # <<>>
    BY <2>1, <2>2, <2>3
  <2> HIDE DEF n
  <2>5. \A i \in DOMAIN events' : i \in 1 .. n \/ i = n + 1
    BY <2>3, <2>4
  <2>6. AlertTypeOK'
    <3>1. \A i \in 1 .. n : events'[i].of = events[i].of /\ events[i].of # c
      BY <1>4, <2>3, <2>4
    <3>2. events'[n + 1].of = c
      BY <2>2, <2>4
    <3>3. \A i, j \in 1 .. n : events[i].of = events[j].of => i = j
      BY <1>1, <2>3 DEF AlertTypeOK
    <3>4. \A i, j \in DOMAIN events' : events'[i].of = events'[j].of => i = j
      BY <2>5, <3>1, <3>2, <3>3
    <3> QED BY <1>3, <1>5, <1>6, <2>4, <3>4
            DEF AlertTypeOK, SendingTypeOK, Judging, Event, SenderStates, SendingAt, TryingAt,
                Result
  <2>7. event.kind = IF line' = "crossed" THEN "crossed" ELSE "cleared"
    BY <1>4, <1>5, <2>2 DEF StateOf
  <2>8. LineFollows'
    <3>1. events'[Len(events')].kind = IF line' = "crossed" THEN "crossed" ELSE "cleared"
      BY <2>4, <2>7
    <3>2. \A d \in Capture : capture'[d].at # "done" =>
             \A i \in DOMAIN events' : events'[i].of # d
      BY <1>1, <1>3, <2>2, <2>3, <2>4, <2>5 DEF LineFollows
    <3> QED BY <1>7, <2>4, <3>1, <3>2 DEF LineFollows
  <2>9. IF event.kind = "cleared"
        THEN n > 0 /\ events[n].kind = "crossed"
        ELSE n = 0 \/ events[n].kind = "cleared" \/ event.afresh
    <3>1. CASE event.kind = "cleared"
      <4>1. ~capture[c].moves /\ line = "crossed"
        BY <1>4, <1>5, <1>9, <2>7, <3>1 DEF Against
      <4> QED BY <1>1, <2>3, <3>1, <4>1 DEF LineFollows, n
    <3>2. CASE event.kind # "cleared"
      <4>1. capture[c].moves \/ line = "ok"
        BY <1>4, <1>5, <1>9, <2>7, <3>2 DEF Against
      <4> QED BY <1>1, <1>4, <2>2, <2>3, <3>2, <4>1 DEF LineFollows, n
    <3> QED BY <3>1, <3>2
  <2>10. CrossingsAlternate'
    <3> SUFFICES ASSUME NEW i \in DOMAIN events'
                 PROVE  IF events'[i].kind = "cleared"
                        THEN i > 1 /\ events'[i - 1].kind = "crossed"
                        ELSE i = 1 \/ events'[i - 1].kind = "cleared" \/ events'[i].afresh
      BY DEF CrossingsAlternate
    <3>1. CASE i \in 1 .. n
      <4>1. i > 1 => i - 1 \in 1 .. n
        BY <2>3, <3>1
      <4> QED BY <1>1, <2>3, <2>4, <3>1, <4>1 DEF CrossingsAlternate
    <3>2. CASE i = n + 1
      <4>1. n > 0 => events'[n] = events[n]
        BY <2>3, <2>4
      <4>2. i - 1 = n
        BY <2>3, <3>2
      <4> QED BY <2>3, <2>4, <2>9, <3>2, <4>1, <4>2
    <3> QED BY <2>5, <3>1, <3>2
  <2> QED BY <1>1, <2>6, <2>8, <2>10, SendersRest DEF AlertInv
<1> QED BY <1>8, <1>9

\* One sender moves, and the others do not.
LEMMA OneSenderMoves ==
    ASSUME AlertTypeOK, NEW w \in Sender, NEW next \in SenderStates,
           sender' = [sender EXCEPT ![w] = next]
    PROVE  /\ sender' \in [Sender -> SenderStates] /\ sender'[w] = next
           /\ \A v \in Sender \ {w} : sender'[v] = sender[v]
<1>1. sender \in [Sender -> SenderStates]
  BY DEF AlertTypeOK, SenderStates, SendingAt, TryingAt, Result
<1> QED BY <1>1

\* A sender whose hand stays empty of all it had not, or which takes up deliveries that are
\* due and nobody holds, disturbs nothing; what it posted may be lost if it dies.
LEMMA HandMoves ==
    ASSUME AlertTypeOK, SendingInv, NEW w \in Sender, NEW next \in SenderStates,
           sender' = [sender EXCEPT ![w] = next], UNCHANGED <<sendSide, delivery, posts>>,
           HandIsRight(next),
           \A c \in Capture : ~Sends(next, c),
           \A c \in Capture : Tries(next, c) =>
               /\ delivery[c].status = "pending" /\ \A v \in Sender : ~Tries(sender[v], c),
           next.results = <<>>,
           \/ kills' = kills + 1
           \/ kills' = kills /\ sender[w].results = <<>>
    PROVE  SendingInv'
<1>1. /\ sender'[w] = next /\ \A v \in Sender \ {w} : sender'[v] = sender[v]
      /\ sent' = sent /\ told' = told /\ untold' = untold /\ delivery' = delivery
      /\ posts' = posts
  BY OneSenderMoves DEF sendSide
<1>2. \A v \in Sender : HandIsRight(sender'[v])
  BY <1>1 DEF SendingInv
<1>3. SentAlone'
  BY <1>1 DEF SendingInv, SentAlone
<1>4. TriedAlone'
  <2>1. \A v \in Sender, c \in Capture : Tries(sender'[v], c) => delivery[c].status = "pending"
    BY <1>1 DEF SendingInv, TriedAlone
  <2>2. \A u, v \in Sender, c \in Capture :
            Tries(sender'[u], c) /\ Tries(sender'[v], c) => u = v
    BY <1>1 DEF SendingInv, TriedAlone
  <2>3. \A v \in Sender : sender'[v].at \in TryingAt =>
          \A i \in DOMAIN sender'[v].results :
              sender'[v].results[i].before = delivery[sender'[v].results[i].of].attempts
    BY <1>1 DEF SendingInv, TriedAlone
  <2> QED BY <1>1, <2>1, <2>2, <2>3 DEF SendingInv, TriedAlone
<1>5. PostsAreCounted'
  <2> SUFFICES ASSUME NEW c \in Capture
               PROVE  /\ posts[c] <= delivery[c].attempts + kills' + 1
                      /\ (\A v \in Sender : ~Posted(sender'[v], c)) =>
                            posts[c] <= delivery[c].attempts + kills'
    BY <1>1 DEF PostsAreCounted
  <2>1. /\ posts[c] <= delivery[c].attempts + kills + 1
        /\ (\A v \in Sender : ~Posted(sender[v], c)) => posts[c] <= delivery[c].attempts + kills
        /\ posts[c] \in Nat /\ delivery[c].attempts \in Nat /\ kills \in Nat
    BY DEF SendingInv, PostsAreCounted, AlertTypeOK
  <2>2. CASE kills' = kills + 1
    BY <2>1, <2>2
  <2>3. CASE kills' = kills /\ sender[w].results = <<>>
    <3>1. ~Posted(sender[w], c)
      BY <2>3 DEF Posted
    <3>2. (\A v \in Sender : ~Posted(sender'[v], c)) => \A v \in Sender : ~Posted(sender[v], c)
      BY <1>1, <3>1
    <3> QED BY <2>1, <2>3, <3>2
  <2> QED BY <2>2, <2>3
<1> QED BY <1>2, <1>3, <1>4, <1>5 DEF SendingInv

\* A worker that rests, or has to take up the next event, has nothing in hand that counts.
LEMMA NextOrIdleRests ==
    ASSUME AlertTypeOK, NEW w \in Sender, sender[w].list # <<>>
    PROVE  /\ NextOrIdle(w) \in SenderStates /\ HandIsRight(NextOrIdle(w))
           /\ NextOrIdle(w).results = <<>>
           /\ \A c \in Capture : ~Sends(NextOrIdle(w), c) /\ ~Tries(NextOrIdle(w), c)
           /\ SenderRests \in SenderStates /\ HandIsRight(SenderRests)
           /\ SenderRests.results = <<>>
           /\ \A c \in Capture : ~Sends(SenderRests, c) /\ ~Tries(SenderRests, c)
<1>1. PICK list \in Seq(Capture) : list = sender[w].list /\ list # <<>>
  BY DEF AlertTypeOK
<1>2. Tail(list) \in Seq(Capture) /\ (Tail(list) = <<>> => Len(list) = 1)
  <2>1. Len(list) \in Nat \ {0} /\ Tail(list) \in Seq(Capture) /\ Len(Tail(list)) = Len(list) - 1
    BY <1>1, HeadTailProperties, EmptySeq
  <2>2. Tail(list) = <<>> => Len(Tail(list)) = 0
    BY EmptySeq
  <2> QED BY <2>1, <2>2
<1>3. <<>> \in Seq(Capture) /\ <<>> \in Seq(Result)
  BY EmptySeq
<1>4. /\ SenderRests \in SenderStates /\ SenderRests.at = "idle" /\ SenderRests.results = <<>>
  BY <1>3 DEF SenderRests, SenderStates
<1>5. /\ HandIsRight(SenderRests) /\ \A c \in Capture : ~Sends(SenderRests, c) /\ ~Tries(SenderRests, c)
  BY <1>4 DEF HandIsRight, Sends, Tries, SendingAt, TryingAt
<1>6. CASE Len(list) = 1
  BY <1>1, <1>4, <1>5, <1>6 DEF NextOrIdle
<1>7. CASE Len(list) # 1
  <2> DEFINE next == [at |-> "claiming", list |-> Tail(list), results |-> <<>>]
  <2>1. /\ next \in SenderStates /\ next.at = "claiming" /\ next.results = <<>>
        /\ next.list # <<>>
    BY <1>2, <1>3, <1>7 DEF SenderStates
  <2>2. NextOrIdle(w) = next
    BY <1>1, <1>7 DEF NextOrIdle
  <2> HIDE DEF next
  <2>3. HandIsRight(next) /\ \A c \in Capture : ~Sends(next, c) /\ ~Tries(next, c)
    BY <2>1 DEF HandIsRight, Sends, Tries, SendingAt, TryingAt
  <2> QED BY <1>4, <1>5, <2>1, <2>2, <2>3
<1> QED BY <1>6, <1>7

\* The unsent events, or the deliveries that are due, are listed (send_due, retry_due).
LEMMA SendScanKeeps ==
    ASSUME AlertInv, NEW w \in Sender, SendScan(w) \/ RetryScan(w) PROVE AlertInv'
<1>1. /\ AlertTypeOK /\ SendingTypeOK /\ SendingInv /\ sender[w].at = "idle"
      /\ UNCHANGED <<alertSide, sendSide, delivery, posts, target, kills>>
  BY SendingTypes DEF AlertInv, SendScan, RetryScan, SenderAt
<1>2. sender[w].results = <<>>
  BY <1>1 DEF SendingInv, HandIsRight
<1>3. PICK next \in SenderStates :
        /\ sender' = [sender EXCEPT ![w] = next]
        /\ HandIsRight(next) /\ next.results = <<>> /\ \A c \in Capture : ~Sends(next, c)
        /\ \A c \in Capture : Tries(next, c) =>
             /\ delivery[c].status = "pending" /\ \A v \in Sender : ~Tries(sender[v], c)
  <2>0. <<>> \in Seq(Result)
    BY EmptySeq
  <2>1. CASE SendScan(w)
    <3>1. PICK list \in FromOldest(UnsentEvents) :
            sender' = [sender EXCEPT ![w] = [at |-> "claiming", list |-> list, results |-> <<>>]]
      BY <2>1 DEF SendScan
    <3> DEFINE next == [at |-> "claiming", list |-> list, results |-> <<>>]
    <3>2. list \in Seq(Capture) /\ list # <<>>
      BY <1>1, <2>1, QueryListsOnce DEF UnsentEvents, SendScan
    <3>3. next \in SenderStates /\ next.at = "claiming" /\ next.list # <<>> /\ next.results = <<>>
      BY <2>0, <3>2 DEF SenderStates
    <3> HIDE DEF next
    <3>4. HandIsRight(next) /\ \A c \in Capture : ~Sends(next, c) /\ ~Tries(next, c)
      BY <3>3 DEF HandIsRight, Sends, Tries, SendingAt, TryingAt
    <3>5. sender' = [sender EXCEPT ![w] = next]
      BY <3>1 DEF next
    <3> QED BY <3>3, <3>4, <3>5
  <2>2. CASE RetryScan(w)
    <3>1. PICK list \in FromOldest(DueDeliveries) :
            sender' = [sender EXCEPT ![w] = [at |-> "trying", list |-> list, results |-> <<>>]]
      BY <2>2 DEF RetryScan
    <3> DEFINE next == [at |-> "trying", list |-> list, results |-> <<>>]
    <3>2. /\ list \in Seq(Capture) /\ list # <<>>
          /\ \A i \in DOMAIN list : list[i] \in DueDeliveries
          /\ \A i, j \in DOMAIN list : list[i] = list[j] => i = j
      BY <1>1, <2>2, QueryListsOnce DEF DueDeliveries, RetryScan
    <3>3. /\ next \in SenderStates /\ next.at = "trying" /\ next.list = list
          /\ next.results = <<>>
      BY <2>0, <3>2 DEF SenderStates, TryingAt
    <3> HIDE DEF next
    <3>4. Tried(next) = {} /\ Queued(next) \subseteq DueDeliveries
      BY <3>2, <3>3 DEF Tried, Queued
    <3>5. HandIsRight(next) /\ \A c \in Capture : ~Sends(next, c)
      BY <3>2, <3>3, <3>4 DEF HandIsRight, Sends, SendingAt, TryingAt
    <3>6. \A c \in Capture : Tries(next, c) =>
            /\ delivery[c].status = "pending" /\ \A v \in Sender : ~Tries(sender[v], c)
      BY <3>4 DEF Tries, DueDeliveries, Held, Queued, Tried, TryingAt
    <3>7. sender' = [sender EXCEPT ![w] = next]
      BY <3>1 DEF next
    <3> QED BY <3>3, <3>5, <3>6, <3>7
  <2> QED BY <1>1, <2>1, <2>2 DEF AlertInv
<1>4. SendingInv'
  BY <1>1, <1>2, <1>3, HandMoves
<1>5. AlertTypeOK'
  <2>1. sender' \in [Sender -> SenderStates]
    BY <1>1, <1>3, OneSenderMoves
  <2>2. SendingTypeOK'
    BY <1>1, <2>1 DEF SendingTypeOK, sendSide
  <2> QED BY <1>1, <2>2, SendingTypesKept DEF AlertTypeOK
<1> QED BY <1>1, <1>4, <1>5, CapturesRest DEF AlertInv

\* A worker dies, or finds that another has claimed the event.
LEMMA LetsGoKeeps ==
    ASSUME AlertInv, NEW w \in Sender,
           SenderDies(w) \/ (ClaimEvent(w) /\ ~NotYetSent(Head(sender[w].list)))
    PROVE  AlertInv'
<1>1. /\ AlertTypeOK /\ SendingTypeOK /\ SendingInv
      /\ UNCHANGED <<alertSide, sendSide, delivery, posts, target>>
      /\ \/ /\ sender' = [sender EXCEPT ![w] = SenderRests] /\ kills' = kills + 1
            /\ kills < MaxKills
         \/ /\ sender[w].at = "claiming" /\ kills' = kills
            /\ sender' = [sender EXCEPT ![w] = NextOrIdle(w)]
  BY SendingTypes DEF AlertInv, SenderDies, ClaimEvent, SenderAt, sendSide
<1>2. kills' \in 0 .. MaxKills
  <2>1. kills \in Nat /\ MaxKills \in Nat /\ kills \in 0 .. MaxKills
    BY <1>1, AlertAssumption DEF SendingTypeOK
  <2> QED BY <1>1, <2>1, LandingsBounded
<1>3. PICK next \in SenderStates :
        /\ sender' = [sender EXCEPT ![w] = next]
        /\ HandIsRight(next) /\ next.results = <<>>
        /\ \A c \in Capture : ~Sends(next, c) /\ ~Tries(next, c)
        /\ kills' = kills + 1 \/ (kills' = kills /\ sender[w].results = <<>>)
  <2>1. CASE sender' = [sender EXCEPT ![w] = SenderRests] /\ kills' = kills + 1
    <3>1. <<>> \in Seq(Capture) /\ <<>> \in Seq(Result)
      BY EmptySeq
    <3>2. SenderRests \in SenderStates /\ SenderRests.at = "idle" /\ SenderRests.results = <<>>
      BY <3>1 DEF SenderRests, SenderStates
    <3>3. /\ HandIsRight(SenderRests)
          /\ \A c \in Capture : ~Sends(SenderRests, c) /\ ~Tries(SenderRests, c)
      BY <3>2 DEF HandIsRight, Sends, Tries, SendingAt, TryingAt
    <3> QED BY <2>1, <3>2, <3>3
  <2>2. CASE /\ sender[w].at = "claiming" /\ kills' = kills
             /\ sender' = [sender EXCEPT ![w] = NextOrIdle(w)]
    <3>1. sender[w].list # <<>> /\ sender[w].results = <<>>
      BY <1>1, <2>2 DEF SendingInv, HandIsRight
    <3> QED BY <1>1, <2>2, <3>1, NextOrIdleRests
  <2> QED BY <1>1, <2>1, <2>2
<1>4. SendingInv'
  BY <1>1, <1>3, HandMoves
<1>5. AlertTypeOK'
  <2>1. sender' \in [Sender -> SenderStates]
    BY <1>1, <1>3, OneSenderMoves
  <2>2. SendingTypeOK'
    BY <1>1, <1>2, <2>1 DEF SendingTypeOK, sendSide
  <2> QED BY <1>1, <2>2, SendingTypesKept DEF AlertTypeOK
<1> QED BY <1>1, <1>4, <1>5, CapturesRest DEF AlertInv

\* An event is claimed (send_due): nobody sent it before.
LEMMA EventClaimKeeps ==
    ASSUME AlertInv, NEW w \in Sender, ClaimEvent(w), NotYetSent(Head(sender[w].list))
    PROVE  AlertInv'
<1> DEFINE next == [sender[w] EXCEPT !.at = "posting"]
<1>1. PICK c \in Capture : c = Head(sender[w].list)
  <2>1. sender[w].list # <<>> /\ sender[w].list \in Seq(Capture)
    BY DEF AlertInv, AlertTypeOK, SendingInv, HandIsRight, ClaimEvent, SenderAt
  <2> QED BY <2>1, HeadTailProperties
<1>2. /\ AlertTypeOK /\ SendingTypeOK /\ SendingInv /\ sender[w].at = "claiming"
      /\ UNCHANGED <<alertSide, told, untold, delivery, posts, target, kills>>
      /\ sent' = [sent EXCEPT ![c] = TRUE] /\ sender' = [sender EXCEPT ![w] = next] /\ ~sent[c]
  BY <1>1, SendingTypes DEF AlertInv, ClaimEvent, SenderAt, SenderGoes, NotYetSent
<1>3. sender[w] \in SenderStates /\ sender[w].list # <<>> /\ sender[w].results = <<>>
  BY <1>2 DEF SendingTypeOK, SendingInv, HandIsRight
<1>4. /\ next \in SenderStates /\ next.at = "posting" /\ next.list = sender[w].list
      /\ next.results = <<>>
  BY <1>3 DEF SenderStates, SendingAt
<1> HIDE DEF next
<1>5. /\ HandIsRight(next) /\ \A d \in Capture : ~Tries(next, d) /\ ~Posted(next, d)
      /\ \A d \in Capture : Sends(next, d) <=> d = c
      /\ \A d \in Capture : ~Posted(sender[w], d)
  BY <1>1, <1>3, <1>4 DEF HandIsRight, Tries, Posted, Sends, SendingAt, TryingAt
<1>6. /\ sender' \in [Sender -> SenderStates] /\ sender'[w] = next
      /\ \A v \in Sender \ {w} : sender'[v] = sender[v]
  BY <1>2, <1>4, OneSenderMoves
<1>7. SendingTypeOK' /\ AlertTypeOK'
  <2>1. SendingTypeOK'
    BY <1>2, <1>6 DEF SendingTypeOK
  <2> QED BY <1>2, <2>1, SendingTypesKept DEF AlertTypeOK
<1>8. \A d \in Capture : sent'[d] <=> sent[d] \/ d = c
  BY <1>2 DEF SendingTypeOK
<1>9. SentAlone'
  <2>1. told[c] = 0 /\ c \notin untold /\ \A v \in Sender : ~Sends(sender[v], c)
    BY <1>2 DEF SendingInv, SentAlone
  <2> QED BY <1>2, <1>5, <1>6, <1>8, <2>1 DEF SendingInv, SentAlone
<1>10. TriedAlone'
  <2>1. next.at \notin TryingAt
    BY <1>4 DEF TryingAt
  <2> QED BY <1>2, <1>5, <1>6, <2>1 DEF SendingInv, TriedAlone
<1>11. PostsAreCounted'
  BY <1>2, <1>5, <1>6 DEF SendingInv, PostsAreCounted
<1>12. \A v \in Sender : HandIsRight(sender'[v])
  BY <1>2, <1>5, <1>6 DEF SendingInv
<1> QED BY <1>2, <1>7, <1>9, <1>10, <1>11, <1>12, CapturesRest DEF AlertInv, SendingInv

\* Who has posted something is sending it, or trying it again.
LEMMA WhoPosted ==
    ASSUME SendingInv, AlertTypeOK, NEW v \in Sender, NEW c \in Capture, Posted(sender[v], c)
    PROVE  /\ c \in Tried(sender[v])
           /\ \/ sender[v].at = "recording" /\ Sends(sender[v], c)
              \/ Tries(sender[v], c)
<1>1. PICK i \in DOMAIN sender[v].results : sender[v].results[i].of = c
  BY DEF Posted
<1>2. c \in Tried(sender[v]) /\ sender[v].results # <<>>
  BY <1>1 DEF Tried
<1>3. sender[v].at \in {"recording", "trying", "closing"}
  BY <1>2 DEF SendingInv, HandIsRight, AlertTypeOK
<1>4. CASE sender[v].at = "recording"
  <2>1. PICK outcome \in Outcome :
          sender[v].results = <<[of |-> Head(sender[v].list), outcome |-> outcome, before |-> 0]>>
    BY <1>4 DEF SendingInv, HandIsRight
  <2>2. Head(sender[v].list) = c
    BY <1>1, <2>1
  <2> QED BY <1>2, <1>4, <2>2 DEF Sends, SendingAt
<1> QED BY <1>2, <1>3, <1>4 DEF Tries, TryingAt

\* The webhook is posted for the first time (send_due): nobody has posted this event.
LEMMA PostKeeps ==
    ASSUME AlertInv, NEW w \in Sender, NEW outcome \in Outcome, Post(w, outcome) PROVE AlertInv'
<1>1. PICK c \in Capture, list \in Seq(Capture) :
        list = sender[w].list /\ list # <<>> /\ c = Head(list)
  <2>1. sender[w].list # <<>> /\ sender[w].list \in Seq(Capture)
    BY DEF AlertInv, AlertTypeOK, SendingInv, HandIsRight, Post, SenderAt
  <2> QED BY <2>1, HeadTailProperties
<1> DEFINE result == [of |-> c, outcome |-> outcome, before |-> 0]
           next == [sender[w] EXCEPT !.at = "recording", !.results = <<result>>]
<1>2. /\ AlertTypeOK /\ SendingTypeOK /\ SendingInv /\ sender[w].at = "posting"
      /\ UNCHANGED <<alertSide, sendSide, delivery, target, kills>>
      /\ posts' = [posts EXCEPT ![c] = @ + 1] /\ sender' = [sender EXCEPT ![w] = next]
  BY <1>1, SendingTypes DEF AlertInv, Post, SenderAt
<1>3. result \in Result /\ result.of = c /\ result.outcome = outcome /\ <<result>> \in Seq(Result)
  <2>1. 0 \in 0 .. MaxAttempts
    BY AlertAssumption
  <2> QED BY <2>1 DEF Result
<1>4. /\ next \in SenderStates /\ next.at = "recording" /\ next.list = list
      /\ next.results = <<result>>
  <2>1. sender[w] \in SenderStates
    BY <1>2 DEF SendingTypeOK
  <2> HIDE DEF result
  <2> QED BY <1>1, <1>3, <2>1 DEF SenderStates, SendingAt
<1> HIDE DEF next
<1>5. /\ HandIsRight(next) /\ \A d \in Capture : ~Tries(next, d)
      /\ \A d \in Capture : Sends(next, d) <=> d = c
      /\ \A d \in Capture : Sends(sender[w], d) <=> d = c
      /\ \A d \in Capture : Posted(next, d) => d = c
      /\ Posted(next, c) /\ next.at \notin TryingAt
  <2>1. HandIsRight(next)
    BY <1>1, <1>4 DEF HandIsRight, TryingAt, result
  <2>2. \A d \in Capture : ~Tries(next, d) /\ (Sends(next, d) <=> d = c)
                             /\ (Sends(sender[w], d) <=> d = c)
    BY <1>1, <1>2, <1>4 DEF Tries, Sends, SendingAt, TryingAt
  <2>3. outcome # "off"
    BY DEF Outcome
  <2>4. Posted(next, c) /\ \A d \in Capture : Posted(next, d) => d = c
    BY <1>3, <1>4, <2>3 DEF Posted
  <2> QED BY <1>4, <2>1, <2>2, <2>4 DEF TryingAt
<1>6. /\ sender' \in [Sender -> SenderStates] /\ sender'[w] = next
      /\ \A v \in Sender \ {w} : sender'[v] = sender[v]
  BY <1>2, <1>4, OneSenderMoves
<1>7. /\ posts' \in [Capture -> Nat] /\ posts'[c] = posts[c] + 1
      /\ \A d \in Capture \ {c} : posts'[d] = posts[d]
  BY <1>2 DEF SendingTypeOK
<1>8. AlertTypeOK'
  <2>1. SendingTypeOK'
    BY <1>2, <1>6, <1>7 DEF SendingTypeOK, sendSide
  <2> QED BY <1>2, <2>1, SendingTypesKept DEF AlertTypeOK
<1>9. SentAlone'
  <2>1. sent[c]
    BY <1>2, <1>5 DEF SendingInv, SentAlone
  <2> QED BY <1>2, <1>5, <1>6, <1>7, <2>1 DEF SendingInv, SentAlone, sendSide
<1>10. TriedAlone'
  BY <1>2, <1>5, <1>6 DEF SendingInv, TriedAlone
<1>11. \A v \in Sender : ~Posted(sender[v], c)
  <2> SUFFICES ASSUME NEW v \in Sender, Posted(sender[v], c) PROVE FALSE
    OBVIOUS
  <2>1. told[c] = 0 /\ delivery[c].status # "pending"
    BY <1>2, <1>5 DEF SendingInv, SentAlone, NoDelivery
  <2>2. sender[v].at = "recording" /\ Sends(sender[v], c)
    BY <1>2, <2>1, WhoPosted DEF SendingInv, TriedAlone
  <2> QED BY <1>2, <1>5, <2>2 DEF SendingInv, SentAlone
<1>12. PostsAreCounted'
  <2> SUFFICES ASSUME NEW d \in Capture
               PROVE  /\ posts'[d] <= delivery[d].attempts + kills + 1
                      /\ (\A v \in Sender : ~Posted(sender'[v], d)) =>
                            posts'[d] <= delivery[d].attempts + kills
    BY <1>2 DEF PostsAreCounted
  <2>1. /\ posts[d] <= delivery[d].attempts + kills + 1
        /\ (\A v \in Sender : ~Posted(sender[v], d)) => posts[d] <= delivery[d].attempts + kills
        /\ posts[d] \in Nat /\ delivery[d].attempts \in Nat /\ kills \in Nat
    BY <1>2 DEF SendingInv, PostsAreCounted, SendingTypeOK
  <2>2. CASE d = c
    BY <1>5, <1>6, <1>7, <1>11, <2>1, <2>2
  <2>3. CASE d # c
    <3>1. ~Posted(sender[w], d)
      <4>1. sender[w].results = <<>>
        BY <1>2 DEF SendingInv, HandIsRight
      <4> QED BY <4>1 DEF Posted
    <3>2. (\A v \in Sender : ~Posted(sender'[v], d)) => \A v \in Sender : ~Posted(sender[v], d)
      BY <1>6, <3>1
    <3> QED BY <1>7, <2>1, <2>3, <3>2
  <2> QED BY <2>2, <2>3
<1>13. \A v \in Sender : HandIsRight(sender'[v])
  BY <1>2, <1>5, <1>6 DEF SendingInv
<1> QED BY <1>2, <1>8, <1>9, <1>10, <1>12, <1>13, CapturesRest DEF AlertInv, SendingInv

\* People are told, and the first try is recorded if there was one; or that fails (send_due).
LEMMA PeopleToldKeeps ==
    ASSUME AlertInv, NEW w \in Sender, TellOnly(w) \/ RecordFirst(w) \/ TellFails(w)
    PROVE  AlertInv'
<1>1. PICK c \in Capture : c = Head(sender[w].list) /\ sender[w].list # <<>>
  <2>1. sender[w].list # <<>> /\ sender[w].list \in Seq(Capture)
    BY DEF AlertInv, AlertTypeOK, SendingInv, HandIsRight, TellOnly, RecordFirst, TellFails, SenderAt
  <2> QED BY <2>1, HeadTailProperties
<1>2. /\ AlertTypeOK /\ SendingTypeOK /\ SendingInv /\ sender[w].at \in SendingAt
      /\ UNCHANGED <<alertSide, sent, posts, target, kills>>
      /\ sender' = [sender EXCEPT ![w] = NextOrIdle(w)]
      /\ \/ told' = [told EXCEPT ![c] = @ + 1] /\ untold' = untold
         \/ told' = told /\ untold' = untold \cup {c}
  BY <1>1, SendingTypes
     DEF AlertInv, TellOnly, RecordFirst, TellFails, SenderAt, Tell, SendingAt
<1> DEFINE next == NextOrIdle(w)
<1>3. /\ next \in SenderStates /\ HandIsRight(next) /\ next.results = <<>>
      /\ \A d \in Capture : ~Sends(next, d) /\ ~Tries(next, d) /\ ~Posted(next, d)
  BY <1>1, <1>2, NextOrIdleRests DEF Posted
<1> HIDE DEF next
<1>4. /\ sender' \in [Sender -> SenderStates] /\ sender'[w] = next
      /\ \A v \in Sender \ {w} : sender'[v] = sender[v]
  BY <1>2, <1>3, OneSenderMoves DEF next
<1>5. /\ sent[c] /\ told[c] = 0 /\ c \notin untold /\ delivery[c] = NoDelivery /\ Sends(sender[w], c)
      /\ \A v \in Sender : Sends(sender[v], c) => v = w
      /\ \A v \in Sender : ~Tries(sender[v], c)
  <2>1. Sends(sender[w], c)
    BY <1>1, <1>2 DEF Sends
  <2>2. sent[c] /\ told[c] = 0 /\ c \notin untold /\ delivery[c] = NoDelivery
    BY <1>2, <2>1 DEF SendingInv, SentAlone
  <2>3. delivery[c].status # "pending"
    BY <2>2 DEF NoDelivery
  <2> QED BY <1>2, <2>1, <2>2, <2>3 DEF SendingInv, SentAlone, TriedAlone
<1>6. /\ told' \in [Capture -> 0 .. Cardinality(Sender)] /\ untold' \subseteq Capture
      /\ told'[c] = 1 \/ (told'[c] = 0 /\ c \in untold')
      /\ \A d \in Capture \ {c} : told'[d] = told[d] /\ (d \in untold' <=> d \in untold)
  <2>1. Cardinality(Sender) \in Nat /\ Cardinality(Sender) # 0
    BY AlertAssumption, FS_CardinalityType, FS_EmptySet
  <2>2. 1 \in 0 .. Cardinality(Sender)
    BY <2>1
  <2> QED BY <1>2, <1>5, <2>2 DEF SendingTypeOK
<1>7. /\ delivery' \in [Capture -> [status : {"none", "pending", "succeeded", "failed"},
                                    attempts : 0 .. MaxAttempts, due : BOOLEAN]]
      /\ \A d \in Capture \ {c} : delivery'[d] = delivery[d]
      /\ delivery'[c].status = "pending" => delivery'[c].attempts < MaxAttempts
      /\ \/ delivery' = delivery /\ sender[w].at = "posting"
         \/ delivery'[c].attempts = 1
  <2>1. CASE delivery' = delivery /\ sender[w].at = "posting"
    <3>1. delivery' = delivery /\ sender[w].at = "posting"
      BY <2>1
    <3> QED BY <1>2, <3>1 DEF SendingTypeOK, SendingInv, TriedAlone
  <2>2. CASE sender[w].at = "recording" /\ delivery' = WithFirst(w)
    <3>1. PICK outcome \in Outcome :
            sender[w].results = <<[of |-> c, outcome |-> outcome, before |-> 0]>>
      BY <1>1, <1>2, <2>2 DEF SendingInv, HandIsRight
    <3>2. PICK r \in Result : /\ r = sender[w].results[1]
                              /\ r.of = c /\ r.outcome \in Outcome /\ r.before = 0
      <4>1. 0 \in 0 .. MaxAttempts
        BY AlertAssumption
      <4> QED BY <3>1, <4>1 DEF Result
    <3>3. delivery' = [delivery EXCEPT ![c] = Attempted(r)]
      BY <2>2, <3>2 DEF WithFirst
    <3>4. /\ Attempted(r).status \in {"pending", "succeeded", "failed"}
          /\ Attempted(r).attempts = 1 /\ Attempted(r).due = FALSE
          /\ Attempted(r).status = "pending" => 1 < MaxAttempts
      BY <3>2 DEF Attempted, Outcome
    <3>5. Attempted(r) \in [status : {"none", "pending", "succeeded", "failed"},
                            attempts : 0 .. MaxAttempts, due : BOOLEAN]
      <4>1. 1 \in 0 .. MaxAttempts
        BY AlertAssumption
      <4> QED BY <3>4, <4>1 DEF Attempted
    <3> QED BY <1>2, <3>3, <3>4, <3>5 DEF SendingTypeOK
  <2> QED BY <2>1, <2>2 DEF TellOnly, RecordFirst, TellFails, SenderAt
<1>8. AlertTypeOK'
  <2>1. SendingTypeOK'
    BY <1>2, <1>4, <1>6, <1>7 DEF SendingTypeOK
  <2> QED BY <1>2, <2>1, SendingTypesKept DEF AlertTypeOK
<1>9. SentAlone'
  <2>1. \A d \in Capture : /\ ~sent'[d] => told'[d] = 0 /\ posts'[d] = 0 /\ d \notin untold'
                           /\ told'[d] = 0 /\ d \notin untold' => delivery'[d] = NoDelivery
                           /\ told'[d] <= 1
    BY <1>2, <1>5, <1>6, <1>7 DEF SendingInv, SentAlone
  <2>2. \A v \in Sender, d \in Capture : Sends(sender'[v], d) =>
          sent'[d] /\ told'[d] = 0 /\ d \notin untold'
    BY <1>2, <1>3, <1>4, <1>5, <1>6 DEF SendingInv, SentAlone
  <2>3. \A u, v \in Sender, d \in Capture : Sends(sender'[u], d) /\ Sends(sender'[v], d) => u = v
    BY <1>2, <1>3, <1>4 DEF SendingInv, SentAlone
  <2> QED BY <2>1, <2>2, <2>3 DEF SentAlone
<1>10. TriedAlone'
  <2>1. \A d \in Capture : delivery'[d].status = "pending" => delivery'[d].attempts < MaxAttempts
    BY <1>2, <1>7 DEF SendingInv, TriedAlone
  <2>2. \A v \in Sender, d \in Capture : Tries(sender'[v], d) =>
          Tries(sender[v], d) /\ v # w /\ d # c
    BY <1>3, <1>4, <1>5
  <2>3. \A v \in Sender : sender'[v].at \in TryingAt =>
          \A i \in DOMAIN sender'[v].results :
              sender'[v].results[i].before = delivery'[sender'[v].results[i].of].attempts
    <3> SUFFICES ASSUME NEW v \in Sender, sender'[v].at \in TryingAt,
                        NEW i \in DOMAIN sender'[v].results
                 PROVE  sender'[v].results[i].before
                          = delivery'[sender'[v].results[i].of].attempts
      OBVIOUS
    <3>1. v # w
      BY <1>3, <1>4
    <3>2. sender'[v] = sender[v]
      BY <1>4, <3>1
    <3>3. PICK of \in Capture : of = sender[v].results[i].of
      <4>1. sender[v].results \in Seq(Result)
        BY <1>2 DEF SendingTypeOK, SenderStates
      <4>2. sender[v].results[i] \in Result
        BY <3>2, <4>1, ElementOfSeq, LenProperties
      <4> QED BY <4>2 DEF Result
    <3>4. Tries(sender[v], of)
      BY <3>2, <3>3 DEF Tries, Tried
    <3>5. delivery'[of] = delivery[of]
      BY <1>5, <1>7, <3>4
    <3> QED BY <1>2, <3>2, <3>3, <3>5 DEF SendingInv, TriedAlone
  <2> QED BY <1>2, <1>7, <2>1, <2>2, <2>3 DEF SendingInv, TriedAlone
<1>11. PostsAreCounted'
  <2> SUFFICES ASSUME NEW d \in Capture
               PROVE  /\ posts[d] <= delivery'[d].attempts + kills + 1
                      /\ (\A v \in Sender : ~Posted(sender'[v], d)) =>
                            posts[d] <= delivery'[d].attempts + kills
    BY <1>2 DEF PostsAreCounted
  <2>1. /\ posts[d] <= delivery[d].attempts + kills + 1
        /\ (\A v \in Sender : ~Posted(sender[v], d)) => posts[d] <= delivery[d].attempts + kills
        /\ posts[d] \in Nat /\ delivery[d].attempts \in Nat /\ kills \in Nat
    BY <1>2 DEF SendingInv, PostsAreCounted, SendingTypeOK
  <2>2. CASE d = c /\ sender[w].at = "posting" /\ delivery' = delivery
    <3> SUFFICES ASSUME NEW v \in Sender PROVE ~Posted(sender[v], c)
      BY <2>1, <2>2
    <3>1. ~Posted(sender[w], c)
      <4>1. sender[w].results = <<>>
        BY <1>2, <2>2 DEF SendingInv, HandIsRight
      <4> QED BY <4>1 DEF Posted
    <3> QED BY <1>2, <1>5, <3>1, WhoPosted
  <2>3. CASE d = c /\ delivery'[c].attempts = 1
    <3>1. delivery[c].attempts = 0
      BY <1>5 DEF NoDelivery
    <3> QED BY <2>1, <2>3, <3>1
  <2>4. CASE d # c
    <3>1. ~Posted(sender[w], d)
      <4>1. ~Tries(sender[w], d)
        BY <1>2 DEF Tries, SendingAt, TryingAt
      <4>2. ~Sends(sender[w], d)
        BY <1>1, <2>4 DEF Sends
      <4> QED BY <1>2, <4>1, <4>2, WhoPosted
    <3>2. (\A v \in Sender : ~Posted(sender'[v], d)) => \A v \in Sender : ~Posted(sender[v], d)
      BY <1>4, <3>1
    <3>3. delivery'[d] = delivery[d]
      BY <1>7, <2>4
    <3> QED BY <2>1, <3>2, <3>3
  <2> QED BY <1>7, <2>2, <2>3, <2>4
<1>12. \A v \in Sender : HandIsRight(sender'[v])
  BY <1>2, <1>3, <1>4 DEF SendingInv
<1> QED BY <1>2, <1>8, <1>9, <1>10, <1>11, <1>12, CapturesRest DEF AlertInv, SendingInv

\* A delivery becomes due: what it says of the attempts stays.
LEMMA DueKeeps == ASSUME AlertInv, NEW c \in Capture, BecomesDue(c) PROVE AlertInv'
<1> DEFINE next == [delivery[c] EXCEPT !.due = TRUE]
<1>1. /\ AlertTypeOK /\ SendingTypeOK /\ SendingInv /\ delivery[c].status = "pending"
      /\ UNCHANGED <<alertSide, sendSide, posts, sender, target, kills>>
      /\ delivery' = [delivery EXCEPT ![c] = next]
  BY SendingTypes DEF AlertInv, BecomesDue
<1>2. /\ next \in [status : {"none", "pending", "succeeded", "failed"},
                   attempts : 0 .. MaxAttempts, due : BOOLEAN]
      /\ next.status = delivery[c].status /\ next.attempts = delivery[c].attempts
  BY <1>1 DEF SendingTypeOK
<1> HIDE DEF next
<1>3. /\ delivery' \in [Capture -> [status : {"none", "pending", "succeeded", "failed"},
                                    attempts : 0 .. MaxAttempts, due : BOOLEAN]]
      /\ \A d \in Capture : /\ delivery'[d].status = delivery[d].status
                            /\ delivery'[d].attempts = delivery[d].attempts
      /\ \A d \in Capture \ {c} : delivery'[d] = delivery[d]
  BY <1>1, <1>2 DEF SendingTypeOK
<1>4. AlertTypeOK'
  <2>1. SendingTypeOK'
    BY <1>1, <1>3 DEF SendingTypeOK, sendSide
  <2> QED BY <1>1, <2>1, SendingTypesKept DEF AlertTypeOK
<1>5. /\ sent' = sent /\ told' = told /\ untold' = untold /\ posts' = posts
      /\ sender' = sender /\ kills' = kills
  BY <1>1 DEF sendSide
<1>6. SentAlone'
  <2>1. told[c] # 0 \/ c \in untold
    BY <1>1 DEF SendingInv, SentAlone, NoDelivery
  <2> QED BY <1>1, <1>3, <1>5, <2>1 DEF SendingInv, SentAlone
<1>7. TriedAlone'
  <2>1. \A v \in Sender : \A i \in DOMAIN sender[v].results : sender[v].results[i].of \in Capture
    <3> SUFFICES ASSUME NEW v \in Sender, NEW i \in DOMAIN sender[v].results
                 PROVE  sender[v].results[i].of \in Capture
      OBVIOUS
    <3>1. sender[v].results \in Seq(Result)
      BY <1>1 DEF SendingTypeOK, SenderStates
    <3>2. sender[v].results[i] \in Result
      BY <3>1, ElementOfSeq, LenProperties
    <3> QED BY <3>2 DEF Result
  <2> QED BY <1>1, <1>3, <1>5, <2>1 DEF SendingInv, TriedAlone
<1>8. PostsAreCounted'
  BY <1>1, <1>3, <1>5 DEF SendingInv, PostsAreCounted
<1> QED BY <1>1, <1>4, <1>5, <1>6, <1>7, <1>8, CapturesRest DEF AlertInv, SendingInv

\* A delivery that is due is tried once more (retry_due).
LEMMA AttemptKeeps ==
    ASSUME AlertInv, NEW w \in Sender, NEW outcome \in Outcome, Attempt(w, outcome)
    PROVE  AlertInv'
<1>1. PICK list \in Seq(Capture), results \in Seq(Result) :
        /\ list = sender[w].list /\ results = sender[w].results
        /\ list # <<>> /\ \A i, j \in DOMAIN list : list[i] = list[j] => i = j
  BY SendingTypes DEF AlertInv, SendingTypeOK, SenderStates, SendingInv, HandIsRight, Attempt,
                      SenderAt, TryingAt
<1>2. PICK c \in Capture, rest \in Seq(Capture) :
        /\ c = Head(list) /\ rest = Tail(list) /\ c = list[1] /\ 1 \in DOMAIN list
        /\ Len(list) = 1 <=> rest = <<>>
        /\ \A i \in DOMAIN rest : i + 1 \in DOMAIN list /\ rest[i] = list[i + 1] /\ rest[i] # c
        /\ \A i, j \in DOMAIN rest : rest[i] = rest[j] => i = j
  <2>1. /\ Head(list) \in Capture /\ Head(list) = list[1] /\ 1 \in DOMAIN list
        /\ Tail(list) \in Seq(Capture)
        /\ Len(list) = 1 <=> Tail(list) = <<>>
        /\ \A i \in DOMAIN Tail(list) : /\ i + 1 \in DOMAIN list /\ Tail(list)[i] = list[i + 1]
                                        /\ Tail(list)[i] # Head(list)
        /\ \A i, j \in DOMAIN Tail(list) : Tail(list)[i] = Tail(list)[j] => i = j
    BY <1>1, TakeHead
  <2> QED BY <2>1
<1> DEFINE result == [of |-> c, outcome |-> IF target THEN outcome ELSE "off",
                      before |-> delivery[c].attempts]
           point == IF Len(list) = 1 THEN "closing" ELSE "trying"
           next == [sender[w] EXCEPT !.list = Tail(@), !.results = Append(@, result), !.at = point]
<1>3. /\ AlertTypeOK /\ SendingTypeOK /\ SendingInv /\ sender[w].at = "trying"
      /\ UNCHANGED <<alertSide, sendSide, delivery, target, kills>>
      /\ posts' = IF target THEN [posts EXCEPT ![c] = @ + 1] ELSE posts
      /\ sender' = [sender EXCEPT ![w] = next]
  BY <1>1, <1>2, SendingTypes DEF AlertInv, Attempt, SenderAt
<1>4. /\ result \in Result /\ result.of = c /\ (result.outcome # "off" <=> target)
      /\ result.before = delivery[c].attempts
  <2>1. delivery[c].attempts \in 0 .. MaxAttempts
    BY <1>3 DEF SendingTypeOK
  <2>2. outcome # "off"
    BY DEF Outcome
  <2> QED BY <2>1, <2>2 DEF Result
<1> HIDE DEF result
<1>5. /\ next \in SenderStates /\ next.at = point /\ next.list = rest
      /\ next.results = Append(results, result) /\ next.at \in TryingAt
  <2>1. sender[w] \in SenderStates
    BY <1>3 DEF SendingTypeOK
  <2>2. point \in TryingAt
    BY DEF TryingAt
  <2>3. Append(results, result) \in Seq(Result)
    BY <1>4
  <2> HIDE DEF point
  <2> QED BY <1>1, <1>2, <2>1, <2>2, <2>3 DEF SenderStates
<1> HIDE DEF next
<1>6. PICK n \in Nat :
        /\ DOMAIN results = 1 .. n /\ DOMAIN next.results = 1 .. n + 1
        /\ next.results[n + 1] = result
        /\ \A i \in 1 .. n : next.results[i] = results[i] /\ results[i] \in Result
  <2>1. Len(results) \in Nat /\ DOMAIN results = 1 .. Len(results)
    BY LenProperties
  <2>2. \A i \in 1 .. Len(results) : results[i] \in Result
    BY ElementOfSeq
  <2>3. /\ DOMAIN Append(results, result) = 1 .. Len(results) + 1
        /\ Append(results, result)[Len(results) + 1] = result
        /\ \A i \in 1 .. Len(results) : Append(results, result)[i] = results[i]
    BY <1>4, <2>1
  <2> QED BY <1>5, <2>1, <2>2, <2>3
<1>7. \A i \in DOMAIN next.results : i \in 1 .. n \/ i = n + 1
  BY <1>6
<1>8. /\ Queued(sender[w]) = Queued(next) \cup {c} /\ c \notin Queued(next)
      /\ Tried(next) = Tried(sender[w]) \cup {c} /\ c \notin Tried(sender[w])
      /\ Queued(sender[w]) \cap Tried(sender[w]) = {}
  <2>1. Queued(sender[w]) \subseteq Queued(next) \cup {c}
    <3> SUFFICES ASSUME NEW i \in DOMAIN list PROVE list[i] = c \/ \E j \in DOMAIN rest : rest[j] = list[i]
      BY <1>1, <1>5 DEF Queued
    <3>1. Len(list) \in Nat /\ DOMAIN list = 1 .. Len(list)
      BY LenProperties
    <3>2. Len(rest) = Len(list) - 1 /\ DOMAIN rest = 1 .. Len(rest)
      BY <1>1, <1>2, HeadTailProperties, LenProperties
    <3>3. CASE i = 1
      BY <1>2, <3>3
    <3>4. CASE i # 1
      <4>1. i - 1 \in DOMAIN rest /\ (i - 1) + 1 = i
        BY <3>1, <3>2, <3>4
      <4> QED BY <1>2, <4>1
    <3> QED BY <3>3, <3>4
  <2>2. Queued(next) \cup {c} \subseteq Queued(sender[w]) /\ c \notin Queued(next)
    BY <1>1, <1>2, <1>5 DEF Queued
  <2>3. Queued(sender[w]) \cap Tried(sender[w]) = {}
    BY <1>3 DEF SendingInv, HandIsRight, TryingAt
  <2>4. Tried(next) = Tried(sender[w]) \cup {c}
    <3>1. Tried(next) \subseteq Tried(sender[w]) \cup {c}
      BY <1>1, <1>4, <1>6, <1>7 DEF Tried
    <3>2. n + 1 \in DOMAIN next.results /\ 1 .. n \subseteq DOMAIN next.results
      BY <1>6
    <3>3. Tried(sender[w]) \cup {c} \subseteq Tried(next)
      <4>1. c \in Tried(next)
        BY <1>4, <1>6, <3>2 DEF Tried
      <4>2. ASSUME NEW i \in 1 .. n PROVE results[i].of \in Tried(next)
        <5>1. i \in DOMAIN next.results /\ next.results[i].of = results[i].of
          BY <1>6, <3>2
        <5> QED BY <5>1 DEF Tried
      <4> QED BY <1>1, <1>6, <4>1, <4>2 DEF Tried
    <3> QED BY <3>1, <3>3
  <2> QED BY <2>1, <2>2, <2>3, <2>4
<1>9. HandIsRight(next)
  <2>1. next.at = "trying" => next.list # <<>>
    BY <1>2, <1>5
  <2>2. next.at \notin {"claiming", "posting", "recording", "idle"}
    BY <1>5
  <2>3. \A i, j \in DOMAIN next.results : next.results[i].of = next.results[j].of => i = j
    <3>1. \A i, j \in 1 .. n : results[i].of = results[j].of => i = j
      BY <1>1, <1>3, <1>6 DEF SendingInv, HandIsRight, TryingAt
    <3>2. \A i \in 1 .. n : next.results[i].of = results[i].of /\ results[i].of # c
      BY <1>1, <1>6, <1>8 DEF Tried
    <3>3. next.results[n + 1].of = c
      BY <1>4, <1>6
    <3> QED BY <1>7, <3>1, <3>2, <3>3
  <2>4. Queued(next) \cap Tried(next) = {}
    BY <1>8
  <2> QED BY <1>2, <1>5, <2>1, <2>2, <2>3, <2>4 DEF HandIsRight
<1>10. /\ \A d \in Capture : Tries(next, d) <=> Tries(sender[w], d)
       /\ \A d \in Capture : ~Sends(next, d)
       /\ \A d \in Capture : Posted(next, d) <=> Posted(sender[w], d) \/ (d = c /\ target)
       /\ Tries(sender[w], c)
  <2>1. \A d \in Capture : Tries(next, d) <=> Tries(sender[w], d)
    BY <1>3, <1>5, <1>8 DEF Tries, TryingAt
  <2>2. \A d \in Capture : ~Sends(next, d)
    BY <1>5 DEF Sends, SendingAt, TryingAt
  <2>3. ASSUME NEW d \in Capture
        PROVE  Posted(next, d) <=> Posted(sender[w], d) \/ (d = c /\ target)
    <3>1. Posted(next, d) => Posted(sender[w], d) \/ (d = c /\ target)
      BY <1>1, <1>4, <1>6, <1>7 DEF Posted
    <3>2. n + 1 \in DOMAIN next.results /\ 1 .. n \subseteq DOMAIN next.results
      BY <1>6
    <3>3. Posted(sender[w], d) => Posted(next, d)
      BY <1>1, <1>6, <3>2 DEF Posted
    <3>4. d = c /\ target => Posted(next, d)
      BY <1>4, <1>6, <3>2 DEF Posted
    <3> QED BY <3>1, <3>3, <3>4
  <2>4. Tries(sender[w], c)
    BY <1>3, <1>8 DEF Tries, TryingAt
  <2> QED BY <2>1, <2>2, <2>3, <2>4
<1>11. /\ sender' \in [Sender -> SenderStates] /\ sender'[w] = next
       /\ \A v \in Sender \ {w} : sender'[v] = sender[v]
  BY <1>3, <1>5, OneSenderMoves
<1>12. /\ posts' \in [Capture -> Nat] /\ posts'[c] = IF target THEN posts[c] + 1 ELSE posts[c]
       /\ \A d \in Capture \ {c} : posts'[d] = posts[d]
  BY <1>3 DEF SendingTypeOK
<1>13. AlertTypeOK'
  <2>1. SendingTypeOK'
    BY <1>3, <1>11, <1>12 DEF SendingTypeOK, sendSide
  <2> QED BY <1>3, <2>1, SendingTypesKept DEF AlertTypeOK
<1>14. (told[c] # 0 \/ c \in untold) /\ sent[c] /\ \A v \in Sender : Tries(sender[v], c) => v = w
  <2>1. delivery[c].status = "pending"
    BY <1>3, <1>10 DEF SendingInv, TriedAlone
  <2> QED BY <1>3, <1>10, <2>1 DEF SendingInv, SentAlone, TriedAlone, NoDelivery
<1>15. SentAlone'
  <2>1. \A v \in Sender, d \in Capture : Sends(sender'[v], d) => Sends(sender[v], d)
    BY <1>10, <1>11
  <2> QED BY <1>3, <1>12, <1>14, <2>1 DEF SendingInv, SentAlone, sendSide
<1>16. TriedAlone'
  <2>1. \A v \in Sender, d \in Capture : Tries(sender'[v], d) => Tries(sender[v], d)
    BY <1>10, <1>11
  <2>2. \A i \in DOMAIN next.results :
          next.results[i].before = delivery[next.results[i].of].attempts
    <3>1. \A i \in 1 .. n : results[i].before = delivery[results[i].of].attempts
      BY <1>1, <1>3, <1>6 DEF SendingInv, TriedAlone, TryingAt
    <3> QED BY <1>4, <1>6, <1>7, <3>1
  <2>3. \A v \in Sender : sender'[v].at \in TryingAt =>
          \A i \in DOMAIN sender'[v].results :
              sender'[v].results[i].before = delivery[sender'[v].results[i].of].attempts
    BY <1>3, <1>11, <2>2 DEF SendingInv, TriedAlone
  <2> QED BY <1>3, <2>1, <2>3 DEF SendingInv, TriedAlone
<1>17. PostsAreCounted'
  <2> SUFFICES ASSUME NEW d \in Capture
               PROVE  /\ posts'[d] <= delivery[d].attempts + kills + 1
                      /\ (\A v \in Sender : ~Posted(sender'[v], d)) =>
                            posts'[d] <= delivery[d].attempts + kills
    BY <1>3 DEF PostsAreCounted
  <2>1. /\ posts[d] <= delivery[d].attempts + kills + 1
        /\ (\A v \in Sender : ~Posted(sender[v], d)) => posts[d] <= delivery[d].attempts + kills
        /\ posts[d] \in Nat /\ delivery[d].attempts \in Nat /\ kills \in Nat
    BY <1>3 DEF SendingInv, PostsAreCounted, SendingTypeOK
  <2>2. CASE d = c /\ target
    <3>1. \A v \in Sender : ~Posted(sender[v], c)
      <4> SUFFICES ASSUME NEW v \in Sender, Posted(sender[v], c) PROVE FALSE
        OBVIOUS
      <4>1. ~Sends(sender[v], c)
        BY <1>3, <1>14 DEF SendingInv, SentAlone
      <4>2. v = w /\ c \in Tried(sender[w])
        BY <1>3, <1>14, <4>1, WhoPosted
      <4> QED BY <1>8, <4>2
    <3>2. Posted(sender'[w], c)
      BY <1>10, <1>11, <2>2
    <3> QED BY <1>12, <2>1, <2>2, <3>1, <3>2
  <2>3. CASE ~(d = c /\ target)
    <3>1. posts'[d] = posts[d]
      BY <1>12, <2>3
    <3>2. (\A v \in Sender : ~Posted(sender'[v], d)) => \A v \in Sender : ~Posted(sender[v], d)
      BY <1>10, <1>11
    <3> QED BY <2>1, <3>1, <3>2
  <2> QED BY <2>2, <2>3
<1>18. \A v \in Sender : HandIsRight(sender'[v])
  BY <1>3, <1>9, <1>11 DEF SendingInv
<1> QED BY <1>3, <1>13, <1>15, <1>16, <1>17, <1>18, CapturesRest DEF AlertInv, SendingInv

\* The tries a worker made are recorded together (retry_due).
LEMMA RetriesKeep == ASSUME AlertInv, NEW w \in Sender, RetryCommit(w) PROVE AlertInv'
<1>1. PICK results \in Seq(Result) : results = sender[w].results
  BY SendingTypes DEF AlertInv, SendingTypeOK, SenderStates
<1> DEFINE made == {results[i] : i \in DOMAIN results}
           Last(c) == CHOOSE r \in made : r.of = c
           TriedHere == Tried(sender[w])
<1>2. /\ AlertTypeOK /\ SendingTypeOK /\ SendingInv /\ sender[w].at = "closing"
      /\ UNCHANGED <<alertSide, sendSide, posts, target, kills>>
      /\ sender' = [sender EXCEPT ![w] = SenderRests]
      /\ delivery' = [c \in Capture |-> IF \E i \in DOMAIN results : results[i].of = c
                                        THEN Attempted(Last(c)) ELSE delivery[c]]
  BY <1>1, SendingTypes DEF AlertInv, RetryCommit, SenderAt
<1>3. /\ \A i \in DOMAIN results : results[i] \in Result
      /\ \A c : c \in TriedHere <=> \E i \in DOMAIN results : results[i].of = c
      /\ \A i, j \in DOMAIN results : results[i].of = results[j].of => i = j
  <2>1. \A i \in DOMAIN results : results[i] \in Result
    BY ElementOfSeq, LenProperties
  <2>2. \A i, j \in DOMAIN results : results[i].of = results[j].of => i = j
    BY <1>1, <1>2 DEF SendingInv, HandIsRight, TryingAt
  <2> QED BY <1>1, <2>1, <2>2 DEF Tried
<1>4. ASSUME NEW c \in Capture, c \in TriedHere
      PROVE  /\ Last(c) \in Result /\ Last(c).of = c /\ Last(c).before = delivery[c].attempts
             /\ Last(c).outcome = "off" => ~Posted(sender[w], c)
             /\ delivery[c].status = "pending" /\ delivery[c].attempts < MaxAttempts
             /\ \A v \in Sender : Tries(sender[v], c) => v = w
             /\ told[c] # 0 \/ c \in untold
  <2>1. PICK i \in DOMAIN results : results[i].of = c
    BY <1>3, <1>4
  <2>2. Last(c) = results[i]
    BY <1>3, <2>1
  <2>3. results[i].before = delivery[c].attempts
    BY <1>1, <1>2, <2>1 DEF SendingInv, TriedAlone, TryingAt
  <2>4. results[i].outcome = "off" => ~Posted(sender[w], c)
    BY <1>1, <1>3, <2>1 DEF Posted
  <2>5. Tries(sender[w], c)
    BY <1>2, <1>4 DEF Tries, TryingAt
  <2>6. delivery[c].status = "pending"
    BY <1>2, <2>5 DEF SendingInv, TriedAlone
  <2>7. told[c] # 0 \/ c \in untold
    BY <1>2, <2>6 DEF SendingInv, SentAlone, NoDelivery
  <2> HIDE DEF Last
  <2> QED BY <1>2, <1>3, <2>1, <2>2, <2>3, <2>4, <2>5, <2>6, <2>7 DEF SendingInv, TriedAlone
<1> HIDE DEF Last, made, TriedHere
<1>5. ASSUME NEW c \in Capture, c \in TriedHere
      PROVE  /\ delivery'[c] \in [status : {"none", "pending", "succeeded", "failed"},
                                  attempts : 0 .. MaxAttempts, due : BOOLEAN]
             /\ delivery'[c].status = "pending" => delivery'[c].attempts < MaxAttempts
             /\ delivery'[c].attempts = IF Last(c).outcome = "off" THEN delivery[c].attempts
                                        ELSE delivery[c].attempts + 1
  <2>1. PICK r \in Result : r = Last(c) /\ r.before = delivery[c].attempts
    BY <1>4, <1>5
  <2>2. delivery'[c] = Attempted(r)
    BY <1>2, <1>3, <1>5, <2>1
  <2>3. PICK before \in Nat : before = r.before /\ before < MaxAttempts
    BY <1>2, <1>4, <1>5, <2>1, AlertAssumption DEF SendingTypeOK
  <2>4. Attempted(r).attempts = IF r.outcome = "off" THEN before ELSE before + 1
    BY <2>3 DEF Attempted
  <2>5. /\ Attempted(r).status \in {"pending", "succeeded", "failed"}
        /\ Attempted(r).status = "pending" => r.outcome = "again" /\ before + 1 < MaxAttempts
    BY <2>3 DEF Attempted
  <2>6. before \in 0 .. MaxAttempts /\ before + 1 \in 0 .. MaxAttempts
    BY <2>3, AlertAssumption
  <2>7. Attempted(r) \in [status : {"none", "pending", "succeeded", "failed"},
                          attempts : 0 .. MaxAttempts, due : BOOLEAN]
    BY <2>4, <2>5, <2>6 DEF Attempted
  <2> QED BY <2>1, <2>2, <2>3, <2>4, <2>5, <2>7
<1>6. \A c \in Capture : c \notin TriedHere => delivery'[c] = delivery[c]
  BY <1>2, <1>3
<1>7. /\ SenderRests \in SenderStates /\ HandIsRight(SenderRests)
      /\ SenderRests.at = "idle" /\ SenderRests.results = <<>>
      /\ \A c \in Capture :
           ~Sends(SenderRests, c) /\ ~Tries(SenderRests, c) /\ ~Posted(SenderRests, c)
  <2>1. <<>> \in Seq(Capture) /\ <<>> \in Seq(Result)
    BY EmptySeq
  <2>2. SenderRests \in SenderStates /\ SenderRests.at = "idle" /\ SenderRests.results = <<>>
    BY <2>1 DEF SenderRests, SenderStates
  <2> QED BY <2>2 DEF HandIsRight, Sends, Tries, Posted, SendingAt, TryingAt
<1>8. /\ sender' \in [Sender -> SenderStates] /\ sender'[w] = SenderRests
      /\ \A v \in Sender \ {w} : sender'[v] = sender[v]
  BY <1>2, <1>7, OneSenderMoves
<1>9. AlertTypeOK'
  <2>1. delivery' \in [Capture -> [status : {"none", "pending", "succeeded", "failed"},
                                   attempts : 0 .. MaxAttempts, due : BOOLEAN]]
    <3>1. \A c \in Capture : delivery'[c] \in
            [status : {"none", "pending", "succeeded", "failed"},
             attempts : 0 .. MaxAttempts, due : BOOLEAN]
      BY <1>2, <1>5, <1>6 DEF SendingTypeOK
    <3>2. delivery' = [c \in Capture |-> delivery'[c]]
      BY <1>2
    <3> QED BY <3>1, <3>2
  <2>2. SendingTypeOK'
    BY <1>2, <1>8, <2>1 DEF SendingTypeOK, sendSide
  <2> QED BY <1>2, <2>2, SendingTypesKept DEF AlertTypeOK
<1>10. SentAlone'
  <2>1. \A v \in Sender, c \in Capture : Sends(sender'[v], c) => Sends(sender[v], c)
    BY <1>7, <1>8
  <2>2. \A c \in Capture : told[c] = 0 /\ c \notin untold => delivery'[c] = NoDelivery
    BY <1>2, <1>4, <1>6 DEF SendingInv, SentAlone
  <2> QED BY <1>2, <2>1, <2>2 DEF SendingInv, SentAlone, sendSide
<1>11. TriedAlone'
  <2>1. \A v \in Sender, c \in Capture :
          Tries(sender'[v], c) => Tries(sender[v], c) /\ v # w /\ c \notin TriedHere
    BY <1>4, <1>7, <1>8
  <2>2. \A c \in Capture : delivery'[c].status = "pending" => delivery'[c].attempts < MaxAttempts
    BY <1>2, <1>5, <1>6 DEF SendingInv, TriedAlone
  <2>3. \A v \in Sender, c \in Capture : Tries(sender'[v], c) => delivery'[c].status = "pending"
    BY <1>2, <1>6, <2>1 DEF SendingInv, TriedAlone
  <2>4. ASSUME NEW v \in Sender, sender'[v].at \in TryingAt, NEW i \in DOMAIN sender'[v].results
        PROVE  sender'[v].results[i].before = delivery'[sender'[v].results[i].of].attempts
    <3>1. v # w /\ sender'[v] = sender[v]
      BY <1>7, <1>8, <2>4 DEF TryingAt
    <3>2. PICK of \in Capture : of = sender[v].results[i].of
      <4>1. sender[v].results \in Seq(Result)
        BY <1>2 DEF SendingTypeOK, SenderStates
      <4>2. sender[v].results[i] \in Result
        BY <2>4, <3>1, <4>1, ElementOfSeq, LenProperties
      <4> QED BY <4>2 DEF Result
    <3>3. Tries(sender'[v], of)
      BY <2>4, <3>1, <3>2 DEF Tries, Tried
    <3>4. delivery'[of] = delivery[of]
      BY <1>6, <2>1, <3>3
    <3> QED BY <1>2, <2>4, <3>1, <3>2, <3>4 DEF SendingInv, TriedAlone
  <2> QED BY <1>2, <2>1, <2>2, <2>3, <2>4 DEF SendingInv, TriedAlone
<1>12. PostsAreCounted'
  <2> SUFFICES ASSUME NEW c \in Capture
               PROVE  /\ posts[c] <= delivery'[c].attempts + kills + 1
                      /\ (\A v \in Sender : ~Posted(sender'[v], c)) =>
                            posts[c] <= delivery'[c].attempts + kills
    BY <1>2 DEF PostsAreCounted
  <2>1. /\ posts[c] <= delivery[c].attempts + kills + 1
        /\ (\A v \in Sender : ~Posted(sender[v], c)) => posts[c] <= delivery[c].attempts + kills
        /\ posts[c] \in Nat /\ delivery[c].attempts \in Nat /\ kills \in Nat
    BY <1>2 DEF SendingInv, PostsAreCounted, SendingTypeOK
  <2>2. CASE c \in TriedHere /\ Last(c).outcome = "off"
    <3>1. \A v \in Sender : ~Posted(sender[v], c)
      <4> SUFFICES ASSUME NEW v \in Sender, Posted(sender[v], c) PROVE FALSE
        OBVIOUS
      <4>1. ~Sends(sender[v], c)
        BY <1>2, <1>4, <2>2 DEF SendingInv, SentAlone
      <4>2. v = w
        BY <1>2, <1>4, <2>2, <4>1, WhoPosted
      <4> QED BY <1>4, <2>2, <4>2
    <3> QED BY <1>5, <2>1, <2>2, <3>1
  <2>3. CASE c \in TriedHere /\ Last(c).outcome # "off"
    <3>1. delivery'[c].attempts = delivery[c].attempts + 1
      BY <1>5, <2>3
    <3> QED BY <2>1, <3>1
  <2>4. CASE c \notin TriedHere
    <3>1. ~Posted(sender[w], c)
      BY <1>2, <2>4, WhoPosted DEF TriedHere
    <3>2. (\A v \in Sender : ~Posted(sender'[v], c)) => \A v \in Sender : ~Posted(sender[v], c)
      BY <1>8, <3>1
    <3>3. delivery'[c] = delivery[c]
      BY <1>6, <2>4
    <3> QED BY <2>1, <3>2, <3>3
  <2> QED BY <2>2, <2>3, <2>4
<1>13. \A v \in Sender : HandIsRight(sender'[v])
  BY <1>2, <1>7, <1>8 DEF SendingInv
<1> QED BY <1>2, <1>9, <1>10, <1>11, <1>12, <1>13, CapturesRest DEF AlertInv, SendingInv

\* Nothing has been captured or sent.
LEMMA AlertStart == ASSUME AlertInit PROVE AlertInv
<1>1. <<>> \in Seq(Capture) /\ <<>> \in Seq(Result)
         /\ <<>> \in Seq(Event)
  BY EmptySeq
<1>2. SenderRests \in SenderStates /\ SenderRests.at = "idle" /\ SenderRests.results = <<>>
  BY <1>1 DEF SenderRests, SenderStates
<1>3. /\ HandIsRight(SenderRests)
      /\ \A c \in Capture :
           ~Sends(SenderRests, c) /\ ~Tries(SenderRests, c) /\ ~Posted(SenderRests, c)
  BY <1>2 DEF HandIsRight, Sends, Tries, Posted, SendingAt, TryingAt
<1>4. \A w \in Sender : sender[w] = SenderRests
  BY DEF AlertInit
<1>5. /\ untold = {}
      /\ \A c \in Capture : /\ delivery[c] = NoDelivery /\ told[c] = 0 /\ posts[c] = 0
                            /\ delivery[c].attempts = 0 /\ delivery[c].status = "none"
      /\ kills = 0
  BY DEF AlertInit, NoDelivery
<1>6. AlertTypeOK
  <2>1. Cardinality(Sender) \in Nat /\ MaxAttempts \in Nat /\ MaxKills \in Nat
    BY AlertAssumption, FS_CardinalityType
  <2>2. 0 \in 0 .. Cardinality(Sender) /\ 0 \in 0 .. MaxAttempts /\ 0 \in 0 .. MaxKills
    BY <2>1
  <2>3. NoDelivery \in [status : {"none", "pending", "succeeded", "failed"},
                        attempts : 0 .. MaxAttempts, due : BOOLEAN]
    BY <2>2 DEF NoDelivery
  <2>4. SendingTypeOK
    <3>1. sender \in [Sender -> SenderStates] /\ kills \in 0 .. MaxKills
      BY <1>2, <2>2 DEF AlertInit
    <3>2. /\ sent \in [Capture -> BOOLEAN] /\ posts \in [Capture -> Nat]
          /\ told \in [Capture -> 0 .. Cardinality(Sender)] /\ untold \subseteq Capture
      BY <2>2 DEF AlertInit
    <3>3. delivery \in [Capture -> [status : {"none", "pending", "succeeded", "failed"},
                                    attempts : 0 .. MaxAttempts, due : BOOLEAN]]
      BY <2>3 DEF AlertInit
    <3> QED BY <3>1, <3>2, <3>3 DEF SendingTypeOK
  <2>5. /\ line = "ok" /\ target = TRUE /\ events = <<>>
        /\ capture \in [Capture -> Judging] /\ afresh = FALSE
    BY DEF AlertInit, CaptureRests, Judging
  <2>6. \A i, j \in DOMAIN events : events[i].of = events[j].of => i = j
    BY <2>5
  <2> QED BY <1>1, <2>4, <2>5, <2>6, SendingTypes
<1>7. LineFollows /\ CrossingsAlternate
  <2>1. events = <<>> /\ line = "ok" /\ \A c \in Capture : capture[c].at = "waiting"
    BY DEF AlertInit, CaptureRests
  <2>2. DOMAIN events = {}
    BY <2>1
  <2> QED BY <2>1, <2>2 DEF LineFollows, CrossingsAlternate
<1>8. SentAlone
  BY <1>3, <1>4, <1>5 DEF SentAlone
<1>9. TriedAlone
  BY <1>2, <1>3, <1>4, <1>5 DEF TriedAlone, TryingAt
<1>10. PostsAreCounted
  BY <1>5 DEF PostsAreCounted
<1> QED BY <1>3, <1>4, <1>6, <1>7, <1>8, <1>9, <1>10 DEF AlertInv, SendingInv

\* Every step keeps the sending in order.
LEMMA AlertStep ==
    ASSUME CapturesOverlap = FALSE, AlertInv, [AlertNext]_alertVars PROVE AlertInv'
<1>1. CASE UNCHANGED alertVars
  <2>1. /\ UNCHANGED <<alertSide, target>>
        /\ UNCHANGED <<sendSide, delivery, posts, sender, kills>>
    BY <1>1 DEF alertVars, alertSide, sendSide
  <2>2. SendingTypeOK'
    BY <2>1, SendingTypes DEF AlertInv, SendingTypeOK, sendSide
  <2> QED BY <2>1, <2>2, SendingTypesKept, CapturesRest, SendersRest DEF AlertInv, AlertTypeOK
<1>2. CASE TurnOff
  <2>1. /\ UNCHANGED alertSide /\ target' = FALSE
        /\ UNCHANGED <<sendSide, delivery, posts, sender, kills>>
    BY <1>2 DEF TurnOff
  <2>2. SendingTypeOK'
    BY <2>1, SendingTypes DEF AlertInv, SendingTypeOK, sendSide
  <2> QED BY <2>1, <2>2, SendingTypesKept, CapturesRest, SendersRest DEF AlertInv
<1>3. ASSUME NEW w \in Sender, SenderStep(w) \/ TellFails(w) \/ SenderDies(w) PROVE AlertInv'
  <2>1. CASE ClaimEvent(w)
    BY <2>1, EventClaimKeeps, LetsGoKeeps
  <2> QED BY <1>3, <2>1, SendScanKeeps, LetsGoKeeps, PostKeeps, PeopleToldKeeps, AttemptKeeps, RetriesKeep
          DEF SenderStep
<1> QED BY <1>1, <1>2, <1>3, ReadKeeps, JudgeKeeps, DueKeeps DEF AlertNext

\* Alerts are safe (alerts.py, webhook_sender.py): an alert comes back only from a crossing it
\* told of, and crosses twice in a row only a line that was moved; an event is sent at most
\* once however many workers poll and die or fail to send; and what an address received is
\* what the tries count, plus one for each try that is not recorded or whose worker died.
\* That captures of one alert do not overlap is a condition.
THEOREM AlertsAreSafe ==
    ASSUME CapturesOverlap = FALSE
    PROVE  AlertSpec => []AlertSafety
<1>1. AlertInit => AlertInv
  BY AlertStart
<1>2. AlertInv /\ [AlertNext]_alertVars => AlertInv'
  BY AlertStep
<1>3. AlertInv => AlertSafety
  <2> SUFFICES ASSUME AlertInv PROVE AlertSafety
    OBVIOUS
  <2>1. AlertTypeOK /\ CrossingsAlternate /\ SendingInv /\ SendingTypeOK
    BY SendingTypes DEF AlertInv
  <2>2. SentOnce
    BY <2>1 DEF SendingInv, SentAlone, SentOnce
  <2>3. TriesAreCounted
    <3> SUFFICES ASSUME NEW c \in Capture
                 PROVE  posts[c] <= delivery[c].attempts + kills
                          + Cardinality({w \in Sender : \E i \in DOMAIN sender[w].results :
                                                           sender[w].results[i].of = c})
      BY DEF TriesAreCounted
    <3> DEFINE Holders == {w \in Sender : \E i \in DOMAIN sender[w].results :
                                             sender[w].results[i].of = c}
    <3>1. /\ posts[c] <= delivery[c].attempts + kills + 1
          /\ (\A v \in Sender : ~Posted(sender[v], c)) => posts[c] <= delivery[c].attempts + kills
          /\ posts[c] \in Nat /\ delivery[c].attempts \in Nat /\ kills \in Nat
      BY <2>1 DEF SendingInv, PostsAreCounted, SendingTypeOK
    <3>2. IsFiniteSet(Holders) /\ Cardinality(Holders) \in Nat
      BY AlertAssumption, FS_Subset, FS_CardinalityType
    <3>3. Holders # {} => Cardinality(Holders) # 0
      BY <3>2, FS_EmptySet
    <3>4. \A v \in Sender : Posted(sender[v], c) => v \in Holders
      BY DEF Posted
    <3> HIDE DEF Holders
    <3>5. posts[c] <= delivery[c].attempts + kills + Cardinality(Holders)
      <4>1. CASE \A v \in Sender : ~Posted(sender[v], c)
        BY <3>1, <3>2, <4>1
      <4>2. CASE \E v \in Sender : Posted(sender[v], c)
        BY <3>1, <3>2, <3>3, <3>4, <4>2
      <4> QED BY <4>1, <4>2
    <3> QED BY <3>5 DEF Holders
  <2> QED BY <2>1, <2>2, <2>3 DEF AlertSafety
<1> QED BY <1>1, <1>2, <1>3, PTL DEF AlertSpec

(***************************************************************************)
(* The services side by side (MCServices): each does what it does alone.   *)
(***************************************************************************)

\* The protocols share no state: a behaviour of all of them is one of each.
LEMMA EachGoesItsWay ==
    Spec => /\ RunsSpec /\ UploadsSpec /\ WritebackSpec /\ ContractsSpec /\ IncidentsSpec
<1>1. Init => RunsInit /\ UploadsInit /\ WritebackInit /\ ContractsInit /\ IncidentsInit
  BY DEF Init
<1>2. [Next]_serviceVars => [RunsNext]_runVars
  BY DEF Next, serviceVars, ButUploads, ButWriteback, ButImports, ButContracts, ButIncidents
<1>3. [Next]_serviceVars => [UploadsNext]_uploadVars
  BY DEF Next, serviceVars, ButRuns, ButWriteback, ButImports, ButContracts, ButIncidents
<1>4. [Next]_serviceVars => [WritebackNext]_writebackVars
  BY DEF Next, serviceVars, ButRuns, ButUploads, ButImports, ButContracts, ButIncidents
<1>5. [Next]_serviceVars => [ContractsNext]_contractVars
  BY DEF Next, serviceVars, ContractsNext, ButRuns, ButUploads, ButWriteback,
         ButImports, ButIncidents
<1>6. [Next]_serviceVars => [IncidentsNext]_incidentVars
  BY DEF Next, serviceVars, ButRuns, ButUploads, ButWriteback, ButImports, ButContracts
<1> QED
  BY <1>1, <1>2, <1>3, <1>4, <1>5, <1>6, PTL
     DEF Spec, RunsSpec, UploadsSpec, WritebackSpec, ContractsSpec, IncidentsSpec

\* What the services settle stays so (background.py, compiler.py:180-183): a run's verdict,
\* and a cell that others changed.
THEOREM NothingIsTakenBack ==
    ASSUME Lapses = FALSE, DiesBetween = FALSE, EditedMeanwhile = FALSE, Repeated = {}
    PROVE  Spec => NothingIsUndone
<1>1. RunsSpec => RunVerdictStands
  BY RunVerdictIsFinal
<1>2. WritebackSpec => NothingWrittenOver
  BY WhatWasSeenIsReplaced
<1> QED BY <1>1, <1>2, EachGoesItsWay DEF NothingIsUndone

(***************************************************************************)
(* Imports.  While one run is on, cursors tell rows apart and come in      *)
(* order, and the dataset can be read: how often a row is stored, and the  *)
(* mark it waits for, are paid for by what happened to the job.            *)
(***************************************************************************)

EarlyPoint == {"reading", "combining"}
LatePoint == {"publishing", "advancing"}

RunnerStates == [at : {"idle"} \cup EarlyPoint \cup LatePoint, mode : Mode,
                 mark : 0..MaxCursor, target : Dataset \cup {0}, rows : SUBSET Version,
                 table : [Version -> Nat]]

ImportsShaped ==
    /\ source \in [RowKey -> 0..MaxCursor]
    /\ job \in [mode : Mode, mark : 0..MaxCursor, target : Dataset \cup {0}]
    /\ data \in [Dataset -> [Version -> Nat]]
    /\ runner \in [Importer -> RunnerStates]
    /\ stops \in 0..MaxStops
    /\ happened \in SUBSET Upset

\* One run is on, and it is of the job's mode unless somebody edited that.
OneImports ==
    /\ \A p, q \in Importer : RunnerAt(p, "idle") \/ RunnerAt(q, "idle") \/ p = q
    /\ \A q \in Importer : RunnerAt(q, "idle") => runner[q] = RunnerRests
    /\ happened # {} => stops > 0
    /\ job.mode = "full_refresh" => "mode changed" \in happened
    /\ \A q \in Importer : ~RunnerAt(q, "idle") /\ runner[q].mode # job.mode =>
           "mode changed" \in happened

\* A mark that a row of the source has come to.
Come(mark) == mark = 0 \/ \E k \in RowKey : mark <= source[k]

\* The rows in hand are past the mark they were read from, one of each key, and
\* the source is at them or past them.
RowsInHand ==
    /\ \A j, k \in RowKey : source[j] = source[k] /\ source[j] # 0 => j = k
    /\ Come(job.mark)
    /\ \A q \in Importer :
         /\ Come(runner[q].mark)
         /\ Cardinality(runner[q].rows) <= MaxRows
         /\ runner[q].at \in {"idle", "reading"} => runner[q].rows = {}
         /\ \A v \in runner[q].rows :
              /\ v[2] <= source[v[1]]
              /\ runner[q].mode # "full_refresh" => runner[q].mark < v[2]
              /\ \A w \in runner[q].rows : v[1] = w[1] => v = w

\* The dataset a run writes to is the job's, or the job's is gone.
TargetsSuit ==
    \A q \in Importer : ~RunnerAt(q, "idle") =>
        IF RunnerAt(q, "advancing")
        THEN /\ Exists(job.target) => job.target = runner[q].target
             /\ runner[q].target # 0
             /\ Exists(runner[q].target) => data[runner[q].target] = runner[q].table
        ELSE job.target = runner[q].target \/ (job.target = 0 /\ ~Exists(runner[q].target))

\* Each dataset that nobody refers to was left by a run that stopped.
Orphans ==
    {d \in Dataset : Exists(d) /\ d # job.target /\ \A q \in Importer : runner[q].target # d}
OrphansPaid == Cardinality(Orphans) <= stops

\* How often a row may be stored.
Times == IF happened \cap {"stopped between", "reset", "mode changed"} = {} THEN 1 ELSE 1 + stops
Copies(d, v) == IF Exists(d) THEN data[d][v] ELSE 0
Unread(mark, v) == IF mark < v[2] THEN 1 ELSE 0

\* The mark the job will have when the run has ended.
Reached(q) ==
    IF job.mode # "full_refresh" /\ runner[q].rows # {} THEN TopOf(runner[q].rows) ELSE job.mark

\* Whoever edited the mode or the mark under a run has paid for it.
Changed(q) == IF runner[q].mode = job.mode /\ runner[q].mark = job.mark THEN 0 ELSE 1

TimesKept ==
    /\ \A d \in Dataset, v \in Version : Copies(d, v) <= Times
    /\ (\A q \in Importer : ~RunnerAt(q, "advancing")) =>
           \A v \in Version : Copies(job.target, v) + Unread(job.mark, v) <= Times
    /\ \A q \in Importer, v \in Version :
         /\ runner[q].at \in EarlyPoint =>
              Copies(runner[q].target, v) + Unread(runner[q].mark, v) + Changed(q) <= Times
         /\ runner[q].at \in LatePoint =>
              runner[q].table[v] + Unread(Reached(q), v) <= Times

\* A key is there once.
OfOneKey(made) ==
    \A v, w \in Version :
        made[v] > 0 /\ made[w] > 0 /\ v[1] = w[1] => v = w /\ made[v] = 1
KeysKept ==
    job.mode = "incremental_merge" /\ "mode changed" \notin happened =>
        /\ \A d \in Dataset : Exists(d) => OfOneKey(data[d])
        /\ \A q \in Importer : runner[q].at \in LatePoint => OfOneKey(runner[q].table)

\* No row behind a mark is missing: not in the dataset, nor in what a run has in hand.
Behind(q, k) == source[k] <= runner[q].mark \/ \E v \in runner[q].rows : source[k] <= v[2]
NoneSkipped ==
    happened \cap {"mode changed", "deleted"} = {} =>
        /\ Exists(job.target) \/ (job.target = 0 /\ job.mark = 0)
        /\ \A k \in RowKey :
               0 < source[k] /\ source[k] <= job.mark => Copies(job.target, <<k, source[k]>>) > 0
        /\ \A q \in Importer : ~RunnerAt(q, "idle") =>
             /\ job.mark <= runner[q].mark
             /\ RunnerAt(q, "advancing") => Exists(runner[q].target)
             /\ runner[q].at \in EarlyPoint =>
                  \A k \in RowKey : 0 < source[k] /\ source[k] <= runner[q].mark =>
                      Copies(runner[q].target, <<k, source[k]>>) > 0
             /\ RunnerAt(q, "combining") =>
                  \A k \in RowKey : runner[q].mark < source[k] /\ Behind(q, k) =>
                      <<k, source[k]>> \in runner[q].rows
             /\ runner[q].at \in LatePoint =>
                  \A k \in RowKey : 0 < source[k] /\ Behind(q, k) =>
                      runner[q].table[<<k, source[k]>>] > 0

ImportsInv ==
    /\ ImportsShaped
    /\ OneImports
    /\ RowsInHand
    /\ TargetsSuit
    /\ OrphansPaid
    /\ TimesKept
    /\ KeysKept
    /\ NoneSkipped


\* A run that has combined nothing yet holds no table.
NothingMade == \A q \in Importer : runner[q].at \notin LatePoint => runner[q].table = NoRows

\* Among some natural numbers there is a least one.
LEMMA LeastOf ==
    ASSUME NEW S \in SUBSET Nat, S # {}
    PROVE  Min(S) \in S /\ \A s \in S : Min(S) <= s
<1> DEFINE R == OpToRel(<, Nat)
<1>1. IsWellFoundedOn(R, Nat)
  BY NatLessThanWellFounded
<1>2. \A x, y \in Nat : y < x => <<y, x>> \in R
  BY DEF OpToRel
<1> HIDE DEF R
<1>3. PICK s \in S : \A q \in S : ~ (<<q, s>> \in R)
  BY <1>1, WFMin
<1>4. \A q \in S : ~ (q < s)
  BY <1>2, <1>3
<1>5. \A q \in S : s <= q
  BY <1>4
<1> QED BY <1>5 DEF Min

\* Among some cursors there is a greatest one.
LEMMA GreatestOf ==
    ASSUME NEW S \in SUBSET (0..MaxCursor), S # {}
    PROVE  Max(S) \in S /\ \A s \in S : s <= Max(S)
<1> DEFINE T == {n \in 0..MaxCursor : \A s \in S : s <= n}
<1>1. MaxCursor \in Nat
  BY ImportAssumption
<1>2. T \in SUBSET Nat /\ T # {}
  BY <1>1
<1>3. Min(T) \in T /\ \A n \in T : Min(T) <= n
  BY <1>2, LeastOf
<1>4. PICK m \in T : \A n \in T : m <= n
  BY <1>3
<1>5. m \in S
  <2>1. SUFFICES ASSUME m \notin S PROVE FALSE
    OBVIOUS
  <2>2. m # 0
    <3>1. PICK s \in S : s <= m
      BY <1>4
    <3>2. s # m /\ s \in Nat
      BY <2>1
    <3> QED BY <3>1, <3>2
  <2>3. m - 1 \in T
    BY <1>1, <1>4, <2>1, <2>2
  <2> QED BY <1>1, <1>4, <2>3
<1>6. \A s \in S : s <= m
  BY <1>4
<1> QED BY <1>1, <1>5, <1>6 DEF Max

\* Versions, datasets, and what is in the source.
LEMMA ImportSets ==
    ASSUME ImportsShaped
    PROVE  /\ \A v \in Version : v[1] \in RowKey /\ v[2] \in 1..MaxCursor /\ v = <<v[1], v[2]>>
           /\ \A k \in RowKey : source[k] > 0 => <<k, source[k]>> \in Version
           /\ Version # {}
           /\ \A S \in SUBSET Version : IsFiniteSet(S)
           /\ Dataset \subseteq Nat /\ 0 \notin Dataset /\ IsFiniteSet(Dataset)
           /\ \A q \in Importer : Cardinality(Dataset) >= MaxStops + 2
<1>1. \A v \in Version : v[1] \in RowKey /\ v[2] \in 1..MaxCursor /\ v = <<v[1], v[2]>>
  BY DEF Version
<1>2. \A k \in RowKey : source[k] > 0 => <<k, source[k]>> \in Version
  BY ImportAssumption DEF ImportsShaped, Version
<1>3. Version # {}
  <2>1. PICK k \in RowKey : TRUE
    BY ImportAssumption
  <2>2. <<k, 1>> \in Version
    BY ImportAssumption DEF Version
  <2> QED BY <2>2
<1>4. \A S \in SUBSET Version : IsFiniteSet(S)
  <2>1. IsFiniteSet(1..MaxCursor)
    BY ImportAssumption, FS_Interval
  <2>2. IsFiniteSet(Version)
    BY <2>1, ImportAssumption, FS_Product DEF Version
  <2> QED BY <2>2, FS_Subset
<1>5. Cardinality(Importer) \in Nat
  BY ImportAssumption, FS_CardinalityType
<1>6. /\ Dataset \subseteq Nat /\ 0 \notin Dataset /\ IsFiniteSet(Dataset)
      /\ Cardinality(Dataset) = MaxStops + Cardinality(Importer) + 1
  <2>1. MaxStops + Cardinality(Importer) + 1 \in Nat \ {0}
    BY <1>5, ImportAssumption
  <2>2. IsFiniteSet(Dataset) /\ Cardinality(Dataset) = MaxStops + Cardinality(Importer) + 1
    BY <2>1, FS_Interval DEF Dataset
  <2> QED BY <2>1, <2>2 DEF Dataset
<1>7. ASSUME NEW q \in Importer PROVE Cardinality(Importer) # 0
  BY ImportAssumption, FS_EmptySet
<1>8. ASSUME NEW q \in Importer PROVE Cardinality(Dataset) >= MaxStops + 2
  BY <1>5, <1>6, <1>7, ImportAssumption
<1> QED BY <1>1, <1>2, <1>3, <1>4, <1>6, <1>8

\* No row of the source is newer than the newest.
LEMMA NewestIsNewest ==
    ASSUME ImportsShaped
    PROVE  Newest \in 0..MaxCursor /\ \A k \in RowKey : source[k] <= Newest
<1> DEFINE S == {source[k] : k \in RowKey}
<1>1. S \in SUBSET (0..MaxCursor) /\ S # {}
  BY ImportAssumption DEF ImportsShaped
<1>2. Max(S) \in S /\ \A s \in S : s <= Max(S)
  BY <1>1, GreatestOf
<1> QED BY <1>1, <1>2 DEF Newest

\* The watermark of a batch is the newest cursor in it.
LEMMA TopIsNewest ==
    ASSUME NEW rows \in SUBSET Version, rows # {}
    PROVE  /\ TopOf(rows) \in 1..MaxCursor
           /\ \A v \in rows : v[2] <= TopOf(rows)
           /\ \E v \in rows : v[2] = TopOf(rows)
<1> DEFINE S == {v[2] : v \in rows}
<1>1. \A v \in rows : v[2] \in 1..MaxCursor
  BY DEF Version
<1>2. S \in SUBSET (0..MaxCursor) /\ S # {}
  BY <1>1, ImportAssumption
<1>3. Max(S) \in S /\ \A s \in S : s <= Max(S)
  BY <1>2, GreatestOf
<1> QED BY <1>1, <1>3 DEF TopOf

\* One run's row is replaced.
LEMMA OneRunner ==
    ASSUME ImportsShaped, NEW q \in Importer, NEW row \in RunnerStates,
           runner' = [runner EXCEPT ![q] = row]
    PROVE  /\ runner' \in [Importer -> RunnerStates]
           /\ runner'[q] = row
           /\ \A p \in Importer : p # q => runner'[p] = runner[p]
  BY DEF ImportsShaped

\* A resting run is one that a runner's row can show.
LEMMA RestingShape == RunnerRests \in RunnerStates
<1>1. {} \in SUBSET Version /\ NoRows \in [Version -> Nat] /\ 0 \in 0..MaxCursor
  BY ImportAssumption DEF NoRows
<1> QED BY <1>1 DEF RunnerRests, RunnerStates, Mode

\* What each step makes of the run in hand.
LEMMA StartEffect ==
    ASSUME ImportsShaped, NEW q \in Importer, StartImport(q)
    PROVE  /\ runner' \in [Importer -> RunnerStates]
           /\ runner'[q].at = "reading" /\ runner'[q].mode = job.mode
           /\ runner'[q].mark = job.mark /\ runner'[q].target = job.target
           /\ runner'[q].rows = {}
           /\ \A p \in Importer : p # q => runner'[p] = runner[p]
<1> DEFINE row == [RunnerRests EXCEPT !.at = "reading", !.mode = job.mode, !.mark = job.mark,
                                      !.target = job.target]
<1>1. job.mode \in Mode /\ job.mark \in 0..MaxCursor /\ job.target \in Dataset \cup {0}
  BY DEF ImportsShaped
<1>2. row \in RunnerStates
  BY <1>1, RestingShape DEF RunnerStates, EarlyPoint
<1>3. runner' = [runner EXCEPT ![q] = row]
  BY DEF StartImport
<1>4. /\ row.at = "reading" /\ row.mode = job.mode /\ row.mark = job.mark
      /\ row.target = job.target /\ row.rows = {}
  BY DEF RunnerRests
<1> HIDE DEF row
<1> QED BY <1>2, <1>3, <1>4, OneRunner

\* A read puts a batch of the rows in hand, no more of them than are allowed.
LEMMA ReadEffect ==
    ASSUME ImportsShaped, NEW q \in Importer, ReadSource(q)
    PROVE  /\ runner' \in [Importer -> RunnerStates]
           /\ runner'[q].at = "combining" /\ runner'[q].mode = runner[q].mode
           /\ runner'[q].mark = runner[q].mark /\ runner'[q].target = runner[q].target
           /\ runner'[q].rows \subseteq Present
           /\ Cardinality(runner'[q].rows) <= MaxRows
           /\ runner[q].mode # "full_refresh" =>
                runner'[q].rows \in ReadBatches(PastTheMark(runner[q].mark))
           /\ \A p \in Importer : p # q => runner'[p] = runner[p]
<1>1. runner[q] \in RunnerStates
  BY DEF ImportsShaped
<1>2. PICK batch \in IF runner[q].mode = "full_refresh"
                     THEN {b \in SUBSET Present :
                               Cardinality(b) = Min({MaxRows, Cardinality(Present)})}
                     ELSE ReadBatches(PastTheMark(runner[q].mark)) :
        runner' = [runner EXCEPT ![q].at = "combining", ![q].rows = batch]
  BY DEF ReadSource
<1>3. \E S \in SUBSET Present : batch \subseteq S /\ Cardinality(batch) = Min({MaxRows, Cardinality(S)})
  <2>1. CASE runner[q].mode = "full_refresh"
    BY <1>2, <2>1
  <2>2. CASE runner[q].mode # "full_refresh"
    <3>1. batch \in SUBSET PastTheMark(runner[q].mark)
          /\ Cardinality(batch) = Min({MaxRows, Cardinality(PastTheMark(runner[q].mark))})
      BY <1>2, <2>2 DEF ReadBatches
    <3> QED BY <3>1 DEF PastTheMark
  <2> QED BY <2>1, <2>2
<1>4. PICK S \in SUBSET Present : batch \subseteq S /\ Cardinality(batch) = Min({MaxRows, Cardinality(S)})
  BY <1>3
<1>5. S \in SUBSET Version /\ batch \in SUBSET Version
  BY <1>4 DEF Present
<1>6. Cardinality(S) \in Nat
  BY <1>5, ImportSets, FS_CardinalityType
<1>7. Cardinality(batch) <= MaxRows
  BY <1>4, <1>6, ImportAssumption, LeastOf
<1> DEFINE row == [runner[q] EXCEPT !.at = "combining", !.rows = batch]
<1>8. row \in RunnerStates
  BY <1>1, <1>5 DEF RunnerStates, EarlyPoint
<1>9. runner' = [runner EXCEPT ![q] = row]
  BY <1>1, <1>2 DEF ImportsShaped
<1>10. /\ row.at = "combining" /\ row.mode = runner[q].mode /\ row.mark = runner[q].mark
       /\ row.target = runner[q].target /\ row.rows = batch
  BY <1>1 DEF RunnerStates
<1> HIDE DEF row
<1>11. runner'[q] = row /\ runner' \in [Importer -> RunnerStates]
       /\ \A p \in Importer : p # q => runner'[p] = runner[p]
  BY <1>8, <1>9, OneRunner
<1>12. runner[q].mode # "full_refresh" => batch \in ReadBatches(PastTheMark(runner[q].mark))
  BY <1>2
<1> QED BY <1>4, <1>7, <1>10, <1>11, <1>12

\* What is combined is what the dataset holds, with the rows in hand.
LEMMA CombineEffect ==
    ASSUME ImportsShaped, ReadsFail = FALSE, NEW q \in Importer, Combine(q)
    PROVE  /\ runner' \in [Importer -> RunnerStates]
           /\ runner'[q].at = "publishing" /\ runner'[q].mode = runner[q].mode
           /\ runner'[q].mark = runner[q].mark /\ runner'[q].target = runner[q].target
           /\ runner'[q].rows = runner[q].rows
           /\ \E existing \in [Version -> Nat] :
                /\ \A v \in Version : existing[v] = Copies(runner[q].target, v)
                /\ Exists(runner[q].target) => existing = data[runner[q].target]
                /\ runner'[q].table = Merged(runner[q].mode, existing, runner[q].rows)
           /\ \A p \in Importer : p # q => runner'[p] = runner[p]
<1>1. runner[q] \in RunnerStates
  BY DEF ImportsShaped
<1>2. PICK existing \in Existing(runner[q].target) :
        runner' = [runner EXCEPT ![q].at = "publishing",
                     ![q].table = Merged(runner[q].mode, existing, runner[q].rows)]
  BY DEF Combine
<1>3. existing = IF Exists(runner[q].target) THEN data[runner[q].target] ELSE NoRows
  BY <1>2 DEF Existing
<1>4. runner[q].target \in Dataset \cup {0}
  BY <1>1 DEF RunnerStates
<1>5. existing \in [Version -> Nat] /\ \A v \in Version : existing[v] = Copies(runner[q].target, v)
  BY <1>3, <1>4 DEF ImportsShaped, Exists, NoRows, Copies
<1> DEFINE made == Merged(runner[q].mode, existing, runner[q].rows)
           row == [runner[q] EXCEPT !.at = "publishing", !.table = made]
<1>6. made \in [Version -> Nat]
  BY <1>5 DEF Merged
<1> HIDE DEF made
<1>7. row \in RunnerStates
  BY <1>1, <1>6 DEF RunnerStates, LatePoint
<1>8. runner' = [runner EXCEPT ![q] = row]
  BY <1>1, <1>2 DEF ImportsShaped, made
<1>9. /\ row.at = "publishing" /\ row.mode = runner[q].mode /\ row.mark = runner[q].mark
      /\ row.target = runner[q].target /\ row.rows = runner[q].rows /\ row.table = made
  BY <1>1 DEF RunnerStates
<1> HIDE DEF row
<1>10. runner'[q] = row /\ runner' \in [Importer -> RunnerStates]
       /\ \A p \in Importer : p # q => runner'[p] = runner[p]
  BY <1>7, <1>8, OneRunner
<1> QED BY <1>3, <1>5, <1>9, <1>10 DEF made


\* There is always a dataset number left for a run that needs a new one.
LEMMA FreshIsLeft ==
    ASSUME ImportsShaped, OneImports, TargetsSuit, OrphansPaid,
           NEW q \in Importer, RunnerAt(q, "publishing")
    PROVE  \E d \in Dataset : /\ data[d] = Gone /\ d # job.target
                              /\ \A p \in Importer : runner[p].target # d
<1> DEFINE Left(d) == /\ data[d] = Gone /\ d # job.target
                      /\ \A p \in Importer : runner[p].target # d
<1>1. SUFFICES ASSUME \A d \in Dataset : ~Left(d) PROVE FALSE
  OBVIOUS
<1>2. \A p \in Importer : p # q => runner[p].target = 0
  <2>1. RunnerRests.target = 0
    BY DEF RunnerRests
  <2>2. \A p \in Importer : p # q => RunnerAt(p, "idle")
    BY DEF OneImports, RunnerAt
  <2> QED BY <2>1, <2>2 DEF OneImports
<1>3. job.target = runner[q].target \/ job.target = 0
  BY DEF TargetsSuit, RunnerAt
<1>4. 0 \notin Dataset /\ IsFiniteSet(Dataset) /\ Cardinality(Dataset) >= MaxStops + 2
  BY ImportSets
<1>5. Dataset \subseteq Orphans \cup {runner[q].target}
  <2>1. SUFFICES ASSUME NEW d \in Dataset, d # runner[q].target PROVE d \in Orphans
    OBVIOUS
  <2>2. d # 0 /\ d # job.target /\ \A p \in Importer : runner[p].target # d
    BY <1>2, <1>3, <1>4, <2>1
  <2>3. data[d] # Gone
    BY <1>1, <2>2
  <2> QED BY <2>2, <2>3 DEF Orphans, Exists
<1>6. IsFiniteSet(Orphans) /\ Cardinality(Orphans) \in Nat
  BY <1>4, FS_Subset, FS_CardinalityType DEF Orphans
<1>7. /\ IsFiniteSet(Orphans \cup {runner[q].target})
      /\ Cardinality(Orphans \cup {runner[q].target}) <= Cardinality(Orphans) + 1
  <2>1. /\ IsFiniteSet(Orphans \cup {runner[q].target})
        /\ Cardinality(Orphans \cup {runner[q].target})
             = IF runner[q].target \in Orphans THEN Cardinality(Orphans) ELSE Cardinality(Orphans) + 1
    BY <1>6, FS_AddElement
  <2> QED BY <1>6, <2>1
<1>8. Cardinality(Dataset) <= Cardinality(Orphans \cup {runner[q].target})
  BY <1>5, <1>7, FS_Subset
<1>9. Cardinality(Dataset) \in Nat /\ Cardinality(Orphans \cup {runner[q].target}) \in Nat
  BY <1>4, <1>7, FS_CardinalityType
<1>10. Cardinality(Orphans) <= stops /\ stops <= MaxStops /\ stops \in Nat /\ MaxStops \in Nat
  BY ImportAssumption DEF OrphansPaid, ImportsShaped
<1> QED BY <1>4, <1>6, <1>7, <1>8, <1>9, <1>10

\* What was made is stored in one dataset, and the others keep theirs.
LEMMA PublishEffect ==
    ASSUME ImportsShaped, OneImports, TargetsSuit, OrphansPaid,
           NEW q \in Importer, Publish(q)
    PROVE  \E into \in Dataset :
             /\ Exists(runner[q].target) => into = runner[q].target
             /\ ~Exists(runner[q].target) =>
                  /\ ~Exists(into) /\ into # job.target
                  /\ \A p \in Importer : runner[p].target # into
             /\ data' \in [Dataset -> [Version -> Nat]]
             /\ data'[into] = runner[q].table
             /\ \A d \in Dataset : d # into => data'[d] = data[d]
             /\ runner' \in [Importer -> RunnerStates]
             /\ runner'[q].at = "advancing" /\ runner'[q].mode = runner[q].mode
             /\ runner'[q].mark = runner[q].mark /\ runner'[q].target = into
             /\ runner'[q].rows = runner[q].rows /\ runner'[q].table = runner[q].table
             /\ \A p \in Importer : p # q => runner'[p] = runner[p]
<1> DEFINE fresh == {d \in Dataset : data[d] = Gone /\ d # job.target
                                    /\ \A p \in Importer : runner[p].target # d}
<1>1. runner[q] \in RunnerStates /\ RunnerAt(q, "publishing")
  BY DEF ImportsShaped, Publish
<1>2. PICK into : /\ into = IF Exists(runner[q].target) THEN runner[q].target ELSE Min(fresh)
                  /\ data' = [data EXCEPT ![into] = runner[q].table]
                  /\ runner' = [runner EXCEPT ![q].at = "advancing", ![q].target = into]
  BY DEF Publish
<1>3. fresh # {} /\ fresh \in SUBSET Nat
  BY <1>1, FreshIsLeft, ImportSets
<1>4. Min(fresh) \in fresh
  BY <1>3, LeastOf
<1>5. /\ into \in Dataset
      /\ Exists(runner[q].target) => into = runner[q].target
      /\ ~Exists(runner[q].target) =>
           /\ ~Exists(into) /\ into # job.target
           /\ \A p \in Importer : runner[p].target # into
  <2>1. CASE Exists(runner[q].target)
    BY <1>1, <1>2, <2>1 DEF Exists, RunnerStates
  <2>2. CASE ~Exists(runner[q].target)
    BY <1>2, <1>4, <2>2 DEF Exists
  <2> QED BY <2>1, <2>2
<1>6. runner[q].table \in [Version -> Nat]
  BY <1>1 DEF RunnerStates
<1>7. /\ data' \in [Dataset -> [Version -> Nat]]
      /\ data'[into] = runner[q].table
      /\ \A d \in Dataset : d # into => data'[d] = data[d]
  BY <1>2, <1>5, <1>6 DEF ImportsShaped
<1> DEFINE row == [runner[q] EXCEPT !.at = "advancing", !.target = into]
<1>8. row \in RunnerStates
  BY <1>1, <1>5 DEF RunnerStates, LatePoint
<1>9. runner' = [runner EXCEPT ![q] = row]
  BY <1>1, <1>2 DEF ImportsShaped
<1>10. /\ row.at = "advancing" /\ row.mode = runner[q].mode /\ row.mark = runner[q].mark
       /\ row.target = into /\ row.rows = runner[q].rows /\ row.table = runner[q].table
  BY <1>1 DEF RunnerStates
<1> HIDE DEF row
<1>11. runner'[q] = row /\ runner' \in [Importer -> RunnerStates]
       /\ \A p \in Importer : p # q => runner'[p] = runner[p]
  BY <1>8, <1>9, OneRunner
<1> QED BY <1>5, <1>7, <1>10, <1>11

\* A run that ends or stops leaves nothing in hand.
LEMMA RestEffect ==
    ASSUME ImportsShaped, NEW q \in Importer, runner' = [runner EXCEPT ![q] = RunnerRests]
    PROVE  /\ runner' \in [Importer -> RunnerStates]
           /\ runner'[q] = RunnerRests /\ runner'[q].at = "idle" /\ runner'[q].mark = 0
           /\ runner'[q].target = 0 /\ runner'[q].rows = {}
           /\ \A p \in Importer : p # q => runner'[p] = runner[p]
<1>1. /\ runner' \in [Importer -> RunnerStates] /\ runner'[q] = RunnerRests
      /\ \A p \in Importer : p # q => runner'[p] = runner[p]
  BY RestingShape, OneRunner
<1> QED BY <1>1 DEF RunnerRests

\* The job gets the mark that the rows in hand reach.
LEMMA AdvanceEffect ==
    ASSUME ImportsShaped, NEW q \in Importer, Advance(q)
    PROVE  /\ job' \in [mode : Mode, mark : 0..MaxCursor, target : Dataset \cup {0}]
           /\ job'.mode = job.mode /\ job'.target = runner[q].target
           /\ job'.mark = Reached(q)
           /\ Reached(q) \in 0..MaxCursor
<1>1. job \in [mode : Mode, mark : 0..MaxCursor, target : Dataset \cup {0}]
      /\ runner[q].target \in Dataset \cup {0} /\ runner[q].rows \in SUBSET Version
  BY DEF ImportsShaped, RunnerStates
<1>2. Reached(q) \in 0..MaxCursor
  <2>1. CASE job.mode # "full_refresh" /\ runner[q].rows # {}
    BY <1>1, <2>1, TopIsNewest, ImportAssumption DEF Reached
  <2>2. CASE ~(job.mode # "full_refresh" /\ runner[q].rows # {})
    BY <1>1, <2>2 DEF Reached
  <2> QED BY <2>1, <2>2
<1>3. job' = [job EXCEPT !.target = runner[q].target, !.mark = Reached(q)]
  BY <1>1 DEF Advance, Reached
<1> QED BY <1>1, <1>2, <1>3

\* How often a row may be stored grows with what happens.
LEMMA TimesGrow ==
    ASSUME ImportsShaped, OneImports
    PROVE  /\ Times \in Nat /\ 1 <= Times /\ Times <= MaxStops + 1
           /\ "mode changed" \in happened => 2 <= Times
           /\ \A what \in Upset : Happens(what) =>
                Times' \in Nat /\ Times <= Times' /\ (what # "deleted" => Times + 1 <= Times')
           /\ stops' = stops + 1 /\ happened' = happened =>
                Times' \in Nat /\ Times <= Times'
<1> DEFINE calm == happened \cap {"stopped between", "reset", "mode changed"} = {}
<1>1. stops \in Nat /\ MaxStops \in Nat /\ stops <= MaxStops
  BY ImportAssumption DEF ImportsShaped
<1>2. Times \in Nat /\ 1 <= Times /\ Times <= 1 + stops
  <2>1. calm => Times = 1
    BY DEF Times
  <2>2. ~calm => Times = 1 + stops
    BY DEF Times
  <2> HIDE DEF calm
  <2> QED BY <1>1, <2>1, <2>2
<1>3. "mode changed" \in happened => 2 <= Times
  <2>1. SUFFICES ASSUME "mode changed" \in happened PROVE 2 <= Times
    OBVIOUS
  <2>2. happened # {} /\ ~calm
    BY <2>1
  <2>3. stops > 0
    BY <2>2 DEF OneImports
  <2>4. Times = 1 + stops
    BY <2>2 DEF Times
  <2> QED BY <1>1, <2>3, <2>4
<1>4. ASSUME NEW what \in Upset, Happens(what)
      PROVE  Times' \in Nat /\ Times <= Times' /\ (what # "deleted" => Times + 1 <= Times')
  <2>1. stops' = stops + 1 /\ happened' = happened \cup {what}
    BY <1>4 DEF Happens
  <2>2. CASE happened \cap {"stopped between", "reset", "mode changed"} = {}
    <3>1. Times = 1
      BY <2>2 DEF Times
    <3>2. Times' = 1 \/ Times' = 1 + stops'
      BY DEF Times
    <3>3. what # "deleted" => Times' = 1 + stops'
      BY <2>1 DEF Times, Upset
    <3> QED BY <1>1, <2>1, <3>1, <3>2, <3>3
  <2>3. CASE happened \cap {"stopped between", "reset", "mode changed"} # {}
    <3>1. Times = 1 + stops /\ Times' = 1 + stops'
      BY <2>1, <2>3 DEF Times
    <3> QED BY <1>1, <2>1, <3>1
  <2> QED BY <2>2, <2>3
<1>5. ASSUME stops' = stops + 1, happened' = happened PROVE Times' \in Nat /\ Times <= Times'
  <2>1. calm => Times = 1 /\ Times' = 1
    BY <1>5 DEF Times
  <2>2. ~calm => Times = 1 + stops /\ Times' = 1 + stops'
    BY <1>5 DEF Times
  <2>3. stops' = stops + 1
    BY <1>5
  <2> HIDE DEF calm
  <2> QED BY <1>1, <2>1, <2>2, <2>3
<1>6. Times <= MaxStops + 1
  BY <1>1, <1>2
<1> HIDE DEF calm
<1> QED BY <1>2, <1>3, <1>4, <1>5, <1>6

\* The source keeps to its side: what is written is newer than all that has been read.
LEMMA SourceStep ==
    ASSUME ImportsInv, CursorsTie = FALSE, RowsComeLate = FALSE,
           NEW k \in RowKey, NEW cursor \in 1..MaxCursor, SourceWrites(k, cursor)
    PROVE  ImportsInv'
<1>1. /\ ImportsShaped /\ RowsInHand
      /\ UNCHANGED <<job, data, runner, stops, happened>>
  BY DEF ImportsInv, SourceWrites
<1>2. /\ \A j \in RowKey : source[j] \in 0..MaxCursor
      /\ job.mark \in 0..MaxCursor
      /\ \A q \in Importer : runner[q].mark \in 0..MaxCursor /\ runner[q].rows \in SUBSET Version
  BY <1>1 DEF ImportsShaped, RunnerStates
<1>3. cursor = Newest + 1 /\ source' = [source EXCEPT ![k] = cursor] /\ cursor \in Nat
  BY ImportAssumption DEF SourceWrites
<1>4. \A j \in RowKey : source[j] < cursor
  BY <1>1, <1>2, <1>3, NewestIsNewest
<1>5. /\ source' \in [RowKey -> 0..MaxCursor]
      /\ source'[k] = cursor
      /\ \A j \in RowKey : j # k => source'[j] = source[j]
      /\ \A j \in RowKey : source[j] <= source'[j]
  BY <1>1, <1>2, <1>3, <1>4 DEF ImportsShaped
<1>6. ASSUME NEW mark \in 0..MaxCursor, Come(mark) PROVE Come(mark)' /\ mark < cursor
  <2>1. CASE mark = 0
    BY <2>1 DEF Come
  <2>2. ASSUME NEW j \in RowKey, mark <= source[j] PROVE Come(mark)' /\ mark < cursor
    <3>1. mark <= source'[j]
      BY <1>2, <1>5, <2>2
    <3>2. mark < cursor
      BY <1>2, <1>3, <1>4, <2>2
    <3> QED BY <3>1, <3>2 DEF Come
  <2> QED BY <1>6, <2>1, <2>2 DEF Come
<1>7. /\ Come(job.mark) /\ Come(job.mark)' /\ job.mark < cursor
      /\ \A q \in Importer : Come(runner[q].mark)' /\ runner[q].mark < cursor
  BY <1>1, <1>2, <1>6 DEF RowsInHand, Come
<1>8. \A q \in Importer : \A v \in runner[q].rows :
          v[1] \in RowKey /\ v[2] \in Nat /\ v[2] < cursor /\ v[2] <= source'[v[1]]
  <2>1. SUFFICES ASSUME NEW q \in Importer, NEW v \in runner[q].rows
                 PROVE  v[1] \in RowKey /\ v[2] \in Nat /\ v[2] < cursor /\ v[2] <= source'[v[1]]
    OBVIOUS
  <2>2. v[1] \in RowKey /\ v[2] \in 1..MaxCursor /\ v[2] <= source[v[1]]
    BY <1>1, <1>2, <2>1, ImportSets DEF RowsInHand
  <2> QED BY <1>2, <1>3, <1>4, <1>5, <2>2
<1>9. RowsInHand'
  <2>1. \A i, j \in RowKey : source'[i] = source'[j] /\ source'[i] # 0 => i = j
    <3>1. SUFFICES ASSUME NEW i \in RowKey, NEW j \in RowKey, source'[i] = source'[j],
                          source'[i] # 0
                   PROVE  i = j
      OBVIOUS
    <3>2. CASE i = k \/ j = k
      BY <1>2, <1>3, <1>4, <1>5, <3>1, <3>2
    <3>3. CASE i # k /\ j # k
      BY <1>1, <1>5, <3>1, <3>3 DEF RowsInHand
    <3> QED BY <3>2, <3>3
  <2>2. Come(job.mark)' /\ \A q \in Importer : Come(runner[q].mark)'
    BY <1>7
  <2> QED BY <1>1, <1>8, <2>1, <2>2 DEF RowsInHand
<1>10. NoneSkipped'
  <2>1. SUFFICES ASSUME happened \cap {"mode changed", "deleted"} = {} PROVE NoneSkipped'
    BY <1>1 DEF NoneSkipped
  <2>2. ~ (cursor <= job.mark)
    BY <1>2, <1>3, <1>7
  <2>3. ASSUME NEW q \in Importer
        PROVE  ~ (cursor <= runner[q].mark) /\ \A v \in runner[q].rows : ~ (cursor <= v[2])
    BY <1>2, <1>3, <1>7, <1>8, <2>3
  <2>4. ASSUME NEW q \in Importer, NEW j \in RowKey
        PROVE  IF j = k THEN ~Behind(q, j)' ELSE Behind(q, j)' = Behind(q, j)
    BY <1>1, <1>5, <2>3, <2>4 DEF Behind
  <2>5. \A d : (Exists(d)' = Exists(d)) /\ (\A v : Copies(d, v)' = Copies(d, v))
    BY <1>1 DEF Copies, Exists
  <2>6. \A j \in RowKey : 0 < source'[j] /\ source'[j] <= job'.mark =>
            Copies(job.target, <<j, source'[j]>>) > 0
    <3>1. SUFFICES ASSUME NEW j \in RowKey, 0 < source'[j], source'[j] <= job'.mark
                   PROVE  Copies(job.target, <<j, source'[j]>>) > 0
      OBVIOUS
    <3>2. j # k /\ source'[j] = source[j]
      BY <1>1, <1>5, <2>2, <3>1
    <3> QED BY <1>1, <2>1, <2>5, <3>1, <3>2 DEF ImportsInv, NoneSkipped
  <2>7. ASSUME NEW q \in Importer, ~RunnerAt(q, "idle")
        PROVE  /\ job.mark <= runner[q].mark
               /\ RunnerAt(q, "advancing") => Exists(runner[q].target)
               /\ runner[q].at \in EarlyPoint =>
                    \A j \in RowKey : 0 < source'[j] /\ source'[j] <= runner[q].mark =>
                        Copies(runner[q].target, <<j, source'[j]>>) > 0
               /\ RunnerAt(q, "combining") =>
                    \A j \in RowKey : runner[q].mark < source'[j] /\ Behind(q, j)' =>
                        <<j, source'[j]>> \in runner[q].rows
               /\ runner[q].at \in LatePoint =>
                    \A j \in RowKey : 0 < source'[j] /\ Behind(q, j)' =>
                        runner[q].table[<<j, source'[j]>>] > 0
    BY <1>5, <2>1, <2>3, <2>4, <2>7 DEF ImportsInv, NoneSkipped
  <2> QED
    BY <1>1, <2>1, <2>5, <2>6, <2>7 DEF ImportsInv, NoneSkipped, RunnerAt
<1>11. ImportsShaped' /\ OneImports'
  BY <1>1, <1>5 DEF ImportsInv, ImportsShaped, OneImports, RunnerAt
<1>12. TargetsSuit' /\ OrphansPaid' /\ KeysKept'
  BY <1>1 DEF ImportsInv, TargetsSuit, OrphansPaid, KeysKept, Orphans, RunnerAt, Exists, OfOneKey
<1>13. TimesKept'
  <2>1. Times' = Times
    BY <1>1 DEF Times
  <2>2. \A d, v : Copies(d, v)' = Copies(d, v)
    BY <1>1 DEF Copies, Exists
  <2>3. \A q : (Reached(q)' = Reached(q)) /\ (Changed(q)' = Changed(q))
    BY <1>1 DEF Reached, Changed
  <2> QED BY <1>1, <2>1, <2>2, <2>3 DEF ImportsInv, TimesKept, RunnerAt
<1> QED BY <1>9, <1>10, <1>11, <1>12, <1>13 DEF ImportsInv

\* Beside a run that is on, nothing is in anybody's hand.
LEMMA OthersRest ==
    ASSUME ImportsShaped, OneImports, NEW q \in Importer, ~RunnerAt(q, "idle")
    PROVE  \A p \in Importer : p # q =>
             /\ runner[p] = RunnerRests /\ runner[p].at = "idle"
             /\ runner[p].mark = 0 /\ runner[p].target = 0 /\ runner[p].rows = {}
<1>1. \A p \in Importer : p # q => RunnerAt(p, "idle")
  BY DEF OneImports
<1>2. \A p \in Importer : p # q => runner[p] = RunnerRests
  BY <1>1 DEF OneImports
<1> QED BY <1>2 DEF RunnerRests

\* The points of a run are different ones.
LEMMA PointsDiffer ==
    /\ "idle" \notin EarlyPoint \cup LatePoint /\ EarlyPoint \cap LatePoint = {}
    /\ "reading" \in EarlyPoint /\ "combining" \in EarlyPoint
    /\ "publishing" \in LatePoint /\ "advancing" \in LatePoint
    /\ \A at \in EarlyPoint : at = "reading" \/ at = "combining"
    /\ \A at \in LatePoint : at = "publishing" \/ at = "advancing"
  BY DEF EarlyPoint, LatePoint

\* How often a row is stored, and whether it is still to be read, are numbers.
LEMMA CountsAreNumbers ==
    ASSUME ImportsShaped
    PROVE  /\ \A d \in Dataset \cup {0}, v \in Version : Copies(d, v) \in Nat
           /\ \A mark \in 0..MaxCursor, v \in Version : Unread(mark, v) \in {0, 1}
           /\ \A q : Changed(q) \in {0, 1}
<1>1. \A d \in Dataset \cup {0}, v \in Version : Copies(d, v) \in Nat
  BY DEF ImportsShaped, Copies, Exists
<1>2. \A mark \in 0..MaxCursor, v \in Version : Unread(mark, v) \in {0, 1}
  BY DEF Unread
<1>3. \A q : Changed(q) \in {0, 1}
  BY DEF Changed
<1> QED BY <1>1, <1>2, <1>3

\* The run that is on goes on, in the mode it has.
LEMMA GoesOn ==
    ASSUME OneImports, NEW q \in Importer, ~RunnerAt(q, "idle"),
           runner'[q].at # "idle", runner'[q].mode = runner[q].mode,
           \A p \in Importer : p # q => runner'[p] = runner[p],
           UNCHANGED <<job, stops, happened>>
    PROVE  OneImports'
<1>1. \A p \in Importer : p # q => runner'[p].at = "idle" /\ runner'[p] = RunnerRests
  BY DEF OneImports, RunnerAt
<1>2. \A p, r \in Importer : RunnerAt(p, "idle")' \/ RunnerAt(r, "idle")' \/ p = r
  BY <1>1 DEF RunnerAt
<1>3. \A p \in Importer : RunnerAt(p, "idle")' => runner'[p] = RunnerRests
  BY <1>1 DEF RunnerAt
<1>4. (happened' # {} => stops' > 0) /\ (job'.mode = "full_refresh" => "mode changed" \in happened')
  BY DEF OneImports
<1>5. \A p \in Importer : ~RunnerAt(p, "idle")' /\ runner'[p].mode # job'.mode =>
          "mode changed" \in happened'
  BY <1>1 DEF OneImports, RunnerAt
<1> QED BY <1>2, <1>3, <1>4, <1>5 DEF OneImports

\* The run that was on is over.
LEMMA NobodyRuns ==
    ASSUME OneImports, NEW q \in Importer, ~RunnerAt(q, "idle"),
           runner'[q] = RunnerRests,
           \A p \in Importer : p # q => runner'[p] = runner[p],
           job'.mode = job.mode, happened \subseteq happened', happened' # {} => stops' > 0
    PROVE  /\ \A p \in Importer : /\ runner'[p] = RunnerRests /\ runner'[p].at = "idle"
                                   /\ runner'[p].mark = 0 /\ runner'[p].target = 0
                                   /\ runner'[p].rows = {}
           /\ OneImports' /\ TargetsSuit'
<1>1. \A p \in Importer : runner'[p] = RunnerRests
  BY DEF OneImports
<1>2. \A p \in Importer : /\ runner'[p].at = "idle" /\ runner'[p].mark = 0
                          /\ runner'[p].target = 0 /\ runner'[p].rows = {}
  BY <1>1 DEF RunnerRests
<1>3. job'.mode = "full_refresh" => "mode changed" \in happened'
  BY DEF OneImports
<1>4. OneImports'
  BY <1>1, <1>2, <1>3 DEF OneImports, RunnerAt
<1>5. TargetsSuit'
  BY <1>2 DEF TargetsSuit, RunnerAt
<1> QED BY <1>1, <1>2, <1>4, <1>5

\* Datasets that nobody refers to become no more.
LEMMA NoMoreOrphans ==
    ASSUME ImportsShaped, OrphansPaid, Orphans' \subseteq Orphans, stops' = stops \/ stops' = stops + 1
    PROVE  OrphansPaid'
<1>1. IsFiniteSet(Orphans)
  BY ImportSets, FS_Subset DEF Orphans
<1>2. Cardinality(Orphans') <= Cardinality(Orphans) /\ Cardinality(Orphans) \in Nat
      /\ Cardinality(Orphans') \in Nat
  BY <1>1, FS_Subset, FS_CardinalityType
<1> QED BY <1>2 DEF OrphansPaid, ImportsShaped

\* A run that begins knows what the job knows.
LEMMA StartStep ==
    ASSUME ImportsInv, RunsOverlap = FALSE, NEW q \in Importer, StartImport(q)
    PROVE  ImportsInv'
<1>1. /\ ImportsShaped /\ OneImports /\ RowsInHand /\ OrphansPaid /\ TimesKept /\ KeysKept
      /\ NoneSkipped
      /\ UNCHANGED <<source, job, data, stops, happened>>
  BY DEF ImportsInv, StartImport
<1>2. \A p \in Importer : runner[p] = RunnerRests /\ runner[p].at = "idle" /\ runner[p].mark = 0
                          /\ runner[p].target = 0 /\ runner[p].rows = {}
  <2>1. \A p \in Importer : RunnerAt(p, "idle")
    BY DEF StartImport
  <2>2. \A p \in Importer : runner[p] = RunnerRests
    BY <1>1, <2>1 DEF OneImports
  <2> QED BY <2>2 DEF RunnerRests
<1>3. /\ runner' \in [Importer -> RunnerStates]
      /\ runner'[q].at = "reading" /\ runner'[q].mode = job.mode
      /\ runner'[q].mark = job.mark /\ runner'[q].target = job.target
      /\ runner'[q].rows = {}
      /\ \A p \in Importer : p # q => runner'[p] = runner[p]
  BY <1>1, StartEffect
<1>4. Times' = Times /\ \A d, v : Copies(d, v)' = Copies(d, v)
  BY <1>1 DEF Times, Copies, Exists
<1>5. ImportsShaped'
  BY <1>1, <1>3 DEF ImportsShaped
<1>6. OneImports'
  <2>1. \A p \in Importer : p # q => runner'[p].at = "idle" /\ runner'[p] = RunnerRests
    BY <1>2, <1>3
  <2>2. \A p, r \in Importer : RunnerAt(p, "idle")' \/ RunnerAt(r, "idle")' \/ p = r
    BY <2>1 DEF RunnerAt
  <2>3. \A p \in Importer : RunnerAt(p, "idle")' => runner'[p] = RunnerRests
    BY <1>3, <2>1 DEF RunnerAt
  <2>4. (happened' # {} => stops' > 0) /\ (job'.mode = "full_refresh" => "mode changed" \in happened')
    BY <1>1 DEF OneImports
  <2>5. \A p \in Importer : ~RunnerAt(p, "idle")' /\ runner'[p].mode # job'.mode =>
            "mode changed" \in happened'
    BY <1>1, <1>3, <2>1 DEF RunnerAt
  <2> QED BY <2>2, <2>3, <2>4, <2>5 DEF OneImports
<1>7. RowsInHand'
  <2>1. Cardinality({}) = 0 /\ 0 <= MaxRows
    BY FS_EmptySet, ImportAssumption
  <2>2. \A mark : Come(mark)' = Come(mark)
    BY <1>1 DEF Come
  <2>3. \A p \in Importer : Come(runner'[p].mark) /\ Cardinality(runner'[p].rows) <= MaxRows
                            /\ runner'[p].rows = {}
    BY <1>1, <1>2, <1>3, <2>1 DEF RowsInHand
  <2>4. Come(job.mark)' /\ \A p \in Importer : Come(runner[p].mark)'
    BY <1>1, <2>3 DEF RowsInHand, Come
  <2> QED BY <1>1, <2>3, <2>4 DEF RowsInHand
<1>8. TargetsSuit'
  BY <1>1, <1>2, <1>3 DEF TargetsSuit, RunnerAt
<1>9. OrphansPaid'
  <2>1. 0 \notin Dataset /\ IsFiniteSet(Dataset)
    BY <1>1, ImportSets
  <2>2. Orphans' \subseteq Orphans
    BY <1>1, <1>2, <1>3, <2>1 DEF Orphans, Exists
  <2> QED BY <1>1, <2>2, NoMoreOrphans
<1>10. TimesKept'
  <2>1. \A p \in Importer : ~RunnerAt(p, "advancing")
    BY <1>2 DEF RunnerAt
  <2>2. Changed(q)' = 0
    BY <1>1, <1>3 DEF Changed
  <2>3. ASSUME NEW v \in Version
        PROVE  Copies(job.target, v) + Unread(job.mark, v) + 0 <= Times
    <3>1. Copies(job.target, v) + Unread(job.mark, v) <= Times
      BY <1>1, <2>1, <2>3 DEF TimesKept
    <3>2. Copies(job.target, v) \in Nat /\ Unread(job.mark, v) \in {0, 1}
      BY <1>1, <2>3, CountsAreNumbers DEF ImportsShaped
    <3> QED BY <3>1, <3>2
  <2>4. \A p \in Importer, v \in Version :
          /\ runner'[p].at \in EarlyPoint =>
               Copies(runner'[p].target, v) + Unread(runner'[p].mark, v) + Changed(p)' <= Times
          /\ runner'[p].at \notin LatePoint
    BY <1>2, <1>3, <2>2, <2>3, PointsDiffer
  <2> QED BY <1>1, <1>3, <1>4, <2>1, <2>4 DEF TimesKept, RunnerAt
<1>11. KeysKept'
  <2>1. \A p \in Importer : runner'[p].at \notin LatePoint
    BY <1>2, <1>3, PointsDiffer
  <2> QED BY <1>1, <2>1 DEF KeysKept, Exists, OfOneKey
<1>12. NoneSkipped'
  <2>1. SUFFICES ASSUME happened \cap {"mode changed", "deleted"} = {} PROVE NoneSkipped'
    BY <1>1 DEF NoneSkipped
  <2>2. /\ Exists(job.target) \/ (job.target = 0 /\ job.mark = 0)
        /\ \A k \in RowKey :
               0 < source[k] /\ source[k] <= job.mark => Copies(job.target, <<k, source[k]>>) > 0
    BY <1>1, <2>1 DEF NoneSkipped
  <2>3. job.mark <= job.mark
    BY <1>1 DEF ImportsShaped
  <2>4. Exists(job.target)' = Exists(job.target)
    BY <1>1 DEF Exists
  <2> QED BY <1>1, <1>2, <1>3, <1>4, <2>2, <2>3, <2>4, PointsDiffer DEF NoneSkipped, RunnerAt
<1> QED BY <1>5, <1>6, <1>7, <1>8, <1>9, <1>10, <1>11, <1>12 DEF ImportsInv

\* The batch a run reads leaves no row between its mark and its newest row behind.
LEMMA ReadStep ==
    ASSUME ImportsInv, NEW q \in Importer, ReadSource(q)
    PROVE  ImportsInv'
<1>1. /\ ImportsShaped /\ OneImports /\ RowsInHand /\ TargetsSuit /\ OrphansPaid /\ TimesKept
      /\ KeysKept /\ NoneSkipped
      /\ UNCHANGED <<source, job, data, stops, happened>>
      /\ RunnerAt(q, "reading") /\ ~RunnerAt(q, "idle") /\ runner[q].at = "reading"
  BY DEF ImportsInv, ReadSource, RunnerAt
<1>2. \A p \in Importer : p # q =>
        /\ runner[p] = RunnerRests /\ runner[p].at = "idle"
        /\ runner[p].mark = 0 /\ runner[p].target = 0 /\ runner[p].rows = {}
  BY <1>1, OthersRest
<1>3. /\ runner' \in [Importer -> RunnerStates]
      /\ runner'[q].at = "combining" /\ runner'[q].mode = runner[q].mode
      /\ runner'[q].mark = runner[q].mark /\ runner'[q].target = runner[q].target
      /\ runner'[q].rows \subseteq Present
      /\ Cardinality(runner'[q].rows) <= MaxRows
      /\ runner[q].mode # "full_refresh" =>
           runner'[q].rows \in ReadBatches(PastTheMark(runner[q].mark))
      /\ \A p \in Importer : p # q => runner'[p] = runner[p]
  BY <1>1, ReadEffect
<1>4. /\ Times' = Times /\ \A d, v : Copies(d, v)' = Copies(d, v)
      /\ \A d : Exists(d)' = Exists(d)
      /\ \A p \in Importer : runner'[p].target = runner[p].target /\ runner'[p].mark = runner[p].mark
      /\ \A p \in Importer : Changed(p)' = Changed(p)
  BY <1>1, <1>3 DEF Times, Copies, Exists, Changed
<1>5. ImportsShaped'
  BY <1>1, <1>3 DEF ImportsShaped
<1>6. OneImports'
  BY <1>1, <1>3, GoesOn
<1>7. RowsInHand'
  <2>1. \A v \in runner'[q].rows : v \in Version /\ v[2] = source[v[1]]
    BY <1>3 DEF Present
  <2>2. runner[q].mode # "full_refresh" => \A v \in runner'[q].rows : runner[q].mark < v[2]
    BY <1>3 DEF ReadBatches, PastTheMark
  <2>3. \A v \in runner'[q].rows :
          /\ v[2] <= source[v[1]]
          /\ runner[q].mode # "full_refresh" => runner[q].mark < v[2]
          /\ \A w \in runner'[q].rows : v[1] = w[1] => v = w
    BY <1>1, <2>1, <2>2, ImportSets
  <2>4. Come(job.mark)' /\ \A p \in Importer : Come(runner[p].mark)'
    BY <1>1, <1>4 DEF RowsInHand, Come
  <2>5. /\ \A j, k \in RowKey : source[j] = source[k] /\ source[j] # 0 => j = k
        /\ \A p \in Importer : Cardinality(runner'[p].rows) <= MaxRows
    BY <1>1, <1>3 DEF RowsInHand
  <2> QED BY <1>1, <1>2, <1>3, <2>3, <2>4, <2>5 DEF RowsInHand
<1>8. TargetsSuit'
  BY <1>1, <1>2, <1>3, <1>4 DEF TargetsSuit, RunnerAt
<1>9. OrphansPaid'
  <2>1. Orphans' \subseteq Orphans
    BY <1>1, <1>4 DEF Orphans
  <2> QED BY <1>1, <2>1, NoMoreOrphans
<1>10. TimesKept'
  <2>1. \A p \in Importer : ~RunnerAt(p, "advancing")
    BY <1>1, <1>2 DEF RunnerAt
  <2>2. ASSUME NEW v \in Version
        PROVE  Copies(runner[q].target, v) + Unread(runner[q].mark, v) + Changed(q) <= Times
    BY <1>1, <2>2, PointsDiffer DEF TimesKept
  <2>3. \A p \in Importer, v \in Version :
          /\ runner'[p].at \in EarlyPoint =>
               Copies(runner'[p].target, v) + Unread(runner'[p].mark, v) + Changed(p)' <= Times
          /\ runner'[p].at \notin LatePoint
    BY <1>2, <1>3, <1>4, <2>2, PointsDiffer
  <2> QED BY <1>1, <1>3, <1>4, <2>1, <2>3 DEF TimesKept, RunnerAt
<1>11. KeysKept'
  <2>1. \A p \in Importer : runner'[p].at \notin LatePoint
    BY <1>2, <1>3, PointsDiffer
  <2> QED BY <1>1, <1>4, <2>1 DEF KeysKept, OfOneKey
<1>12. NoneSkipped'
  <2>1. SUFFICES ASSUME happened \cap {"mode changed", "deleted"} = {} PROVE NoneSkipped'
    BY <1>1 DEF NoneSkipped
  <2>2. /\ Exists(job.target) \/ (job.target = 0 /\ job.mark = 0)
        /\ \A k \in RowKey :
               0 < source[k] /\ source[k] <= job.mark => Copies(job.target, <<k, source[k]>>) > 0
        /\ job.mark <= runner[q].mark
        /\ \A k \in RowKey : 0 < source[k] /\ source[k] <= runner[q].mark =>
               Copies(runner[q].target, <<k, source[k]>>) > 0
    BY <1>1, <2>1, PointsDiffer DEF NoneSkipped
  <2>3. ASSUME NEW k \in RowKey, runner[q].mark < source[k], Behind(q, k)'
        PROVE  <<k, source[k]>> \in runner'[q].rows
    <3>1. "mode changed" \notin happened
      BY <2>1
    <3>2. runner[q].mode # "full_refresh"
      BY <1>1, <3>1 DEF OneImports
    <3>3. /\ runner'[q].rows \subseteq PastTheMark(runner[q].mark)
          /\ \A in \in runner'[q].rows, out \in PastTheMark(runner[q].mark) \ runner'[q].rows :
               in[2] <= out[2]
      BY <1>3, <3>2 DEF ReadBatches
    <3>4. source[k] \in 0..MaxCursor /\ runner[q].mark \in 0..MaxCursor
      BY <1>1 DEF ImportsShaped, RunnerStates
    <3>5. <<k, source[k]>> \in PastTheMark(runner[q].mark)
      BY <1>1, <2>3, <3>4, ImportSets DEF PastTheMark, Present
    <3>6. PICK v \in runner'[q].rows : source[k] <= v[2]
      BY <1>1, <1>3, <2>3, <3>4 DEF Behind
    <3>7. v \in Version /\ v[1] \in RowKey /\ v[2] \in 1..MaxCursor /\ v[2] = source[v[1]]
          /\ v = <<v[1], v[2]>>
      BY <1>1, <1>3, <3>6, ImportSets DEF Present
    <3>8. SUFFICES ASSUME <<k, source[k]>> \notin runner'[q].rows PROVE FALSE
      OBVIOUS
    <3>9. v[2] <= source[k]
      BY <3>3, <3>5, <3>6, <3>8
    <3>10. v[2] = source[k] /\ source[k] # 0
      BY <3>4, <3>6, <3>7, <3>9
    <3>11. v[1] = k
      BY <1>1, <3>7, <3>10 DEF RowsInHand
    <3> QED BY <3>6, <3>7, <3>8, <3>10, <3>11
  <2>4. ASSUME NEW p \in Importer, ~RunnerAt(p, "idle")' PROVE p = q
    BY <1>2, <1>3, <2>4 DEF RunnerAt
  <2>5. runner'[q].at # "advancing" /\ runner'[q].at \notin LatePoint
    BY <1>3, PointsDiffer
  <2> QED BY <1>1, <1>3, <1>4, <2>2, <2>3, <2>4, <2>5 DEF NoneSkipped, RunnerAt
<1> QED BY <1>5, <1>6, <1>7, <1>8, <1>9, <1>10, <1>11, <1>12 DEF ImportsInv

\* What a run made has every row once more than the dataset at most, and that once is
\* of a row past its mark.
LEMMA CombineStep ==
    ASSUME ImportsInv, ReadsFail = FALSE, NEW q \in Importer, Combine(q)
    PROVE  ImportsInv'
<1>1. /\ ImportsShaped /\ OneImports /\ RowsInHand /\ TargetsSuit /\ OrphansPaid /\ TimesKept
      /\ KeysKept /\ NoneSkipped
      /\ UNCHANGED <<source, job, data, stops, happened>>
      /\ RunnerAt(q, "combining") /\ ~RunnerAt(q, "idle") /\ runner[q].at = "combining"
  BY DEF ImportsInv, Combine, RunnerAt
<1>2. \A p \in Importer : p # q =>
        /\ runner[p] = RunnerRests /\ runner[p].at = "idle"
        /\ runner[p].mark = 0 /\ runner[p].target = 0 /\ runner[p].rows = {}
  BY <1>1, OthersRest
<1>3. /\ runner' \in [Importer -> RunnerStates]
      /\ runner'[q].at = "publishing" /\ runner'[q].mode = runner[q].mode
      /\ runner'[q].mark = runner[q].mark /\ runner'[q].target = runner[q].target
      /\ runner'[q].rows = runner[q].rows
      /\ \A p \in Importer : p # q => runner'[p] = runner[p]
  BY <1>1, CombineEffect
<1>4. PICK existing \in [Version -> Nat] :
        /\ \A v \in Version : existing[v] = Copies(runner[q].target, v)
        /\ Exists(runner[q].target) => existing = data[runner[q].target]
        /\ runner'[q].table = Merged(runner[q].mode, existing, runner[q].rows)
  BY <1>1, CombineEffect
<1>5. /\ Times' = Times /\ \A d, v : Copies(d, v)' = Copies(d, v)
      /\ \A d : Exists(d)' = Exists(d)
      /\ \A p \in Importer : /\ runner'[p].target = runner[p].target
                             /\ runner'[p].mark = runner[p].mark
                             /\ runner'[p].rows = runner[p].rows
      /\ \A p \in Importer : Reached(p)' = Reached(p)
      /\ \A p \in Importer, k \in RowKey : Behind(p, k)' = Behind(p, k)
  BY <1>1, <1>3 DEF Times, Copies, Exists, Reached, Behind
<1>6. ImportsShaped'
  BY <1>1, <1>3 DEF ImportsShaped
<1>7. OneImports'
  BY <1>1, <1>3, GoesOn
<1>8. RowsInHand'
  <2>1. Come(job.mark)' /\ \A p \in Importer : Come(runner[p].mark)'
    BY <1>1, <1>5 DEF RowsInHand, Come
  <2> QED BY <1>1, <1>2, <1>3, <1>5, <2>1 DEF RowsInHand
<1>9. TargetsSuit'
  BY <1>1, <1>2, <1>3, <1>5 DEF TargetsSuit, RunnerAt
<1>10. OrphansPaid'
  <2>1. Orphans' \subseteq Orphans
    BY <1>1, <1>5 DEF Orphans
  <2> QED BY <1>1, <2>1, NoMoreOrphans
<1> DEFINE r == runner[q]
           made == runner'[q].table
<1>11. /\ r.rows \in SUBSET Version /\ r.mark \in 0..MaxCursor /\ r.target \in Dataset \cup {0}
       /\ r.mode \in Mode /\ job.mode \in Mode /\ job.mark \in 0..MaxCursor
  BY <1>1 DEF ImportsShaped, RunnerStates
<1>12. /\ \A v \in r.rows : v[2] <= source[v[1]] /\ (r.mode # "full_refresh" => r.mark < v[2])
       /\ \A v, w \in r.rows : v[1] = w[1] => v = w
  BY <1>1 DEF RowsInHand
<1> HIDE DEF r, made
<1>13. ASSUME NEW v \in Version
       PROVE  /\ v \in r.rows =>
                   made[v] = 1 \/ (r.mode # "full_refresh" /\ made[v] = existing[v] + 1)
              /\ v \in r.rows /\ r.mode = "incremental_merge" => made[v] = 1
              /\ v \notin r.rows => made[v] \in {0, existing[v]}
              /\ v \notin r.rows /\ r.mode = "full_refresh" => made[v] = 0
              /\ v \notin r.rows /\ r.mode # "full_refresh"
                   /\ (\A x \in r.rows : x[1] # v[1]) => made[v] = existing[v]
              /\ v \notin r.rows /\ r.mode = "incremental_merge"
                   /\ (\E x \in r.rows : x[1] = v[1]) => made[v] = 0
  <2>1. made = Merged(r.mode, existing, r.rows)
    BY <1>4 DEF r, made
  <2> DEFINE replaced == r.mode = "incremental_merge" /\ \E x \in r.rows : x[1] = v[1]
  <2>2. made[v] = (IF r.mode = "full_refresh" \/ replaced THEN 0 ELSE existing[v])
                   + (IF v \in r.rows THEN 1 ELSE 0)
    BY <1>13, <2>1 DEF Merged
  <2>3. existing[v] \in Nat
    BY <1>4, <1>13
  <2>4. /\ v \in r.rows /\ r.mode = "incremental_merge" => replaced
        /\ replaced => r.mode = "incremental_merge"
        /\ r.mode # "full_refresh" /\ (\A x \in r.rows : x[1] # v[1]) => ~replaced
        /\ r.mode = "incremental_merge" /\ (\E x \in r.rows : x[1] = v[1]) => replaced
    OBVIOUS
  <2> HIDE DEF replaced
  <2> QED BY <2>2, <2>3, <2>4
<1> USE DEF r
<1>14. TimesKept'
  <2>1. /\ \A p \in Importer : ~RunnerAt(p, "advancing")
        /\ \A p \in Importer : p # q => runner'[p].at \notin EarlyPoint \cup LatePoint
        /\ runner'[q].at \notin EarlyPoint
    BY <1>1, <1>2, <1>3, PointsDiffer DEF RunnerAt
  <2>2. ASSUME NEW v \in Version PROVE made[v] + Unread(Reached(q), v) <= Times
    <3>1. existing[v] + Unread(r.mark, v) + Changed(q) <= Times
      BY <1>1, <1>4, <2>2, PointsDiffer DEF TimesKept
    <3>2. /\ existing[v] \in Nat /\ Unread(r.mark, v) \in {0, 1} /\ Changed(q) \in {0, 1}
          /\ Times \in Nat /\ 1 <= Times
      BY <1>1, <1>11, <2>2, CountsAreNumbers, TimesGrow
    <3>3. v[2] \in 1..MaxCursor
      BY <1>1, ImportSets
    <3>4. Reached(q) \in 0..MaxCursor
      <4>1. CASE job.mode # "full_refresh" /\ r.rows # {}
        BY <1>11, <4>1, TopIsNewest, ImportAssumption DEF Reached
      <4>2. CASE ~(job.mode # "full_refresh" /\ r.rows # {})
        BY <1>11, <4>2 DEF Reached
      <4> QED BY <4>1, <4>2
    <3>5. Unread(Reached(q), v) \in {0, 1}
      BY <1>1, <3>4, CountsAreNumbers
    <3>6. CASE v \in r.rows
      <4>1. made[v] = 1 \/ (r.mode # "full_refresh" /\ made[v] = existing[v] + 1)
        BY <1>13, <3>6
      <4>2. CASE job.mode # "full_refresh"
        <5>1. r.rows # {} /\ v[2] <= TopOf(r.rows) /\ TopOf(r.rows) \in 1..MaxCursor
          BY <1>11, <3>6, TopIsNewest
        <5>2. Reached(q) = TopOf(r.rows)
          BY <4>2, <5>1 DEF Reached
        <5>3. ~(Reached(q) < v[2])
          BY <3>3, <5>1, <5>2
        <5>4. Unread(Reached(q), v) = 0
          BY <5>3 DEF Unread
        <5>5. r.mode # "full_refresh" => Unread(r.mark, v) = 1
          BY <1>12, <3>6 DEF Unread
        <5> HIDE DEF r
        <5> QED BY <3>1, <3>2, <4>1, <5>4, <5>5
      <4>3. CASE job.mode = "full_refresh" /\ r.mode # "full_refresh"
        <5>1. Changed(q) = 1
          BY <4>3 DEF Changed
        <5>2. Unread(r.mark, v) = 1
          BY <1>12, <3>6, <4>3 DEF Unread
        <5> HIDE DEF r
        <5> QED BY <3>1, <3>2, <3>5, <4>1, <5>1, <5>2
      <4>4. CASE job.mode = "full_refresh" /\ r.mode = "full_refresh"
        <5>1. "mode changed" \in happened
          BY <1>1, <4>4 DEF OneImports
        <5>2. 2 <= Times
          BY <1>1, <5>1, TimesGrow
        <5>3. made[v] = 1
          BY <4>1, <4>4
        <5> HIDE DEF r
        <5> QED BY <3>2, <3>5, <5>2, <5>3
      <4> QED BY <4>2, <4>3, <4>4
    <3>7. CASE v \notin r.rows
      <4>1. made[v] \in {0, existing[v]} /\ (r.mode = "full_refresh" => made[v] = 0)
        BY <1>13, <3>7
      <4>2. CASE r.mode = "full_refresh"
        <5>1. made[v] = 0
          BY <4>1, <4>2
        <5> HIDE DEF r
        <5> QED BY <3>2, <3>5, <5>1
      <4>3. CASE r.mode # "full_refresh" /\ job.mode # "full_refresh" /\ r.rows # {}
        <5>1. PICK w \in r.rows : w[2] = TopOf(r.rows)
          BY <1>11, <4>3, TopIsNewest
        <5>2. Reached(q) = w[2] /\ r.mark < w[2] /\ w[2] \in Nat
          BY <1>1, <1>11, <1>12, <4>3, <5>1, ImportSets DEF Reached
        <5>3. Reached(q) < v[2] => r.mark < v[2]
          BY <1>11, <3>3, <5>2
        <5>4. Unread(Reached(q), v) = 1 => Unread(r.mark, v) = 1
          BY <5>3 DEF Unread
        <5> HIDE DEF r
        <5> QED BY <3>1, <3>2, <3>5, <4>1, <5>4
      <4>4. CASE ~(job.mode # "full_refresh" /\ r.rows # {})
        <5>1. Reached(q) = job.mark
          BY <4>4 DEF Reached
        <5>2. Changed(q) = 1 \/ job.mark = r.mark
          BY DEF Changed
        <5> HIDE DEF r
        <5> QED BY <3>1, <3>2, <3>5, <4>1, <5>1, <5>2
      <4> QED BY <4>2, <4>3, <4>4
    <3> QED BY <3>6, <3>7
  <2> QED BY <1>1, <1>3, <1>5, <2>1, <2>2 DEF TimesKept, RunnerAt, made
<1>15. KeysKept'
  <2>1. SUFFICES ASSUME job.mode = "incremental_merge", "mode changed" \notin happened
                 PROVE  KeysKept'
    BY <1>1 DEF KeysKept
  <2>2. r.mode = "incremental_merge"
    BY <1>1, <2>1 DEF OneImports
  <2>3. /\ \A d \in Dataset : Exists(d) => OfOneKey(data[d])
        /\ \A p \in Importer : p # q => runner'[p].at \notin LatePoint
    BY <1>1, <1>2, <1>3, <2>1, PointsDiffer DEF KeysKept
  <2>4. OfOneKey(existing)
    <3>1. CASE Exists(r.target)
      BY <1>4, <1>11, <2>3, <3>1 DEF Exists
    <3>2. CASE ~Exists(r.target)
      <4>1. \A v \in Version : existing[v] = 0
        BY <1>4, <3>2 DEF Copies
      <4> QED BY <4>1 DEF OfOneKey
    <3> QED BY <3>1, <3>2
  <2>5. ASSUME NEW v \in Version, NEW w \in Version, made[v] > 0, made[w] > 0, v[1] = w[1]
        PROVE  v = w /\ made[v] = 1
    <3>1. CASE v \in r.rows
      <4>1. made[v] = 1
        BY <1>13, <2>2, <3>1
      <4>2. w \in r.rows
        <5>1. SUFFICES ASSUME w \notin r.rows PROVE FALSE
          OBVIOUS
        <5>2. made[w] = 0
          BY <1>13, <2>2, <2>5, <3>1, <5>1
        <5> QED BY <2>5, <5>2
      <4> QED BY <1>12, <2>5, <3>1, <4>1, <4>2
    <3>2. CASE v \notin r.rows
      <4>1. \A x \in r.rows : x[1] # v[1]
        <5>1. SUFFICES ASSUME \E x \in r.rows : x[1] = v[1] PROVE FALSE
          OBVIOUS
        <5>2. made[v] = 0
          BY <1>13, <2>2, <3>2, <5>1
        <5> QED BY <2>5, <5>2
      <4>2. w \notin r.rows /\ \A x \in r.rows : x[1] # w[1]
        BY <2>5, <4>1
      <4>3. made[v] = existing[v] /\ made[w] = existing[w]
        BY <1>13, <2>2, <3>2, <4>1, <4>2
      <4> QED BY <2>4, <2>5, <4>3 DEF OfOneKey
    <3> QED BY <3>1, <3>2
  <2>6. OfOneKey(made)
    BY <2>5 DEF OfOneKey
  <2>7. \A d \in Dataset : Exists(d)' => OfOneKey(data'[d])
    BY <1>1, <1>5, <2>3
  <2>8. \A p \in Importer : runner'[p].at \in LatePoint => OfOneKey(runner'[p].table)
    BY <2>3, <2>6 DEF made
  <2> QED BY <2>7, <2>8 DEF KeysKept, OfOneKey
<1>16. NoneSkipped'
  <2>1. SUFFICES ASSUME happened \cap {"mode changed", "deleted"} = {} PROVE NoneSkipped'
    BY <1>1 DEF NoneSkipped
  <2>2. /\ Exists(job.target) \/ (job.target = 0 /\ job.mark = 0)
        /\ \A k \in RowKey :
               0 < source[k] /\ source[k] <= job.mark => Copies(job.target, <<k, source[k]>>) > 0
        /\ job.mark <= r.mark
        /\ \A k \in RowKey : 0 < source[k] /\ source[k] <= r.mark =>
               Copies(r.target, <<k, source[k]>>) > 0
        /\ \A k \in RowKey : r.mark < source[k] /\ Behind(q, k) => <<k, source[k]>> \in r.rows
    BY <1>1, <2>1, PointsDiffer DEF NoneSkipped
  <2>3. r.mode # "full_refresh"
    <3>1. "mode changed" \notin happened
      BY <2>1
    <3> QED BY <1>1, <3>1 DEF OneImports
  <2>4. ASSUME NEW k \in RowKey, 0 < source[k], Behind(q, k)
        PROVE  made[<<k, source[k]>>] > 0
    <3> DEFINE v == <<k, source[k]>>
    <3>1. v \in Version /\ v[1] = k /\ v[2] = source[k] /\ source[k] \in 0..MaxCursor
      BY <1>1, <2>4, ImportSets DEF ImportsShaped
    <3>2. existing[v] \in Nat /\ existing[v] = Copies(r.target, v)
      BY <1>4, <3>1
    <3>3. CASE v \in r.rows
      <4>1. made[v] = 1 \/ made[v] = existing[v] + 1
        BY <1>13, <3>1, <3>3
      <4> QED BY <3>2, <4>1
    <3>4. CASE v \notin r.rows
      <4>1. source[k] <= r.mark
        BY <1>11, <2>2, <2>4, <3>1, <3>4
      <4>2. existing[v] > 0
        BY <2>2, <2>4, <3>2, <4>1
      <4>3. \A x \in r.rows : x[1] # v[1]
        <5>1. SUFFICES ASSUME NEW x \in r.rows, x[1] = k PROVE FALSE
          BY <3>1
        <5>2. r.mark < x[2] /\ x[2] <= source[k] /\ x[2] \in 1..MaxCursor
          BY <1>1, <1>11, <1>12, <2>3, <5>1, ImportSets
        <5> QED BY <1>11, <3>1, <4>1, <5>2
      <4>4. made[v] = existing[v]
        BY <1>13, <2>3, <3>1, <3>4, <4>3
      <4> QED BY <4>2, <4>4
    <3> QED BY <3>3, <3>4
  <2>5. ASSUME NEW p \in Importer, ~RunnerAt(p, "idle")' PROVE p = q
    BY <1>2, <1>3, <2>5 DEF RunnerAt
  <2>6. runner'[q].at # "advancing" /\ runner'[q].at # "combining" /\ runner'[q].at \notin EarlyPoint
    BY <1>3, PointsDiffer
  <2>7. \A k \in RowKey : 0 < source[k] /\ Behind(q, k) => runner'[q].table[<<k, source[k]>>] > 0
    BY <2>4 DEF made
  <2> QED BY <1>1, <1>3, <1>5, <2>2, <2>5, <2>6, <2>7 DEF NoneSkipped, RunnerAt
<1> QED BY <1>6, <1>7, <1>8, <1>9, <1>10, <1>14, <1>15, <1>16 DEF ImportsInv

\* A dataset a run has stored is there: no row is in it as often as that.
LEMMA TableIsThere ==
    ASSUME ImportsShaped, OneImports, NEW made \in [Version -> Nat],
           \A v \in Version : made[v] <= Times
    PROVE  made # Gone
<1>1. PICK v \in Version : TRUE
  BY ImportSets
<1>2. made[v] <= MaxStops + 1 /\ made[v] \in Nat /\ MaxStops \in Nat
  <2>1. Times \in Nat /\ Times <= MaxStops + 1
    BY TimesGrow
  <2>2. made[v] <= Times /\ made[v] \in Nat
    BY <1>1
  <2> QED BY <2>1, <2>2, ImportAssumption
<1>3. Gone[v] = MaxStops + 3
  BY DEF Gone
<1> QED BY <1>2, <1>3

\* The rows are stored in the job's dataset, or in a new one when that is gone.
LEMMA PublishStep ==
    ASSUME ImportsInv, NEW q \in Importer, Publish(q)
    PROVE  ImportsInv'
<1>1. /\ ImportsShaped /\ OneImports /\ RowsInHand /\ TargetsSuit /\ OrphansPaid /\ TimesKept
      /\ KeysKept /\ NoneSkipped
      /\ UNCHANGED <<source, job, stops, happened>>
      /\ RunnerAt(q, "publishing") /\ ~RunnerAt(q, "idle") /\ runner[q].at = "publishing"
  BY DEF ImportsInv, Publish, RunnerAt
<1>2. \A p \in Importer : p # q =>
        /\ runner[p] = RunnerRests /\ runner[p].at = "idle"
        /\ runner[p].mark = 0 /\ runner[p].target = 0 /\ runner[p].rows = {}
  BY <1>1, OthersRest
<1>3. PICK into \in Dataset :
        /\ Exists(runner[q].target) => into = runner[q].target
        /\ ~Exists(runner[q].target) =>
             /\ ~Exists(into) /\ into # job.target
             /\ \A p \in Importer : runner[p].target # into
        /\ data' \in [Dataset -> [Version -> Nat]]
        /\ data'[into] = runner[q].table
        /\ \A d \in Dataset : d # into => data'[d] = data[d]
        /\ runner' \in [Importer -> RunnerStates]
        /\ runner'[q].at = "advancing" /\ runner'[q].mode = runner[q].mode
        /\ runner'[q].mark = runner[q].mark /\ runner'[q].target = into
        /\ runner'[q].rows = runner[q].rows /\ runner'[q].table = runner[q].table
        /\ \A p \in Importer : p # q => runner'[p] = runner[p]
  BY <1>1, PublishEffect
<1> DEFINE r == runner[q]
<1>4. /\ r.table \in [Version -> Nat] /\ r.target \in Dataset \cup {0}
      /\ job.target \in Dataset \cup {0} /\ into # 0 /\ 0 \notin Dataset
      /\ r.mark \in 0..MaxCursor /\ job.mark \in 0..MaxCursor
  BY <1>1, <1>3, ImportSets DEF ImportsShaped, RunnerStates
<1>5. /\ Times' = Times
      /\ \A p \in Importer : Reached(p)' = Reached(p)
      /\ \A p \in Importer, k \in RowKey : Behind(p, k)' = Behind(p, k)
      /\ \A p \in Importer : runner'[p].mark = runner[p].mark /\ runner'[p].rows = runner[p].rows
  BY <1>1, <1>3 DEF Times, Reached, Behind
<1>6. /\ \A v \in Version : r.table[v] + Unread(Reached(q), v) <= Times
      /\ \A v \in Version : r.table[v] <= Times
  <2>1. ASSUME NEW v \in Version PROVE r.table[v] + Unread(Reached(q), v) <= Times
    BY <1>1, <2>1, PointsDiffer DEF TimesKept
  <2>2. ASSUME NEW v \in Version PROVE r.table[v] <= Times
    <3>1. r.table[v] \in Nat /\ Times \in Nat
      BY <1>1, <1>4, <2>2, TimesGrow
    <3>2. Unread(Reached(q), v) = 0 \/ Unread(Reached(q), v) = 1
      BY DEF Unread
    <3> HIDE DEF r
    <3> QED BY <2>1, <2>2, <3>1, <3>2
  <2> QED BY <2>1, <2>2
<1>7. r.table # Gone
  BY <1>1, <1>4, <1>6, TableIsThere
<1>8. /\ Exists(into)'
      /\ \A d \in (Dataset \cup {0}) \ {into} : Exists(d)' = Exists(d)
      /\ \A v \in Version : Copies(into, v)' = r.table[v]
      /\ \A d \in (Dataset \cup {0}) \ {into} : \A v \in Version : Copies(d, v)' = Copies(d, v)
  BY <1>3, <1>4, <1>7 DEF Exists, Copies
<1>9. Exists(job.target) => job.target = into
  <2>1. job.target = r.target \/ job.target = 0
    BY <1>1 DEF TargetsSuit, RunnerAt
  <2>2. ~Exists(0)
    BY DEF Exists
  <2> QED BY <1>3, <2>1, <2>2
<1>10. ImportsShaped'
  BY <1>1, <1>3 DEF ImportsShaped
<1>11. OneImports'
  BY <1>1, <1>3, GoesOn
<1>12. RowsInHand'
  <2>1. Come(job.mark)' /\ \A p \in Importer : Come(runner[p].mark)'
    BY <1>1, <1>5 DEF RowsInHand, Come
  <2> QED BY <1>1, <1>2, <1>3, <1>5, <2>1 DEF RowsInHand
<1>13. TargetsSuit'
  <2>1. Exists(job.target)' => job.target = into
    <3>1. PICK d \in Dataset \cup {0} : d = job.target
      BY <1>4
    <3>2. Exists(job.target)' = Exists(d)'
      BY <1>1, <3>1 DEF Exists
    <3> QED BY <1>8, <1>9, <3>1, <3>2
  <2>2. \A p \in Importer : p # q => RunnerAt(p, "idle")'
    BY <1>2, <1>3 DEF RunnerAt
  <2>3. RunnerAt(q, "advancing")' /\ runner'[q].target = into /\ data'[into] = runner'[q].table
    BY <1>3 DEF RunnerAt
  <2> QED BY <1>1, <1>4, <2>1, <2>2, <2>3 DEF TargetsSuit
<1>14. OrphansPaid'
  <2>1. ASSUME NEW d \in Orphans' PROVE d \in Orphans
    <3>1. d \in Dataset /\ Exists(d)' /\ d # job.target /\ \A p \in Importer : runner'[p].target # d
      BY <1>1, <2>1 DEF Orphans
    <3>2. d # into
      BY <1>3, <3>1
    <3>3. Exists(d)
      BY <1>8, <3>1, <3>2
    <3>4. \A p \in Importer : runner[p].target # d
      BY <1>3, <3>1, <3>2, <3>3
    <3> QED BY <3>1, <3>3, <3>4 DEF Orphans
  <2> QED BY <1>1, <2>1, NoMoreOrphans
<1>15. TimesKept'
  <2>1. /\ \A p \in Importer : p # q => runner'[p].at \notin EarlyPoint \cup LatePoint
        /\ runner'[q].at \notin EarlyPoint /\ RunnerAt(q, "advancing")'
    BY <1>2, <1>3, PointsDiffer DEF RunnerAt
  <2>2. \A d \in Dataset, v \in Version : Copies(d, v)' <= Times
    <3>1. SUFFICES ASSUME NEW d \in Dataset, NEW v \in Version PROVE Copies(d, v)' <= Times
      OBVIOUS
    <3>2. CASE d = into
      BY <1>6, <1>8, <3>2
    <3>3. CASE d # into
      BY <1>1, <1>8, <3>3 DEF TimesKept
    <3> QED BY <3>2, <3>3
  <2>3. \A v \in Version : runner'[q].table[v] + Unread(Reached(q), v) <= Times
    BY <1>3, <1>6
  <2> QED BY <1>5, <2>1, <2>2, <2>3 DEF TimesKept
<1>16. KeysKept'
  <2>1. SUFFICES ASSUME job.mode = "incremental_merge", "mode changed" \notin happened
                 PROVE  KeysKept'
    BY <1>1 DEF KeysKept
  <2>2. OfOneKey(r.table) /\ \A d \in Dataset : Exists(d) => OfOneKey(data[d])
    BY <1>1, <2>1, PointsDiffer DEF KeysKept
  <2>3. \A d \in Dataset : Exists(d)' => OfOneKey(data'[d])
    <3>1. SUFFICES ASSUME NEW d \in Dataset, Exists(d)' PROVE OfOneKey(data'[d])
      OBVIOUS
    <3>2. CASE d = into
      BY <1>3, <2>2, <3>2
    <3>3. CASE d # into
      BY <1>3, <1>8, <2>2, <3>1, <3>3
    <3> QED BY <3>2, <3>3
  <2>4. \A p \in Importer : runner'[p].at \in LatePoint => OfOneKey(runner'[p].table)
    BY <1>2, <1>3, <2>2, PointsDiffer
  <2> QED BY <2>3, <2>4 DEF KeysKept, OfOneKey
<1>17. NoneSkipped'
  <2>1. SUFFICES ASSUME happened \cap {"mode changed", "deleted"} = {} PROVE NoneSkipped'
    BY <1>1 DEF NoneSkipped
  <2>2. /\ Exists(job.target) \/ (job.target = 0 /\ job.mark = 0)
        /\ job.mark <= r.mark
        /\ \A k \in RowKey : 0 < source[k] /\ Behind(q, k) => r.table[<<k, source[k]>>] > 0
    BY <1>1, <2>1, PointsDiffer DEF NoneSkipped
  <2>3. Exists(job.target)' \/ (job.target = 0 /\ job.mark = 0)
    <3>1. Exists(job.target)' = Exists(into)' \/ job.target # into
      BY <1>1 DEF Exists
    <3> QED BY <1>8, <1>9, <2>2, <3>1
  <2>4. ASSUME NEW k \in RowKey, 0 < source[k], source[k] <= job.mark
        PROVE  Copies(job.target, <<k, source[k]>>)' > 0
    <3>1. source[k] \in 0..MaxCursor /\ <<k, source[k]>> \in Version
      BY <1>1, <2>4, ImportSets DEF ImportsShaped
    <3>2. job.mark # 0 /\ source[k] <= r.mark
      BY <1>4, <2>2, <2>4, <3>1
    <3>3. job.target = into
      BY <1>9, <2>2, <3>2
    <3>4. r.table[<<k, source[k]>>] > 0
      BY <2>2, <2>4, <3>2 DEF Behind
    <3>5. Copies(into, <<k, source[k]>>)' = r.table[<<k, source[k]>>]
      BY <1>1, <1>3, <1>8, <3>1 DEF Copies, Exists
    <3> HIDE DEF r
    <3> QED BY <1>1, <3>3, <3>4, <3>5 DEF Copies, Exists
  <2>5. ASSUME NEW p \in Importer, ~RunnerAt(p, "idle")' PROVE p = q
    BY <1>2, <1>3, <2>5 DEF RunnerAt
  <2>6. /\ runner'[q].at # "combining" /\ runner'[q].at \notin EarlyPoint
        /\ \A k \in RowKey : 0 < source[k] /\ Behind(q, k) => runner'[q].table[<<k, source[k]>>] > 0
        /\ Exists(runner[q].target)'
    BY <1>3, <1>8, <2>2, PointsDiffer DEF Exists
  <2> QED BY <1>1, <1>3, <1>5, <2>2, <2>3, <2>4, <2>5, <2>6 DEF NoneSkipped, RunnerAt
<1> QED BY <1>10, <1>11, <1>12, <1>13, <1>14, <1>15, <1>16, <1>17 DEF ImportsInv

\* The job takes over the dataset and the mark of the rows in it.
LEMMA AdvanceStep ==
    ASSUME ImportsInv, NEW q \in Importer, Advance(q)
    PROVE  ImportsInv'
<1>1. /\ ImportsShaped /\ OneImports /\ RowsInHand /\ TargetsSuit /\ OrphansPaid /\ TimesKept
      /\ KeysKept /\ NoneSkipped
      /\ UNCHANGED <<source, data, stops, happened>>
      /\ RunnerAt(q, "advancing") /\ ~RunnerAt(q, "idle") /\ runner[q].at = "advancing"
      /\ runner' = [runner EXCEPT ![q] = RunnerRests]
  BY DEF ImportsInv, Advance, RunnerAt
<1>2. /\ job' \in [mode : Mode, mark : 0..MaxCursor, target : Dataset \cup {0}]
      /\ job'.mode = job.mode /\ job'.target = runner[q].target
      /\ job'.mark = Reached(q) /\ Reached(q) \in 0..MaxCursor
  BY <1>1, AdvanceEffect
<1>3. /\ runner' \in [Importer -> RunnerStates] /\ runner'[q] = RunnerRests
      /\ \A p \in Importer : p # q => runner'[p] = runner[p]
  BY <1>1, RestEffect
<1>4. /\ \A p \in Importer : /\ runner'[p] = RunnerRests /\ runner'[p].at = "idle"
                             /\ runner'[p].mark = 0 /\ runner'[p].target = 0
                             /\ runner'[p].rows = {}
      /\ OneImports' /\ TargetsSuit'
  <2>1. happened' # {} => stops' > 0
    BY <1>1 DEF OneImports
  <2> QED BY <1>1, <1>2, <1>3, <2>1, NobodyRuns
<1>5. /\ Times' = Times /\ \A d : Exists(d)' = Exists(d)
      /\ \A d, v : Copies(d, v)' = Copies(d, v)
  BY <1>1 DEF Times, Exists, Copies
<1> DEFINE r == runner[q]
<1>6. /\ r.rows \in SUBSET Version /\ r.table \in [Version -> Nat] /\ r.target \in Dataset \cup {0}
      /\ r.mark \in 0..MaxCursor /\ job.mark \in 0..MaxCursor /\ 0 \notin Dataset
  BY <1>1, ImportSets DEF ImportsShaped, RunnerStates
<1>7. /\ Exists(job.target) => job.target = r.target
      /\ Exists(r.target) => data[r.target] = r.table
  BY <1>1 DEF TargetsSuit
<1>8. ImportsShaped'
  BY <1>1, <1>2, <1>3 DEF ImportsShaped
<1>9. RowsInHand'
  <2>1. Come(job.mark)'
    <3>1. CASE job.mode # "full_refresh" /\ r.rows # {}
      <4>1. PICK v \in r.rows : v[2] = TopOf(r.rows)
        BY <1>6, <3>1, TopIsNewest
      <4>2. v[1] \in RowKey /\ v[2] <= source[v[1]]
        BY <1>1, <1>6, ImportSets DEF RowsInHand
      <4>3. job'.mark = v[2]
        BY <1>2, <3>1, <4>1 DEF Reached
      <4> QED BY <1>1, <4>2, <4>3 DEF Come
    <3>2. CASE ~(job.mode # "full_refresh" /\ r.rows # {})
      BY <1>1, <1>2, <3>2 DEF Reached, RowsInHand, Come
    <3> QED BY <3>1, <3>2
  <2>2. \A p \in Importer : Come(runner[p].mark)'
    BY <1>4 DEF Come
  <2>3. Cardinality({}) = 0 /\ 0 <= MaxRows
    BY FS_EmptySet, ImportAssumption
  <2> QED BY <1>1, <1>4, <2>1, <2>2, <2>3 DEF RowsInHand
<1>10. OrphansPaid'
  <2>1. ASSUME NEW d \in Orphans' PROVE d \in Orphans
    <3>1. d \in Dataset /\ Exists(d) /\ d # r.target
      BY <1>2, <1>5, <2>1 DEF Orphans
    <3>2. d # job.target
      BY <1>7, <3>1
    <3>3. \A p \in Importer : runner[p].target # d
      BY <1>1, <1>6, <3>1, OthersRest
    <3> QED BY <3>1, <3>2, <3>3 DEF Orphans
  <2> QED BY <1>1, <2>1, NoMoreOrphans
<1>11. TimesKept'
  <2>1. ASSUME NEW v \in Version
        PROVE  Copies(r.target, v) + Unread(Reached(q), v) <= Times
    <3>1. r.table[v] + Unread(Reached(q), v) <= Times
      BY <1>1, <2>1, PointsDiffer DEF TimesKept
    <3>2. 1 <= Times /\ Times \in Nat /\ Unread(Reached(q), v) \in {0, 1}
      BY <1>1, <1>2, <2>1, CountsAreNumbers, TimesGrow
    <3>3. Copies(r.target, v) = 0 \/ Copies(r.target, v) = r.table[v]
      BY <1>7 DEF Copies
    <3> HIDE DEF r
    <3> QED BY <3>1, <3>2, <3>3
  <2>2. \A d \in Dataset, v \in Version : Copies(d, v)' <= Times
    BY <1>1, <1>5 DEF TimesKept
  <2>3. \A v \in Version : Copies(job'.target, v) + Unread(job'.mark, v) <= Times
    BY <1>2, <2>1
  <2>4. \A p \in Importer : runner'[p].at \notin EarlyPoint \cup LatePoint
    BY <1>4, PointsDiffer
  <2> QED BY <1>1, <1>5, <2>2, <2>3, <2>4 DEF TimesKept
<1>12. KeysKept'
  <2>1. \A p \in Importer : runner'[p].at \notin LatePoint
    BY <1>4, PointsDiffer
  <2>2. SUFFICES ASSUME job.mode = "incremental_merge", "mode changed" \notin happened
                 PROVE  KeysKept'
    BY <1>1, <1>2 DEF KeysKept
  <2>3. \A d \in Dataset : Exists(d)' => OfOneKey(data'[d])
    BY <1>1, <1>5, <2>2 DEF KeysKept
  <2> QED BY <2>1, <2>3 DEF KeysKept, OfOneKey
<1>13. NoneSkipped'
  <2>1. SUFFICES ASSUME happened \cap {"mode changed", "deleted"} = {} PROVE NoneSkipped'
    BY <1>1 DEF NoneSkipped
  <2>2. /\ job.mark <= r.mark /\ Exists(r.target)
        /\ \A k \in RowKey : 0 < source[k] /\ Behind(q, k) => r.table[<<k, source[k]>>] > 0
    BY <1>1, <2>1, PointsDiffer DEF NoneSkipped
  <2>3. ASSUME NEW k \in RowKey, 0 < source[k], source[k] <= Reached(q)
        PROVE  Copies(r.target, <<k, source[k]>>) > 0
    <3>1. source[k] \in 0..MaxCursor
      BY <1>1 DEF ImportsShaped
    <3>2. Behind(q, k)
      <4>1. CASE job.mode # "full_refresh" /\ r.rows # {}
        <5>1. PICK v \in r.rows : v[2] = TopOf(r.rows)
          BY <1>6, <4>1, TopIsNewest
        <5>2. source[k] <= v[2]
          BY <2>3, <4>1, <5>1 DEF Reached
        <5> QED BY <5>2 DEF Behind
      <4>2. CASE ~(job.mode # "full_refresh" /\ r.rows # {})
        <5>1. Reached(q) = job.mark
          BY <4>2 DEF Reached
        <5> QED BY <1>6, <2>2, <2>3, <3>1, <5>1 DEF Behind
      <4> QED BY <4>1, <4>2
    <3>3. r.table[<<k, source[k]>>] > 0
      BY <2>2, <2>3, <3>2
    <3> QED BY <1>7, <2>2, <3>3 DEF Copies
  <2>4. \A p \in Importer : RunnerAt(p, "idle")'
    BY <1>4 DEF RunnerAt
  <2>5. Exists(job.target)'
    BY <1>1, <1>2, <2>2 DEF Exists
  <2>6. \A k \in RowKey : 0 < source[k] /\ source[k] <= job'.mark =>
            Copies(job'.target, <<k, source[k]>>) > 0
    BY <1>2, <2>3
  <2> QED BY <1>1, <1>5, <2>4, <2>5, <2>6 DEF NoneSkipped
<1> QED BY <1>4, <1>8, <1>9, <1>10, <1>11, <1>12, <1>13 DEF ImportsInv

\* What the fields of a row are.
LEMMA RowShapes ==
    ASSUME ImportsShaped
    PROVE  /\ \A k \in RowKey : source[k] \in 0..MaxCursor /\ source[k] \in Nat
           /\ \A p \in Importer :
                /\ runner[p].mark \in 0..MaxCursor /\ runner[p].mark \in Nat
                /\ runner[p].target \in Dataset \cup {0} /\ runner[p].mode \in Mode
                /\ runner[p].rows \in SUBSET Version /\ runner[p].table \in [Version -> Nat]
                /\ \A v \in Version : runner[p].table[v] \in Nat
           /\ job.mode \in Mode /\ job.target \in Dataset \cup {0}
           /\ job.mark \in 0..MaxCursor /\ job.mark \in Nat
           /\ job = [mode |-> job.mode, mark |-> job.mark, target |-> job.target]
<1>1. \A k \in RowKey : source[k] \in 0..MaxCursor
  BY DEF ImportsShaped
<1>2. \A p \in Importer :
        /\ runner[p].mark \in 0..MaxCursor
        /\ runner[p].target \in Dataset \cup {0} /\ runner[p].mode \in Mode
        /\ runner[p].rows \in SUBSET Version /\ runner[p].table \in [Version -> Nat]
  BY DEF ImportsShaped, RunnerStates
<1>3. /\ job.mode \in Mode /\ job.target \in Dataset \cup {0} /\ job.mark \in 0..MaxCursor
      /\ job = [mode |-> job.mode, mark |-> job.mark, target |-> job.target]
  BY DEF ImportsShaped
<1>4. \A n \in 0..MaxCursor : n \in Nat
  OBVIOUS
<1> QED BY <1>1, <1>2, <1>3, <1>4

\* What happens beside is counted.
LEMMA HappensEffect ==
    ASSUME ImportsShaped, NEW what \in Upset, Happens(what)
    PROVE  /\ stops \in Nat /\ stops' \in 0..MaxStops /\ stops' > 0 /\ stops' = stops + 1
           /\ happened' = happened \cup {what} /\ happened' \in SUBSET Upset
<1>1. stops \in 0..MaxStops /\ MaxStops \in Nat /\ happened \in SUBSET Upset
  BY ImportAssumption DEF ImportsShaped
<1>2. stops < MaxStops /\ stops' = stops + 1 /\ happened' = happened \cup {what}
  BY DEF Happens
<1>3. stops \in Nat /\ stops' \in 0..MaxStops /\ stops' > 0
  BY <1>1, <1>2
<1> QED BY <1>1, <1>2, <1>3

\* No dataset holds a row more often than what happened pays for.
LEMMA StoredBound ==
    ASSUME ImportsShaped, OneImports, TimesKept
    PROVE  \A d \in Dataset \cup {0}, v \in Version : Copies(d, v) \in Nat /\ Copies(d, v) <= Times
<1>1. SUFFICES ASSUME NEW d \in Dataset \cup {0}, NEW v \in Version
               PROVE  Copies(d, v) \in Nat /\ Copies(d, v) <= Times
  OBVIOUS
<1>2. Copies(d, v) \in Nat /\ Times \in Nat
  BY CountsAreNumbers, TimesGrow
<1>3. CASE d = 0
  <2>1. Copies(d, v) = 0
    BY <1>3 DEF Copies, Exists
  <2> QED BY <1>2, <2>1
<1>4. CASE d \in Dataset
  BY <1>2, <1>4 DEF TimesKept
<1> QED BY <1>3, <1>4

\* A run that stops before it has stored anything leaves everything as it was.
LEMMA StopsEarlyStep ==
    ASSUME ImportsInv, NEW q \in Importer, StopsEarly(q)
    PROVE  ImportsInv'
<1>1. /\ ImportsShaped /\ OneImports /\ RowsInHand /\ TargetsSuit /\ OrphansPaid /\ TimesKept
      /\ KeysKept /\ NoneSkipped
      /\ UNCHANGED <<source, job, data, happened>>
      /\ stops < MaxStops /\ stops' = stops + 1
      /\ ~RunnerAt(q, "idle") /\ ~RunnerAt(q, "advancing")
      /\ runner' = [runner EXCEPT ![q] = RunnerRests]
  BY DEF ImportsInv, StopsEarly, RunnerAt
<1>2. /\ runner' \in [Importer -> RunnerStates] /\ runner'[q] = RunnerRests
      /\ \A p \in Importer : p # q => runner'[p] = runner[p]
  BY <1>1, RestEffect
<1>3. stops \in Nat /\ MaxStops \in Nat /\ stops' \in 0..MaxStops /\ stops' > 0
  BY <1>1, ImportAssumption DEF ImportsShaped
<1>4. /\ \A p \in Importer : /\ runner'[p] = RunnerRests /\ runner'[p].at = "idle"
                             /\ runner'[p].mark = 0 /\ runner'[p].target = 0
                             /\ runner'[p].rows = {}
      /\ OneImports' /\ TargetsSuit'
  BY <1>1, <1>2, <1>3, NobodyRuns
<1>5. /\ \A d : Exists(d)' = Exists(d)
      /\ \A d, v : Copies(d, v)' = Copies(d, v)
      /\ \A p \in Importer : ~RunnerAt(p, "idle")' => FALSE
      /\ \A p \in Importer : runner'[p].at \notin EarlyPoint \cup LatePoint
  BY <1>1, <1>4, PointsDiffer DEF Exists, Copies, RunnerAt
<1>6. ImportsShaped'
  BY <1>1, <1>2, <1>3 DEF ImportsShaped
<1>7. RowsInHand'
  <2>1. Come(job.mark)' /\ \A p \in Importer : Come(runner[p].mark)'
    BY <1>1, <1>4 DEF RowsInHand, Come
  <2>2. Cardinality({}) = 0 /\ 0 <= MaxRows
    BY FS_EmptySet, ImportAssumption
  <2> QED BY <1>1, <1>4, <2>1, <2>2 DEF RowsInHand
<1>8. OrphansPaid'
  <2>1. ASSUME NEW d \in Orphans' PROVE d \in Orphans
    <3>1. d \in Dataset /\ Exists(d) /\ d # job.target
      BY <1>1, <1>5, <2>1 DEF Orphans
    <3>2. runner[q].target # d
      BY <1>1, <3>1 DEF TargetsSuit
    <3>3. \A p \in Importer : runner[p].target # d
      BY <1>1, <3>1, <3>2, OthersRest, ImportSets
    <3> QED BY <3>1, <3>3 DEF Orphans
  <2> QED BY <1>1, <2>1, NoMoreOrphans
<1>9. TimesKept'
  <2>1. Times \in Nat /\ Times' \in Nat /\ Times <= Times'
    BY <1>1, TimesGrow
  <2>2. \A p \in Importer : ~RunnerAt(p, "advancing")
    BY <1>1 DEF OneImports, RunnerAt
  <2>3. \A d \in Dataset, v \in Version : Copies(d, v)' <= Times'
    <3>1. SUFFICES ASSUME NEW d \in Dataset, NEW v \in Version PROVE Copies(d, v)' <= Times'
      OBVIOUS
    <3>2. Copies(d, v) <= Times /\ Copies(d, v) \in Nat
      BY <1>1, CountsAreNumbers DEF TimesKept
    <3> QED BY <1>5, <2>1, <3>2
  <2>4. \A v \in Version : Copies(job.target, v) + Unread(job.mark, v) <= Times'
    <3>1. SUFFICES ASSUME NEW v \in Version
                   PROVE  Copies(job.target, v) + Unread(job.mark, v) <= Times'
      OBVIOUS
    <3>2. Copies(job.target, v) + Unread(job.mark, v) <= Times
      BY <1>1, <2>2 DEF TimesKept
    <3>3. Copies(job.target, v) \in Nat /\ Unread(job.mark, v) \in {0, 1}
      BY <1>1, CountsAreNumbers DEF ImportsShaped
    <3> QED BY <2>1, <3>2, <3>3
  <2> QED BY <1>1, <1>5, <2>3, <2>4 DEF TimesKept
<1>10. KeysKept'
  <2>1. SUFFICES ASSUME job.mode = "incremental_merge", "mode changed" \notin happened
                 PROVE  KeysKept'
    BY <1>1 DEF KeysKept
  <2>2. \A d \in Dataset : Exists(d)' => OfOneKey(data'[d])
    BY <1>1, <1>5, <2>1 DEF KeysKept
  <2> QED BY <1>5, <2>2 DEF KeysKept, OfOneKey
<1>11. NoneSkipped'
  <2>1. Exists(job.target)' = Exists(job.target)
    BY <1>1 DEF Exists
  <2> QED BY <1>1, <1>5, <2>1 DEF NoneSkipped
<1> QED BY <1>4, <1>6, <1>7, <1>8, <1>9, <1>10, <1>11 DEF ImportsInv

\* A run that stops between its commits leaves its rows stored and the mark where it was.
LEMMA StopsBetweenStep ==
    ASSUME ImportsInv, NEW q \in Importer, StopsBetween(q)
    PROVE  ImportsInv'
<1>1. /\ ImportsShaped /\ OneImports /\ RowsInHand /\ TargetsSuit /\ OrphansPaid /\ TimesKept
      /\ KeysKept /\ NoneSkipped
      /\ UNCHANGED <<source, job, data>>
      /\ Happens("stopped between")
      /\ ~RunnerAt(q, "idle") /\ runner[q].at = "advancing"
      /\ runner' = [runner EXCEPT ![q] = RunnerRests]
  BY DEF ImportsInv, StopsBetween, RunnerAt
<1>2. /\ runner' \in [Importer -> RunnerStates] /\ runner'[q] = RunnerRests
      /\ \A p \in Importer : p # q => runner'[p] = runner[p]
  BY <1>1, RestEffect
<1>3. /\ stops \in Nat /\ stops' \in 0..MaxStops /\ stops' > 0
      /\ stops' = stops + 1 /\ happened' = happened \cup {"stopped between"}
      /\ "stopped between" \in Upset /\ happened' \in SUBSET Upset
  <2>1. "stopped between" \in Upset
    BY DEF Upset
  <2> QED BY <1>1, <2>1, HappensEffect
<1>4. /\ \A p \in Importer : /\ runner'[p] = RunnerRests /\ runner'[p].at = "idle"
                             /\ runner'[p].mark = 0 /\ runner'[p].target = 0
                             /\ runner'[p].rows = {}
      /\ OneImports' /\ TargetsSuit'
  BY <1>1, <1>2, <1>3, NobodyRuns
<1>5. /\ \A d : Exists(d)' = Exists(d)
      /\ \A d, v : Copies(d, v)' = Copies(d, v)
      /\ \A p \in Importer : ~RunnerAt(p, "idle")' => FALSE
      /\ \A p \in Importer : runner'[p].at \notin EarlyPoint \cup LatePoint
  BY <1>1, <1>4, PointsDiffer DEF Exists, Copies, RunnerAt
<1>6. ImportsShaped'
  BY <1>1, <1>2, <1>3 DEF ImportsShaped
<1>7. RowsInHand'
  <2>1. Come(job.mark)' /\ \A p \in Importer : Come(runner[p].mark)'
    BY <1>1, <1>4 DEF RowsInHand, Come
  <2>2. Cardinality({}) = 0 /\ 0 <= MaxRows
    BY FS_EmptySet, ImportAssumption
  <2> QED BY <1>1, <1>4, <2>1, <2>2 DEF RowsInHand
<1>8. OrphansPaid'
  <2> DEFINE left == runner[q].target
  <2>1. ASSUME NEW d \in Orphans' PROVE d \in Orphans \cup {left}
    <3>1. SUFFICES ASSUME d # left PROVE d \in Orphans
      OBVIOUS
    <3>2. d \in Dataset /\ Exists(d) /\ d # job.target
      BY <1>1, <1>5, <2>1 DEF Orphans
    <3>3. \A p \in Importer : runner[p].target # d
      BY <1>1, <3>1, <3>2, OthersRest, ImportSets
    <3> QED BY <3>2, <3>3 DEF Orphans
  <2>2. IsFiniteSet(Orphans)
    BY <1>1, ImportSets, FS_Subset DEF Orphans
  <2>3. /\ IsFiniteSet(Orphans \cup {left})
        /\ Cardinality(Orphans \cup {left})
             = IF left \in Orphans THEN Cardinality(Orphans) ELSE Cardinality(Orphans) + 1
    BY <2>2, FS_AddElement
  <2>4. IsFiniteSet(Orphans') /\ Cardinality(Orphans') <= Cardinality(Orphans \cup {left})
    BY <2>1, <2>3, FS_Subset
  <2>5. /\ Cardinality(Orphans) \in Nat /\ Cardinality(Orphans') \in Nat
        /\ Cardinality(Orphans) <= stops
    BY <1>1, <2>2, <2>4, FS_CardinalityType DEF OrphansPaid
  <2>6. Cardinality(Orphans \cup {left}) <= Cardinality(Orphans) + 1
        /\ Cardinality(Orphans \cup {left}) \in Nat
    BY <2>3, <2>5
  <2>7. stops \in Nat /\ stops' = stops + 1
    BY <1>3
  <2>8. Cardinality(Orphans') <= stops'
    BY <2>4, <2>5, <2>6, <2>7
  <2> QED BY <2>8 DEF OrphansPaid
<1>9. TimesKept'
  <2>1. Times \in Nat /\ Times' \in Nat /\ Times + 1 <= Times' /\ 1 <= Times
    BY <1>1, <1>3, TimesGrow
  <2>2. \A d \in Dataset \cup {0}, v \in Version : Copies(d, v) \in Nat /\ Copies(d, v) <= Times
    BY <1>1, StoredBound
  <2>3. \A d \in Dataset, v \in Version : Copies(d, v)' <= Times'
    <3>1. SUFFICES ASSUME NEW d \in Dataset, NEW v \in Version PROVE Copies(d, v)' <= Times'
      OBVIOUS
    <3>2. Copies(d, v) \in Nat /\ Copies(d, v) <= Times /\ Copies(d, v)' = Copies(d, v)
      BY <1>5, <2>2
    <3> QED BY <2>1, <3>2
  <2>4. \A v \in Version : Copies(job.target, v) + Unread(job.mark, v) <= Times'
    <3>1. SUFFICES ASSUME NEW v \in Version
                   PROVE  Copies(job.target, v) + Unread(job.mark, v) <= Times'
      OBVIOUS
    <3>2. Copies(job.target, v) \in Nat /\ Copies(job.target, v) <= Times
          /\ Unread(job.mark, v) \in {0, 1}
      BY <1>1, <2>2, CountsAreNumbers DEF ImportsShaped
    <3> QED BY <2>1, <3>2
  <2> QED BY <1>1, <1>5, <2>3, <2>4 DEF TimesKept
<1>10. KeysKept'
  <2>1. SUFFICES ASSUME job.mode = "incremental_merge", "mode changed" \notin happened
                 PROVE  KeysKept'
    BY <1>1, <1>3 DEF KeysKept
  <2>2. \A d \in Dataset : Exists(d)' => OfOneKey(data'[d])
    BY <1>1, <1>5, <2>1 DEF KeysKept
  <2> QED BY <1>5, <2>2 DEF KeysKept, OfOneKey
<1>11. NoneSkipped'
  <2>1. Exists(job.target)' = Exists(job.target)
    BY <1>1 DEF Exists
  <2> QED BY <1>1, <1>3, <1>5, <2>1 DEF NoneSkipped
<1> QED BY <1>4, <1>6, <1>7, <1>8, <1>9, <1>10, <1>11 DEF ImportsInv

\* Somebody edits the job: its mode is another, or its mark is gone, also under a run.
LEMMA EditStep ==
    ASSUME ImportsInv, ResetWatermark \/ \E mode \in Mode : EditMode(mode)
    PROVE  ImportsInv'
<1>1. /\ ImportsShaped /\ OneImports /\ RowsInHand /\ TargetsSuit /\ OrphansPaid /\ TimesKept
      /\ KeysKept /\ NoneSkipped
      /\ UNCHANGED <<source, data, runner>>
  BY DEF ImportsInv, ResetWatermark, EditMode
<1>2. /\ job' \in [mode : Mode, mark : 0..MaxCursor, target : Dataset \cup {0}]
      /\ job'.target = job.target
      /\ (job'.mark = 0 /\ job'.mode = job.mode)
           \/ (job'.mark = job.mark /\ "mode changed" \in happened')
      /\ stops' \in 0..MaxStops /\ stops' > 0 /\ stops' = stops + 1
      /\ happened \subseteq happened' /\ happened' \in SUBSET Upset
      /\ Times' \in Nat /\ Times + 1 <= Times'
  <2>1. CASE ResetWatermark
    <3>1. Happens("reset") /\ job' = [job EXCEPT !.mark = 0]
      BY <2>1 DEF ResetWatermark
    <3>2. job' = [mode |-> job.mode, mark |-> 0, target |-> job.target]
      BY <1>1, <3>1, RowShapes
    <3>3. 0 \in 0..MaxCursor
      BY ImportAssumption
    <3>4. "reset" \in Upset /\ "reset" # "deleted"
      BY DEF Upset
    <3>5. /\ stops' \in 0..MaxStops /\ stops' > 0 /\ stops' = stops + 1
          /\ happened' = happened \cup {"reset"} /\ happened' \in SUBSET Upset
      BY <1>1, <3>1, <3>4, HappensEffect
    <3>6. Times' \in Nat /\ Times + 1 <= Times'
      BY <1>1, <3>1, <3>4, TimesGrow
    <3>7. job' \in [mode : Mode, mark : 0..MaxCursor, target : Dataset \cup {0}]
          /\ job'.target = job.target /\ job'.mark = 0 /\ job'.mode = job.mode
      BY <1>1, <3>2, <3>3, RowShapes
    <3> QED BY <3>5, <3>6, <3>7
  <2>2. ASSUME NEW mode \in Mode, EditMode(mode)
        PROVE  /\ job' \in [mode : Mode, mark : 0..MaxCursor, target : Dataset \cup {0}]
               /\ job'.target = job.target
               /\ job'.mark = job.mark /\ "mode changed" \in happened'
               /\ stops' \in 0..MaxStops /\ stops' > 0 /\ stops' = stops + 1
               /\ happened \subseteq happened' /\ happened' \in SUBSET Upset
               /\ Times' \in Nat /\ Times + 1 <= Times'
    <3>1. Happens("mode changed") /\ job' = [job EXCEPT !.mode = mode]
      BY <2>2 DEF EditMode
    <3>2. job' = [mode |-> mode, mark |-> job.mark, target |-> job.target]
      BY <1>1, <3>1, RowShapes
    <3>3. "mode changed" \in Upset /\ "mode changed" # "deleted"
      BY DEF Upset
    <3>4. /\ stops' \in 0..MaxStops /\ stops' > 0 /\ stops' = stops + 1
          /\ happened' = happened \cup {"mode changed"} /\ happened' \in SUBSET Upset
      BY <1>1, <3>1, <3>3, HappensEffect
    <3>5. Times' \in Nat /\ Times + 1 <= Times'
      BY <1>1, <3>1, <3>3, TimesGrow
    <3>6. job' \in [mode : Mode, mark : 0..MaxCursor, target : Dataset \cup {0}]
          /\ job'.target = job.target /\ job'.mark = job.mark
      BY <1>1, <2>2, <3>2, RowShapes
    <3> QED BY <3>4, <3>5, <3>6
  <2> QED BY <2>1, <2>2
<1>3. /\ \A d : Exists(d)' = Exists(d)
      /\ \A d, v : Copies(d, v)' = Copies(d, v)
      /\ \A p \in Importer, k \in RowKey : Behind(p, k)' = Behind(p, k)
  BY <1>1 DEF Exists, Copies, Behind
<1>4. ImportsShaped'
  BY <1>1, <1>2 DEF ImportsShaped
<1>5. OneImports'
  <2>1. CASE "mode changed" \in happened'
    BY <1>1, <1>2, <2>1 DEF OneImports, RunnerAt
  <2>2. CASE job'.mode = job.mode
    BY <1>1, <1>2, <2>2 DEF OneImports, RunnerAt
  <2> QED BY <1>2, <2>1, <2>2
<1>6. RowsInHand'
  <2>1. Come(job.mark)' /\ \A p \in Importer : Come(runner[p].mark)'
    BY <1>1, <1>2 DEF RowsInHand, Come
  <2> QED BY <1>1, <2>1 DEF RowsInHand
<1>7. TargetsSuit'
  <2>1. Exists(job.target)' = Exists(job.target)
    BY <1>1, <1>2 DEF Exists
  <2> QED BY <1>1, <1>2, <1>3, <2>1 DEF TargetsSuit, RunnerAt
<1>8. OrphansPaid'
  <2>1. Orphans' \subseteq Orphans
    BY <1>1, <1>2, <1>3 DEF Orphans
  <2> QED BY <1>1, <1>2, <2>1, NoMoreOrphans
<1>9. TimesKept'
  <2>1. Times \in Nat /\ Times' \in Nat /\ Times + 1 <= Times' /\ 1 <= Times
    BY <1>1, <1>2, TimesGrow
  <2>2. \A d \in Dataset \cup {0}, v \in Version : Copies(d, v) \in Nat /\ Copies(d, v) <= Times
    BY <1>1, StoredBound
  <2>3. \A mark, v : Unread(mark, v) = 0 \/ Unread(mark, v) = 1
    BY DEF Unread
  <2>4. \A d \in Dataset, v \in Version : Copies(d, v)' <= Times'
    <3>1. SUFFICES ASSUME NEW d \in Dataset, NEW v \in Version PROVE Copies(d, v)' <= Times'
      OBVIOUS
    <3>2. Copies(d, v) \in Nat /\ Copies(d, v) <= Times /\ Copies(d, v)' = Copies(d, v)
      BY <1>3, <2>2
    <3> QED BY <2>1, <3>2
  <2>5. \A v \in Version : Copies(job.target, v) + Unread(job'.mark, v) <= Times'
    <3>1. SUFFICES ASSUME NEW v \in Version
                   PROVE  Copies(job.target, v) + Unread(job'.mark, v) <= Times'
      OBVIOUS
    <3>2. Copies(job.target, v) \in Nat /\ Copies(job.target, v) <= Times
      BY <1>2, <2>2
    <3>3. Unread(job'.mark, v) = 0 \/ Unread(job'.mark, v) = 1
      BY <2>3
    <3> QED BY <2>1, <3>2, <3>3
  <2>6. ASSUME NEW p \in Importer, NEW v \in Version, runner[p].at \in EarlyPoint
        PROVE  Copies(runner[p].target, v) + Unread(runner[p].mark, v) + Changed(p)' <= Times'
    <3>1. Copies(runner[p].target, v) + Unread(runner[p].mark, v) + Changed(p) <= Times
      BY <1>1, <2>6 DEF TimesKept
    <3>2. Copies(runner[p].target, v) \in Nat
      BY <1>1, <2>2, RowShapes
    <3>3. /\ Unread(runner[p].mark, v) = 0 \/ Unread(runner[p].mark, v) = 1
          /\ Changed(p) = 0 \/ Changed(p) = 1
      BY <2>3 DEF Changed
    <3>4. Changed(p)' = 0 \/ Changed(p)' = 1
      BY DEF Changed
    <3> QED BY <2>1, <3>1, <3>2, <3>3, <3>4
  <2>7. ASSUME NEW p \in Importer, NEW v \in Version, runner[p].at \in LatePoint
        PROVE  runner[p].table[v] + Unread(Reached(p), v)' <= Times'
    <3>1. runner[p].table[v] + Unread(Reached(p), v) <= Times
      BY <1>1, <2>7 DEF TimesKept
    <3>2. runner[p].table[v] \in Nat
      BY <1>1, RowShapes
    <3>3. Unread(Reached(p), v) = 0 \/ Unread(Reached(p), v) = 1
      BY <2>3
    <3>4. Unread(Reached(p), v)' = 0 \/ Unread(Reached(p), v)' = 1
      BY DEF Unread
    <3> QED BY <2>1, <3>1, <3>2, <3>3, <3>4
  <2> QED BY <1>1, <1>2, <1>3, <2>4, <2>5, <2>6, <2>7 DEF TimesKept
<1>10. KeysKept'
  <2>1. SUFFICES ASSUME job'.mode = "incremental_merge", "mode changed" \notin happened'
                 PROVE  KeysKept'
    BY DEF KeysKept
  <2>2. job.mode = "incremental_merge" /\ "mode changed" \notin happened
    BY <1>2, <2>1
  <2> QED BY <1>1, <1>3, <2>2 DEF KeysKept, OfOneKey
<1>11. NoneSkipped'
  <2>1. SUFFICES ASSUME happened' \cap {"mode changed", "deleted"} = {} PROVE NoneSkipped'
    BY DEF NoneSkipped
  <2>2. happened \cap {"mode changed", "deleted"} = {} /\ job'.mark = 0
    BY <1>2, <2>1
  <2>3. Exists(job.target)' = Exists(job.target)
    BY <1>1, <1>2 DEF Exists
  <2>4. /\ Exists(job.target)' \/ (job'.target = 0 /\ job'.mark = 0)
        /\ \A k \in RowKey : ~(0 < source[k] /\ source[k] <= job'.mark)
    <3>1. \A k \in RowKey : ~(0 < source[k] /\ source[k] <= job'.mark)
      <4>1. \A k \in RowKey : source[k] \in Nat
        BY <1>1, RowShapes
      <4>2. job'.mark = 0
        BY <2>2
      <4> QED BY <4>1, <4>2
    <3>2. Exists(job.target) \/ job.target = 0
      BY <1>1, <2>2 DEF NoneSkipped
    <3> QED BY <1>2, <2>2, <2>3, <3>1, <3>2
  <2>5. \A p \in Importer : job'.mark <= runner[p].mark
    <3>1. \A p \in Importer : runner[p].mark \in Nat
      BY <1>1, RowShapes
    <3>2. job'.mark = 0
      BY <2>2
    <3> QED BY <3>1, <3>2
  <2> QED BY <1>1, <1>3, <2>2, <2>4, <2>5 DEF NoneSkipped, RunnerAt
<1> QED BY <1>4, <1>5, <1>6, <1>7, <1>8, <1>9, <1>10, <1>11 DEF ImportsInv

\* The dataset is deleted, also under a run, and the job's reference goes with it.
LEMMA DeleteStep ==
    ASSUME ImportsInv, DeleteDataset
    PROVE  ImportsInv'
<1>1. /\ ImportsShaped /\ OneImports /\ RowsInHand /\ TargetsSuit /\ OrphansPaid /\ TimesKept
      /\ KeysKept
      /\ UNCHANGED <<source, runner>>
      /\ Happens("deleted") /\ Exists(job.target)
      /\ data' = [data EXCEPT ![job.target] = Gone] /\ job' = [job EXCEPT !.target = 0]
  BY DEF ImportsInv, DeleteDataset
<1>2. PICK gone \in Dataset : gone = job.target
  BY <1>1 DEF ImportsShaped, Exists
<1>3. /\ job' \in [mode : Mode, mark : 0..MaxCursor, target : Dataset \cup {0}]
      /\ job'.target = 0 /\ job'.mark = job.mark /\ job'.mode = job.mode
  BY <1>1 DEF ImportsShaped
<1>4. Gone \in [Version -> Nat]
  BY ImportAssumption DEF Gone
<1>5. /\ data' \in [Dataset -> [Version -> Nat]] /\ data'[gone] = Gone
      /\ \A d \in Dataset : d # gone => data'[d] = data[d]
  BY <1>1, <1>2, <1>4 DEF ImportsShaped
<1>6. /\ stops \in Nat /\ stops' \in 0..MaxStops /\ stops' > 0
      /\ stops' = stops + 1 /\ happened' = happened \cup {"deleted"}
      /\ "deleted" \in Upset /\ happened' \in SUBSET Upset
  <2>1. "deleted" \in Upset
    BY DEF Upset
  <2> QED BY <1>1, <2>1, HappensEffect
<1>7. 0 \notin Dataset
  BY <1>1, ImportSets
<1>8. /\ ~Exists(gone)' /\ ~Exists(0)' /\ Exists(gone)
      /\ \A d \in Dataset : d # gone => Exists(d)' = Exists(d)
      /\ ~Exists(job.target)'
  BY <1>1, <1>2, <1>3, <1>5 DEF Exists
<1>9. ImportsShaped'
  BY <1>1, <1>3, <1>5, <1>6 DEF ImportsShaped
<1>10. OneImports'
  <2>1. happened \subseteq happened' /\ stops' > 0
    BY <1>6
  <2> QED BY <1>1, <1>3, <2>1 DEF OneImports, RunnerAt
<1>11. RowsInHand'
  <2>1. Come(job.mark)' /\ \A p \in Importer : Come(runner[p].mark)'
    BY <1>1, <1>3 DEF RowsInHand, Come
  <2> QED BY <1>1, <2>1 DEF RowsInHand
<1>12. \A p \in Importer : runner[p].target \in Dataset \cup {0}
  BY <1>1 DEF ImportsShaped, RunnerStates
<1>13. \A p \in Importer : ~RunnerAt(p, "idle") => runner[p].target = gone
  <2>1. SUFFICES ASSUME NEW p \in Importer, ~RunnerAt(p, "idle") PROVE runner[p].target = gone
    OBVIOUS
  <2>2. CASE RunnerAt(p, "advancing")
    BY <1>1, <1>2, <2>1, <2>2 DEF TargetsSuit
  <2>3. CASE ~RunnerAt(p, "advancing")
    BY <1>1, <1>2, <1>7, <2>1, <2>3 DEF TargetsSuit
  <2> QED BY <2>2, <2>3
<1>14. TargetsSuit'
  <2>1. ASSUME NEW p \in Importer, ~RunnerAt(p, "idle")'
        PROVE  IF RunnerAt(p, "advancing")'
               THEN /\ Exists(job.target)' => job'.target = runner'[p].target
                    /\ runner'[p].target # 0
                    /\ Exists(runner[p].target)' => data'[runner'[p].target] = runner'[p].table
               ELSE job'.target = runner'[p].target
                      \/ (job'.target = 0 /\ ~Exists(runner[p].target)')
    <3>1. runner'[p].target = gone /\ gone # 0
      BY <1>1, <1>7, <1>13, <2>1 DEF RunnerAt
    <3>2. ~Exists(runner[p].target)'
      BY <1>8, <3>1 DEF Exists
    <3> QED BY <1>3, <1>8, <3>1, <3>2
  <2> QED BY <2>1 DEF TargetsSuit
<1>15. OrphansPaid'
  <2>1. ASSUME NEW d \in Orphans' PROVE d \in Orphans
    <3>1. d \in Dataset /\ Exists(d)' /\ \A p \in Importer : runner[p].target # d
      BY <1>1, <2>1 DEF Orphans
    <3>2. d # gone /\ Exists(d)
      BY <1>8, <3>1
    <3> QED BY <1>2, <3>1, <3>2 DEF Orphans
  <2> QED BY <1>1, <1>6, <2>1, NoMoreOrphans
<1>16. TimesKept'
  <2>1. Times \in Nat /\ Times' \in Nat /\ Times <= Times' /\ 1 <= Times
    BY <1>1, <1>6, TimesGrow
  <2>2. \A d \in Dataset \cup {0}, v \in Version :
          Copies(d, v)' \in Nat /\ (Copies(d, v)' = 0 \/ Copies(d, v)' = Copies(d, v))
    <3>1. SUFFICES ASSUME NEW d \in Dataset \cup {0}, NEW v \in Version
                   PROVE  Copies(d, v)' \in Nat /\ (Copies(d, v)' = 0 \/ Copies(d, v)' = Copies(d, v))
      OBVIOUS
    <3>2. CASE d = gone \/ d = 0
      BY <1>8, <3>2 DEF Copies
    <3>3. CASE d # gone /\ d # 0
      BY <1>1, <1>5, <1>8, <3>3, CountsAreNumbers DEF Copies
    <3> QED BY <3>2, <3>3
  <2>3. \A mark, v : Unread(mark, v) = 0 \/ Unread(mark, v) = 1
    BY DEF Unread
  <2>4. \A d \in Dataset, v \in Version : Copies(d, v)' <= Times'
    <3>1. SUFFICES ASSUME NEW d \in Dataset, NEW v \in Version PROVE Copies(d, v)' <= Times'
      OBVIOUS
    <3>2. Copies(d, v) <= Times /\ Copies(d, v) \in Nat
      BY <1>1, CountsAreNumbers DEF TimesKept
    <3> QED BY <2>1, <2>2, <3>2
  <2>5. \A v \in Version : Copies(job.target, v)' + Unread(job.mark, v)' <= Times'
    <3>1. SUFFICES ASSUME NEW v \in Version
                   PROVE  Copies(job.target, v)' + Unread(job.mark, v)' <= Times'
      OBVIOUS
    <3>2. Copies(job.target, v)' = 0
      BY <1>8 DEF Copies
    <3>3. Unread(job.mark, v)' = 0 \/ Unread(job.mark, v)' = 1
      BY DEF Unread
    <3> QED BY <2>1, <3>2, <3>3
  <2>6. ASSUME NEW p \in Importer, NEW v \in Version, runner[p].at \in EarlyPoint
        PROVE  Copies(runner[p].target, v)' + Unread(runner[p].mark, v) + Changed(p)' <= Times'
    <3>1. Copies(runner[p].target, v) + Unread(runner[p].mark, v) + Changed(p) <= Times
      BY <1>1, <2>6 DEF TimesKept
    <3>2. PICK d \in Dataset \cup {0} : d = runner[p].target
      BY <1>12
    <3>3. Copies(runner[p].target, v)' = Copies(d, v)'
      BY <1>1, <3>2 DEF Copies, Exists
    <3>4. Copies(d, v) \in Nat
      BY <1>1, CountsAreNumbers
    <3>5. /\ Unread(runner[p].mark, v) = 0 \/ Unread(runner[p].mark, v) = 1
          /\ Changed(p) = 0 \/ Changed(p) = 1
      BY <2>3 DEF Changed
    <3>6. Changed(p)' = Changed(p)
      BY <1>1, <1>3 DEF Changed
    <3> QED BY <2>1, <2>2, <3>1, <3>2, <3>3, <3>4, <3>5, <3>6
  <2>7. ASSUME NEW p \in Importer, NEW v \in Version, runner[p].at \in LatePoint
        PROVE  runner[p].table[v] + Unread(Reached(p), v)' <= Times'
    <3>1. runner[p].table[v] + Unread(Reached(p), v) <= Times
      BY <1>1, <2>7 DEF TimesKept
    <3>2. runner[p].table[v] \in Nat
      BY <1>1, RowShapes
    <3>3. Unread(Reached(p), v) = 0 \/ Unread(Reached(p), v) = 1
      BY <2>3
    <3>4. Reached(p)' = Reached(p)
      BY <1>1, <1>3 DEF Reached
    <3> QED BY <2>1, <3>1, <3>2, <3>3, <3>4
  <2> QED BY <1>1, <2>4, <2>5, <2>6, <2>7 DEF TimesKept
<1>17. KeysKept'
  <2>1. SUFFICES ASSUME job'.mode = "incremental_merge", "mode changed" \notin happened'
                 PROVE  KeysKept'
    BY DEF KeysKept
  <2>2. job.mode = "incremental_merge" /\ "mode changed" \notin happened
    BY <1>3, <1>6, <2>1
  <2>3. \A d \in Dataset : Exists(d)' => OfOneKey(data'[d])
    BY <1>1, <1>5, <1>8, <2>2 DEF KeysKept
  <2>4. \A p \in Importer : runner'[p].at \in LatePoint => OfOneKey(runner'[p].table)
    BY <1>1, <2>2 DEF KeysKept
  <2> QED BY <2>3, <2>4 DEF KeysKept, OfOneKey
<1>18. NoneSkipped'
  BY <1>6 DEF NoneSkipped
<1> QED BY <1>9, <1>10, <1>11, <1>14, <1>15, <1>16, <1>17, <1>18 DEF ImportsInv

\* A run that has combined nothing yet holds no table.
LEMMA NothingMadeStep ==
    ASSUME ImportsShaped, OneImports, NothingMade, ImportsNext
    PROVE  NothingMade'
<1>1. RunnerRests.table = NoRows
  BY DEF RunnerRests
<1>2. ASSUME NEW q \in Importer, StartImport(q) PROVE NothingMade'
  <2> DEFINE row == [RunnerRests EXCEPT !.at = "reading", !.mode = job.mode, !.mark = job.mark,
                                        !.target = job.target]
  <2>1. runner' = [runner EXCEPT ![q] = row] /\ row.table = NoRows
    BY <1>1, <1>2 DEF StartImport, RunnerRests
  <2> HIDE DEF row
  <2> QED BY <2>1 DEF NothingMade, ImportsShaped
<1>3. ASSUME NEW q \in Importer, ReadSource(q) PROVE NothingMade'
  <2>1. PICK batch : runner' = [runner EXCEPT ![q].at = "combining", ![q].rows = batch]
    BY <1>3 DEF ReadSource
  <2>2. runner[q].table = NoRows
    BY <1>3, PointsDiffer DEF ReadSource, RunnerAt, NothingMade
  <2>3. /\ runner'[q].table = runner[q].table
        /\ \A p \in Importer : p # q => runner'[p] = runner[p]
    BY <2>1 DEF ImportsShaped, RunnerStates
  <2> QED BY <2>2, <2>3 DEF NothingMade
<1>4. ASSUME NEW q \in Importer, Combine(q) \/ Publish(q) PROVE NothingMade'
  <2>1. runner'[q].at \in LatePoint /\ \A p \in Importer : p # q => runner'[p] = runner[p]
    <3>1. CASE Combine(q)
      BY <3>1, PointsDiffer DEF Combine, ImportsShaped, RunnerStates
    <3>2. CASE Publish(q)
      BY <3>2, PointsDiffer DEF Publish, ImportsShaped, RunnerStates
    <3> QED BY <1>4, <3>1, <3>2
  <2> QED BY <2>1 DEF NothingMade
<1>5. ASSUME NEW q \in Importer, runner' = [runner EXCEPT ![q] = RunnerRests] PROVE NothingMade'
  BY <1>1, <1>5 DEF NothingMade, ImportsShaped
<1>6. ASSUME UNCHANGED runner PROVE NothingMade'
  BY <1>6 DEF NothingMade
<1>7. ASSUME NEW q \in Importer, ImportStep(q) PROVE NothingMade'
  <2>1. CASE Advance(q)
    BY <1>5, <2>1 DEF Advance
  <2> QED BY <1>2, <1>3, <1>4, <1>7, <2>1 DEF ImportStep
<1>8. ASSUME NEW q \in Importer, StopsEarly(q) \/ StopsBetween(q) PROVE NothingMade'
  BY <1>5, <1>8 DEF StopsEarly, StopsBetween
<1>9. ASSUME \/ \E k \in RowKey, cursor \in 1..MaxCursor : SourceWrites(k, cursor)
             \/ ResetWatermark \/ DeleteDataset
             \/ \E mode \in Mode : EditMode(mode)
      PROVE  NothingMade'
  BY <1>6, <1>9 DEF SourceWrites, ResetWatermark, DeleteDataset, EditMode
<1> QED BY <1>7, <1>8, <1>9 DEF ImportsNext

\* Before its first run the job has no dataset.
LEMMA ImportsStart ==
    ASSUME ImportsInit
    PROVE  ImportsInv /\ NothingMade
<1>1. /\ source = [k \in RowKey |-> 0]
      /\ job \in [mode : {"incremental_append", "incremental_merge"}, mark : {0}, target : {0}]
      /\ data = [d \in Dataset |-> Gone]
      /\ runner = [q \in Importer |-> RunnerRests]
      /\ stops = 0 /\ happened = {}
  BY DEF ImportsInit
<1>2. 0 \in 0..MaxCursor /\ 0 \in 0..MaxStops /\ Gone \in [Version -> Nat]
  BY ImportAssumption DEF Gone
<1>3. /\ \A p \in Importer : /\ runner[p] = RunnerRests /\ runner[p].at = "idle"
                             /\ runner[p].mark = 0 /\ runner[p].target = 0 /\ runner[p].rows = {}
                             /\ runner[p].table = NoRows
      /\ \A k \in RowKey : source[k] = 0
      /\ \A d : d \in Dataset => ~Exists(d)
      /\ job.mode \in {"incremental_append", "incremental_merge"}
      /\ job.mark = 0 /\ job.target = 0
  BY <1>1 DEF RunnerRests, Exists
<1>4. ImportsShaped
  <2>1. job \in [mode : Mode, mark : 0..MaxCursor, target : Dataset \cup {0}]
    BY <1>1, <1>2 DEF Mode
  <2>2. source \in [RowKey -> 0..MaxCursor] /\ data \in [Dataset -> [Version -> Nat]]
        /\ runner \in [Importer -> RunnerStates]
    BY <1>1, <1>2, RestingShape
  <2> QED BY <1>1, <1>2, <2>1, <2>2 DEF ImportsShaped
<1>5. OneImports
  BY <1>1, <1>3 DEF OneImports, RunnerAt
<1>6. RowsInHand
  <2>1. Cardinality({}) = 0 /\ 0 <= MaxRows
    BY FS_EmptySet, ImportAssumption
  <2>2. Come(job.mark) /\ \A p \in Importer : Come(runner[p].mark)
    BY <1>3 DEF Come
  <2> QED BY <1>3, <2>1, <2>2 DEF RowsInHand
<1>7. TargetsSuit
  BY <1>3 DEF TargetsSuit, RunnerAt
<1>8. OrphansPaid
  <2>1. Orphans = {}
    BY <1>3 DEF Orphans
  <2> QED BY <1>1, <2>1, FS_EmptySet DEF OrphansPaid
<1>9. /\ \A p \in Importer : runner[p].at \notin EarlyPoint \cup LatePoint
      /\ \A d \in Dataset \cup {0} : \A v : Copies(d, v) = 0
  BY <1>3, PointsDiffer DEF Copies, Exists
<1>10. TimesKept
  <2>1. Times = 1
    BY <1>1 DEF Times
  <2>2. \A mark, v : Unread(mark, v) = 0 \/ Unread(mark, v) = 1
    BY DEF Unread
  <2>3. \A v \in Version : Copies(job.target, v) + Unread(job.mark, v) <= Times
    BY <1>3, <1>9, <2>1, <2>2
  <2>4. \A d \in Dataset, v \in Version : Copies(d, v) <= Times
    BY <1>9, <2>1
  <2> QED BY <1>9, <2>3, <2>4 DEF TimesKept
<1>11. KeysKept
  BY <1>3, <1>9 DEF KeysKept
<1>12. NoneSkipped
  BY <1>3, <1>9 DEF NoneSkipped, RunnerAt
<1>13. NothingMade
  BY <1>3 DEF NothingMade
<1> QED BY <1>4, <1>5, <1>6, <1>7, <1>8, <1>10, <1>11, <1>12, <1>13 DEF ImportsInv

\* The invariant is what the job's users rely on, and more.
LEMMA ImportsInvSafe ==
    ASSUME ImportsInv, NothingMade
    PROVE  ImportSafety
<1>1. /\ ImportsShaped /\ OneImports /\ RowsInHand /\ TargetsSuit /\ TimesKept /\ KeysKept
      /\ NoneSkipped
  BY DEF ImportsInv
<1>2. Times \in Nat /\ 1 <= Times /\ Times <= MaxStops + 1 /\ MaxStops \in Nat
  BY <1>1, TimesGrow, ImportAssumption
<1>3. ASSUME NEW n \in Nat, n <= Times PROVE n \in 0..(MaxStops + 2)
  BY <1>2, <1>3
<1>4. \A d \in Dataset : data[d] = Gone \/ data[d] \in [Version -> 0..(MaxStops + 2)]
  <2>1. SUFFICES ASSUME NEW d \in Dataset, data[d] # Gone
                 PROVE  data[d] \in [Version -> 0..(MaxStops + 2)]
    OBVIOUS
  <2>2. data[d] \in [Version -> Nat] /\ d # 0
    BY <1>1, ImportSets DEF ImportsShaped
  <2>3. ASSUME NEW v \in Version PROVE data[d][v] \in 0..(MaxStops + 2)
    <3>1. Copies(d, v) = data[d][v]
      BY <2>1, <2>2 DEF Copies, Exists
    <3>2. data[d][v] \in Nat /\ data[d][v] <= Times
      BY <1>1, <2>2, <3>1 DEF TimesKept
    <3> QED BY <1>3, <3>2
  <2> QED BY <2>2, <2>3
<1>5. \A q \in Importer : runner[q].table \in [Version -> 0..(MaxStops + 2)]
  <2>1. SUFFICES ASSUME NEW q \in Importer
                 PROVE  runner[q].table \in [Version -> 0..(MaxStops + 2)]
    OBVIOUS
  <2>2. runner[q].table \in [Version -> Nat]
    BY <1>1, RowShapes
  <2>3. ASSUME NEW v \in Version PROVE runner[q].table[v] \in 0..(MaxStops + 2)
    <3>1. CASE runner[q].at \in LatePoint
      <4>1. runner[q].table[v] + Unread(Reached(q), v) <= Times
        BY <1>1, <3>1 DEF TimesKept
      <4>2. Unread(Reached(q), v) = 0 \/ Unread(Reached(q), v) = 1
        BY DEF Unread
      <4>3. runner[q].table[v] \in Nat
        BY <2>2
      <4>4. runner[q].table[v] <= Times
        BY <1>2, <4>1, <4>2, <4>3
      <4> QED BY <1>3, <4>3, <4>4
    <3>2. CASE runner[q].at \notin LatePoint
      <4>1. runner[q].table[v] = 0
        BY <3>2 DEF NothingMade, NoRows
      <4> QED BY <1>2, <4>1
    <3> QED BY <3>1, <3>2
  <2> QED BY <2>2, <2>3
<1>6. ImportsTypeOK
  <2>1. \A q \in Importer :
          /\ runner[q].at \in {"idle", "reading", "combining", "publishing", "advancing"}
          /\ runner[q].mode \in Mode /\ runner[q].mark \in 0..MaxCursor
          /\ runner[q].target \in Dataset \cup {0}
          /\ runner[q].rows \subseteq Version
    BY <1>1 DEF ImportsShaped, RunnerStates, EarlyPoint, LatePoint
  <2>2. \A q \in Importer : Cardinality(runner[q].rows) <= MaxRows
    BY <1>1 DEF RowsInHand
  <2>3. DOMAIN data = Dataset
    BY <1>1 DEF ImportsShaped
  <2>4. /\ source \in [RowKey -> 0..MaxCursor]
        /\ job \in [mode : Mode, mark : 0..MaxCursor, target : Dataset \cup {0}]
        /\ stops \in 0..MaxStops /\ happened \subseteq Upset
    BY <1>1 DEF ImportsShaped
  <2> QED BY <1>4, <1>5, <2>1, <2>2, <2>3, <2>4 DEF ImportsTypeOK
<1>7. LoadedOnce
  <2>1. ASSUME NEW d \in Dataset, Exists(d),
               happened \cap {"stopped between", "reset", "mode changed"} = {}, NEW v \in Version
        PROVE  data[d][v] <= 1
    <3>1. Times = 1
      BY <2>1 DEF Times
    <3>2. Copies(d, v) = data[d][v]
      BY <2>1 DEF Copies
    <3>3. Copies(d, v) <= Times
      BY <1>1 DEF TimesKept
    <3> QED BY <3>1, <3>2, <3>3
  <2>2. ASSUME NEW d \in Dataset, Exists(d),
               job.mode = "incremental_merge", "mode changed" \notin happened
        PROVE  OfOneKey(data[d])
    BY <1>1, <2>2 DEF KeysKept
  <2> QED BY <2>1, <2>2 DEF LoadedOnce, OfOneKey
<1>8. NothingSkipped
  <2>1. SUFFICES ASSUME happened \cap {"mode changed", "deleted"} = {},
                        NEW k \in RowKey, 0 < source[k], source[k] <= job.mark
                 PROVE  Holds(job.target, <<k, source[k]>>)
    BY DEF NothingSkipped
  <2>2. Copies(job.target, <<k, source[k]>>) > 0
    BY <1>1, <2>1 DEF NoneSkipped
  <2> QED BY <2>2 DEF Copies, Holds
<1> QED BY <1>6, <1>7, <1>8 DEF ImportSafety

\* What an import relies on: while a job's runs do not overlap, no two rows share a cursor, rows
\* appear in the order of their cursors, and its dataset can be read, no row is stored
\* twice and none behind the watermark is missing, whatever stops a run or edits the job.
THEOREM ImportsAreSafe ==
    ASSUME RunsOverlap = FALSE, CursorsTie = FALSE, RowsComeLate = FALSE, ReadsFail = FALSE
    PROVE  ImportsSpec => []ImportSafety
<1> DEFINE Inv == ImportsInv /\ NothingMade
<1>1. ImportsInit => Inv
  BY ImportsStart
<1>2. Inv /\ [ImportsNext]_importVars => Inv'
  <2>1. ASSUME Inv, ImportsNext PROVE ImportsInv'
    <3>1. ASSUME NEW k \in RowKey, NEW cursor \in 1..MaxCursor, SourceWrites(k, cursor)
          PROVE  ImportsInv'
      BY <2>1, <3>1, SourceStep
    <3>2. ASSUME NEW q \in Importer, ImportStep(q) PROVE ImportsInv'
      BY <2>1, <3>2, StartStep, ReadStep, CombineStep, PublishStep, AdvanceStep DEF ImportStep
    <3>3. ASSUME NEW q \in Importer, StopsEarly(q) \/ StopsBetween(q) PROVE ImportsInv'
      BY <2>1, <3>3, StopsEarlyStep, StopsBetweenStep
    <3>4. ASSUME ResetWatermark \/ \E mode \in Mode : EditMode(mode) PROVE ImportsInv'
      BY <2>1, <3>4, EditStep
    <3>5. ASSUME DeleteDataset PROVE ImportsInv'
      BY <2>1, <3>5, DeleteStep
    <3> QED BY <2>1, <3>1, <3>2, <3>3, <3>4, <3>5 DEF ImportsNext
  <2>2. ASSUME Inv, ImportsNext PROVE NothingMade'
    BY <2>2, NothingMadeStep DEF ImportsInv
  <2>3. ASSUME Inv, UNCHANGED importVars PROVE Inv'
    <3>1. UNCHANGED <<source, job, data, runner, stops, happened>>
      BY <2>3 DEF importVars
    <3>2. /\ Times' = Times /\ Orphans' = Orphans
          /\ \A d : Exists(d)' = Exists(d)
          /\ \A d, v : Copies(d, v)' = Copies(d, v)
          /\ \A q : (Reached(q)' = Reached(q)) /\ (Changed(q)' = Changed(q))
          /\ \A q, k : Behind(q, k)' = Behind(q, k)
      BY <3>1 DEF Times, Orphans, Exists, Copies, Reached, Changed, Behind
    <3>3. ImportsShaped' /\ OneImports' /\ NothingMade'
      BY <2>3, <3>1 DEF ImportsInv, ImportsShaped, OneImports, NothingMade, RunnerAt
    <3>4. OrphansPaid'
      BY <2>3, <3>1, <3>2 DEF ImportsInv, OrphansPaid
    <3>5. KeysKept'
      BY <2>3, <3>1, <3>2 DEF ImportsInv, KeysKept, OfOneKey
    <3>6. RowsInHand'
      BY <2>3, <3>1 DEF ImportsInv, RowsInHand, Come
    <3>7. TargetsSuit' /\ TimesKept' /\ NoneSkipped'
      BY <2>3, <3>1, <3>2 DEF ImportsInv, TargetsSuit, TimesKept, NoneSkipped, Unread, RunnerAt
    <3> QED BY <3>3, <3>4, <3>5, <3>6, <3>7 DEF ImportsInv
  <2> QED BY <2>1, <2>2, <2>3
<1>3. Inv => ImportSafety
  BY ImportsInvSafe
<1> QED BY <1>1, <1>2, <1>3, PTL DEF ImportsSpec
=============================================================================
