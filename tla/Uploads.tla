------------------------------ MODULE Uploads -------------------------------
(***************************************************************************)
(* An upload in parts (service_ingestion/resumable.py and the requests of  *)
(* its router): the session's row, the parts in storage, and requests of   *)
(* one client that overlap, are sent again and die.                        *)
(*                                                                         *)
(* A request reads the session once and works on what it read; storage and *)
(* the row change in steps of their own.  The client gives a checksum.     *)
(***************************************************************************)
EXTENDS Naturals, FiniteSets

CONSTANTS
    Chunk,
    Request,
    Nothing,       \* no chunk
    MaxMishaps,    \* bound on spoilt chunks, resent requests, deaths and errors
    Overlaps       \* a request to complete runs beside another of the session

\* A file has a chunk at least, an empty one too (resumable.py:72-73).
ASSUME UploadsAssumption ==
    /\ Chunk # {} /\ IsFiniteSet(Request) /\ MaxMishaps \in Nat

VARIABLES
    session,   \* the row: [there, received, expired]
    part,      \* [Chunk -> what storage holds; "removed" once it is cleaned up]
    request,   \* [Request -> [at, chunk, data, seen]]
    datasets,  \* what was ingested, in order
    client,    \* sending chunks, completing, or refused and to start again
    mishaps

uploadVars == <<session, part, request, datasets, client, mishaps>>

NoRequest == [at |-> "idle", chunk |-> Nothing, data |-> "good", seen |-> {}]

Completing == {"joining", "cleaning", "ingesting", "dropping"}

UploadsTypeOK ==
    /\ session \in [there : {"not yet", "yes", "no"}, received : SUBSET Chunk, expired : BOOLEAN]
    /\ part \in [Chunk -> {"none", "good", "spoilt", "removed"}]
    /\ request \in [Request -> [at : {"idle", "storing", "saving", "clearing away"} \cup Completing,
                                chunk : Chunk \cup {Nothing}, data : {"good", "spoilt"},
                                seen : SUBSET Chunk]]
    /\ datasets \in 0..Cardinality(Request)
    /\ client \in {"sending", "completing", "refused"}
    /\ mishaps \in 0..MaxMishaps
    /\ \A q \in Request : request[q].at = "saving" => request[q].chunk \in request[q].seen

UploadsInit ==
    /\ session = [there |-> "not yet", received |-> {}, expired |-> FALSE]
    /\ part = [c \in Chunk |-> "none"]
    /\ request = [q \in Request |-> NoRequest]
    /\ datasets = 0
    /\ client = "sending"
    /\ mishaps = 0

Mishap == mishaps < MaxMishaps /\ mishaps' = mishaps + 1

Doing(q, what) == request[q].at = what
Then(q, what) == request' = [request EXCEPT ![q].at = what]
Answer(q) == request' = [request EXCEPT ![q] = NoRequest]

\* What SessionStore.get gives a request.
Found == session.there = "yes" /\ ~session.expired
Missing == Chunk \ session.received

Create ==
    /\ session.there = "not yet"
    /\ session' = [session EXCEPT !.there = "yes"]
    /\ UNCHANGED <<part, request, datasets, client, mishaps>>

-----------------------------------------------------------------------------
(* One chunk: the session is read, the part is stored, the row is saved.   *)

PutRead(q, c, data) ==
    /\ Doing(q, "idle") /\ Found
    /\ request' = [request EXCEPT ![q] = [at |-> "storing", chunk |-> c, data |-> data,
                                          seen |-> session.received]]
    /\ UNCHANGED <<session, part, datasets, client>>

\* The client sends what it was told is missing.
SendMissing(q) ==
    \E c \in Missing :
        /\ \A other \in Request : request[other].chunk # c
        /\ PutRead(q, c, "good")
        /\ UNCHANGED mishaps

\* A chunk is sent again, or arrives spoilt.
SendAgain(q) ==
    /\ client = "sending"
    /\ Mishap
    /\ \E c \in Chunk, data \in {"good", "spoilt"} : PutRead(q, c, data)

Stored(q) == [part EXCEPT ![request[q].chunk] = request[q].data]

SeenNow(q) == request[q].seen \cup {request[q].chunk}

ReceiveChunk(q) ==
    /\ Doing(q, "storing")
    /\ part' = Stored(q)
    /\ request' = [request EXCEPT ![q].at = "saving", ![q].seen = SeenNow(q)]
    /\ UNCHANGED <<session, datasets, client, mishaps>>

\* The whole list is written from what this request read and received.
Save(q) ==
    /\ Doing(q, "saving")
    /\ session' = IF session.there = "yes" THEN [session EXCEPT !.received = request[q].seen]
                  ELSE session
    /\ Answer(q)
    /\ UNCHANGED <<part, datasets, client, mishaps>>

-----------------------------------------------------------------------------
(* Completion: join and check, remove the parts, ingest, drop the row.     *)

CompleteRead(q) ==
    /\ Doing(q, "idle") /\ Found
    /\ Missing = {}
    /\ Overlaps \/ \A other \in Request : Doing(other, "idle")
    /\ Then(q, "joining")
    /\ UNCHANGED <<session, part, datasets>>

Complete(q) ==
    /\ client # "refused"
    /\ client' = "completing"
    /\ CompleteRead(q)
    /\ UNCHANGED mishaps

\* After a refusal the client may still ask again.
CompleteAgain(q) == client = "refused" /\ Mishap /\ CompleteRead(q) /\ UNCHANGED client

\* A part is missing from storage, or the whole has another checksum.
Matches == \A c \in Chunk : part[c] = "good"

Assemble(q) ==
    /\ Doing(q, "joining")
    /\ IF Matches THEN Then(q, "cleaning") /\ UNCHANGED client
                  ELSE Answer(q) /\ client' = "refused"
    /\ UNCHANGED <<session, part, datasets, mishaps>>

\* Mutant: the parts stay where they are.
PartsKept == part

PartsRemoved == [c \in Chunk |-> IF part[c] = "none" THEN "none" ELSE "removed"]

Cleanup(q) ==
    /\ Doing(q, "cleaning")
    /\ part' = PartsRemoved
    /\ Then(q, "ingesting")
    /\ UNCHANGED <<session, datasets, client, mishaps>>

\* The specification of the reading cannot be found: the session stays.
SpecNotFound(q) ==
    /\ Doing(q, "ingesting")
    /\ Mishap
    /\ Answer(q)
    /\ client' = "refused"
    /\ UNCHANGED <<session, part, datasets>>

\* A file that cannot be read ends the session as one that was.
Ingest(q) ==
    /\ Doing(q, "ingesting")
    /\ datasets' \in {datasets, datasets + 1}
    /\ Then(q, "dropping")
    /\ UNCHANGED <<session, part, client, mishaps>>

Drop(q) ==
    /\ Doing(q, "dropping")
    /\ session' = [session EXCEPT !.there = "no"]
    /\ Answer(q)
    /\ UNCHANGED <<part, datasets, client, mishaps>>

-----------------------------------------------------------------------------
(* Abandoning, expiring, dying.                                            *)

AbandonRead(q) ==
    /\ Doing(q, "idle") /\ Found
    /\ Then(q, "clearing away")
    /\ UNCHANGED <<session, part, datasets, client, mishaps>>

StartAgain(q) == client = "refused" /\ AbandonRead(q)

AbandonCleanup(q) ==
    /\ Doing(q, "clearing away")
    /\ part' = PartsRemoved
    /\ Then(q, "dropping")
    /\ UNCHANGED <<session, datasets, client, mishaps>>

Expire ==
    /\ Found
    /\ session' = [session EXCEPT !.expired = TRUE]
    /\ UNCHANGED <<part, request, datasets, client, mishaps>>

\* Another upload starts: the expired rows go, and their parts are nobody's.
Sweep ==
    /\ session.there = "yes" /\ session.expired
    /\ session' = [session EXCEPT !.there = "no"]
    /\ UNCHANGED <<part, request, datasets, client, mishaps>>

RequestDies(q) ==
    /\ ~Doing(q, "idle")
    /\ Mishap
    /\ Answer(q)
    /\ UNCHANGED <<session, part, datasets, client>>

Serve(q) ==
    \/ ReceiveChunk(q) \/ Save(q) \/ Assemble(q) \/ Cleanup(q) \/ Ingest(q) \/ Drop(q)
    \/ AbandonCleanup(q)

ClientGoesOn(q) == SendMissing(q) \/ Complete(q) \/ StartAgain(q)

UploadsNext ==
    \/ Create \/ Expire \/ Sweep
    \/ \E q \in Request :
         \/ Serve(q) \/ ClientGoesOn(q)
         \/ SendAgain(q) \/ CompleteAgain(q) \/ AbandonRead(q) \/ SpecNotFound(q) \/ RequestDies(q)

\* The service answers what it received; the client goes on until its session ends.
UploadsFairness == \A q \in Request : WF_uploadVars(Serve(q)) /\ WF_uploadVars(ClientGoesOn(q))

UploadsSpec == UploadsInit /\ [][UploadsNext]_uploadVars
FairUploadsSpec == UploadsSpec /\ UploadsFairness

-----------------------------------------------------------------------------
\* A chunk a resuming client is told has arrived was stored, whatever died:
\* the part is written before the row that lists it.
ArrivedIsStored ==
    session.there = "yes" => \A c \in session.received : part[c] # "none"

\* A file becomes one dataset, though the request that ingested it died and was
\* sent again.
IngestedOnce == datasets <= 1

\* A client that sends what is missing, completes, and starts again when it is
\* refused comes to the end of its session.
UploadEnds == session.there = "yes" ~> session.there = "no" \/ session.expired

\* What resumable.py promises of a session that nobody finished: "is swept with
\* its parts".
PartsGoWithTheSession ==
    session.there = "no" /\ (\A q \in Request : Doing(q, "idle"))
        => \A c \in Chunk : part[c] \in {"none", "removed"}

\* What holds of an upload at every moment: a chunk that is recorded is on the disk, and the
\* file becomes one dataset at most (resumable.py).
UploadSafety ==
    /\ UploadsTypeOK
    /\ ArrivedIsStored
    /\ IngestedOnce
=============================================================================
