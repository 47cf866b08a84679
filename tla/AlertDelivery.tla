--------------------------- MODULE AlertDelivery ----------------------------
(***************************************************************************)
(* An alert on a measure (service_observability/alerts.py), the events it  *)
(* writes when its line is crossed, the workers that send each once, and   *)
(* the webhook that is tried again                                         *)
(* (service_notifications/senders/webhook_sender.py).                      *)
(*                                                                         *)
(* One alert and one webhook target; a capture of the measures, or a person *)
(* who moves the line, writes at most one event, and an event makes at most *)
(* one delivery.                                                           *)
(***************************************************************************)
EXTENDS Naturals, Sequences, FiniteSets

CONSTANTS
    Capture,          \* captures of the measures and moves of the line
    Sender,           \* the workers that send
    MaxAttempts,      \* tries of a delivery (webhook_sender.MAX_ATTEMPTS)
    MaxKills,         \* bound on workers that die
    CapturesOverlap,  \* two of them at once
    DiesSending       \* a worker dies between claiming an event and the commit that tells people

ASSUME AlertAssumption ==
    IsFiniteSet(Sender) /\ MaxAttempts \in Nat \ {0} /\ MaxKills \in Nat

VARIABLES
    line,       \* MetricAlert.state
    capture,    \* [Capture -> [at, past, moves, seen]]
    events,     \* the events in the order they were written: [of, kind, afresh]
    afresh,     \* the line was moved since the last event
    sent,       \* [Capture -> sent_at is set]
    told,       \* [Capture -> times the event was sent]
    untold,     \* the events whose sending failed
    delivery,   \* [Capture -> [status, attempts, due]]
    posts,      \* [Capture -> requests that reached the address]
    sender,     \* [Sender -> [at, list, results]]
    target,     \* the webhook target is enabled
    kills

alertSide == <<line, capture, events, afresh>>
sendSide == <<sent, told, untold>>
alertVars == <<alertSide, sendSide, delivery, posts, sender, target, kills>>

CaptureRests == [at |-> "waiting", past |-> FALSE, moves |-> FALSE, seen |-> "ok"]
SenderRests == [at |-> "idle", list |-> <<>>, results |-> <<>>]
Outcome == {"ok", "again", "refused"}
NoDelivery == [status |-> "none", attempts |-> 0, due |-> FALSE]

AlertTypeOK ==
    /\ line \in {"ok", "crossed"}
    /\ capture \in [Capture -> [at : {"waiting", "judging", "done"}, past : BOOLEAN,
                                moves : BOOLEAN, seen : {"ok", "crossed"}]]
    /\ events \in Seq([of : Capture, kind : {"crossed", "cleared"}, afresh : BOOLEAN])
    /\ \A i, j \in DOMAIN events : events[i].of = events[j].of => i = j
    /\ afresh \in BOOLEAN
    /\ sent \in [Capture -> BOOLEAN]
    /\ told \in [Capture -> 0..Cardinality(Sender)]
    /\ untold \subseteq Capture
    /\ delivery \in [Capture -> [status : {"none", "pending", "succeeded", "failed"},
                                 attempts : 0..MaxAttempts, due : BOOLEAN]]
    /\ posts \in [Capture -> Nat]
    /\ sender \in [Sender ->
         [at : {"idle", "claiming", "posting", "recording", "trying", "closing"},
          list : Seq(Capture),
          results : Seq([of : Capture, outcome : Outcome \cup {"off"}, before : 0..MaxAttempts])]]
    /\ target \in BOOLEAN
    /\ kills \in 0..MaxKills

AlertInit ==
    /\ line = "ok"
    /\ capture = [c \in Capture |-> CaptureRests]
    /\ events = <<>>
    /\ afresh = FALSE
    /\ sent = [c \in Capture |-> FALSE]
    /\ told = [c \in Capture |-> 0]
    /\ untold = {}
    /\ delivery = [c \in Capture |-> NoDelivery]
    /\ posts = [c \in Capture |-> 0]
    /\ sender = [w \in Sender |-> SenderRests]
    /\ target = TRUE
    /\ kills = 0

-----------------------------------------------------------------------------
(* A capture reads the alert and commits its state with the event; so does *)
(* a person who moves its line, or turns it off or on.                     *)

ReadAlert(c, past, moves) ==
    /\ capture[c].at = "waiting"
    /\ CapturesOverlap \/ \A other \in Capture : capture[other].at # "judging"
    /\ capture' = [capture EXCEPT ![c] = [at |-> "judging", past |-> past, moves |-> moves,
                                           seen |-> line]]
    /\ UNCHANGED <<line, events, afresh, sendSide, delivery, posts, sender, target, kills>>

\* Mutant: the alert does not remember.
NotKeptInMind(c) == line

StateOf(c) == IF capture[c].past THEN "crossed" ELSE "ok"

\* A line that is moved starts again from "ok", and the newest measures are held against it.
Against(c) == IF capture[c].moves THEN "ok" ELSE capture[c].seen

\* The column is written only when it differs from what was read.
StateAfter(c) == IF StateOf(c) = capture[c].seen THEN line ELSE StateOf(c)

Judge(c) ==
    /\ capture[c].at = "judging"
    /\ capture' = [capture EXCEPT ![c] = [CaptureRests EXCEPT !.at = "done"]]
    /\ line' = StateAfter(c)
    /\ afresh' = (StateOf(c) = Against(c) /\ (afresh \/ capture[c].moves))
    /\ events' = IF StateOf(c) = Against(c) THEN events
                 ELSE Append(events, [of |-> c,
                                      kind |-> IF capture[c].past THEN "crossed" ELSE "cleared",
                                      afresh |-> afresh \/ capture[c].moves])
    /\ UNCHANGED <<sendSide, delivery, posts, sender, target, kills>>

-----------------------------------------------------------------------------
(* Sending: the events not sent yet are listed, and each is claimed.       *)

SenderAt(w, point) == sender[w].at = point
SenderGoes(w, point) == sender' = [sender EXCEPT ![w].at = point]

Written == {events[i].of : i \in DOMAIN events}

\* What a query finds, in the order the events were written.
FromOldest(found) ==
    {list \in [1..Cardinality(found) -> found] :
        \A i, j \in 1..Cardinality(found) : i < j =>
            \E m, n \in DOMAIN events :
                m < n /\ events[m].of = list[i] /\ events[n].of = list[j]}

UnsentEvents == {c \in Written : ~sent[c]}

SendScan(w) ==
    /\ SenderAt(w, "idle")
    /\ UnsentEvents # {}
    /\ \E list \in FromOldest(UnsentEvents) :
         sender' = [sender EXCEPT ![w] = [at |-> "claiming", list |-> list, results |-> <<>>]]
    /\ UNCHANGED <<alertSide, sendSide, delivery, posts, target, kills>>

NotYetSent(c) == ~sent[c]

NextOrIdle(w) ==
    IF Len(sender[w].list) = 1 THEN SenderRests
    ELSE [at |-> "claiming", list |-> Tail(sender[w].list), results |-> <<>>]

ClaimEvent(w) ==
    LET c == Head(sender[w].list) IN
    /\ SenderAt(w, "claiming")
    /\ IF NotYetSent(c) THEN /\ sent' = [sent EXCEPT ![c] = TRUE]
                            /\ SenderGoes(w, "posting")
                       ELSE /\ sender' = [sender EXCEPT ![w] = NextOrIdle(w)]
                            /\ UNCHANGED sent
    /\ UNCHANGED <<alertSide, told, untold, delivery, posts, target, kills>>

\* The webhook is posted and recorded in a transaction of its own; people are
\* told in the commit that follows.
Post(w, outcome) ==
    LET c == Head(sender[w].list) IN
    /\ SenderAt(w, "posting") /\ target
    /\ posts' = [posts EXCEPT ![c] = @ + 1]
    /\ sender' = [sender EXCEPT ![w].at = "recording",
                                ![w].results = <<[of |-> c, outcome |-> outcome, before |-> 0]>>]
    /\ UNCHANGED <<alertSide, sendSide, delivery, target, kills>>

Tell(w) == told' = [told EXCEPT ![Head(sender[w].list)] = @ + 1]

TellOnly(w) ==
    /\ SenderAt(w, "posting") /\ ~target
    /\ Tell(w)
    /\ sender' = [sender EXCEPT ![w] = NextOrIdle(w)]
    /\ UNCHANGED <<alertSide, sent, untold, delivery, posts, target, kills>>

\* Mutant: a target that was turned off is waited for.
WaitsForTheTarget(r) ==
    [status |-> CASE r.outcome = "ok" -> "succeeded"
                  [] r.outcome = "off" -> "pending"
                  [] r.outcome = "again" /\ r.before + 1 < MaxAttempts -> "pending"
                  [] OTHER -> "failed",
     attempts |-> IF r.outcome = "off" THEN r.before ELSE r.before + 1,
     due |-> FALSE]

\* The row after a try, from the number of tries the worker read.
Attempted(r) ==
    [status |-> CASE r.outcome = "ok" -> "succeeded"
                  [] r.outcome = "again" /\ r.before + 1 < MaxAttempts -> "pending"
                  [] OTHER -> "failed",
     attempts |-> IF r.outcome = "off" THEN r.before ELSE r.before + 1,
     due |-> FALSE]

WithFirst(w) ==
    LET r == sender[w].results[1] IN [delivery EXCEPT ![r.of] = Attempted(r)]

RecordFirst(w) ==
    /\ SenderAt(w, "recording")
    /\ delivery' = WithFirst(w)
    /\ Tell(w)
    /\ sender' = [sender EXCEPT ![w] = NextOrIdle(w)]
    /\ UNCHANGED <<alertSide, sent, untold, posts, target, kills>>

\* What fails is rolled back and logged, before the post or with the commit after it,
\* and the worker goes on with the next event.
TellFails(w) ==
    /\ \/ SenderAt(w, "posting") /\ UNCHANGED delivery
       \/ SenderAt(w, "recording") /\ delivery' = WithFirst(w)
    /\ untold' = untold \cup {Head(sender[w].list)}
    /\ sender' = [sender EXCEPT ![w] = NextOrIdle(w)]
    /\ UNCHANGED <<alertSide, sent, told, posts, target, kills>>

-----------------------------------------------------------------------------
(* The tries that are due: locked, made one by one, recorded together.     *)

BecomesDue(c) ==
    /\ delivery[c].status = "pending" /\ ~delivery[c].due
    /\ delivery' = [delivery EXCEPT ![c].due = TRUE]
    /\ UNCHANGED <<alertSide, sendSide, posts, sender, target, kills>>

Held(c) == \E w \in Sender : sender[w].at \in {"trying", "closing"} /\
              \/ \E i \in DOMAIN sender[w].list : sender[w].list[i] = c
              \/ \E i \in DOMAIN sender[w].results : sender[w].results[i].of = c

\* In the order they are due: here, that of the events.
DueDeliveries ==
    {c \in Written : delivery[c].status = "pending" /\ delivery[c].due /\ ~Held(c)}

RetryScan(w) ==
    /\ SenderAt(w, "idle")
    /\ DueDeliveries # {}
    /\ \E list \in FromOldest(DueDeliveries) :
         sender' = [sender EXCEPT ![w] = [at |-> "trying", list |-> list, results |-> <<>>]]
    /\ UNCHANGED <<alertSide, sendSide, delivery, posts, target, kills>>

Attempt(w, outcome) ==
    LET c == Head(sender[w].list)
        result == [of |-> c, outcome |-> IF target THEN outcome ELSE "off",
                   before |-> delivery[c].attempts] IN
    /\ SenderAt(w, "trying")
    /\ posts' = IF target THEN [posts EXCEPT ![c] = @ + 1] ELSE posts
    /\ sender' = [sender EXCEPT ![w].list = Tail(@), ![w].results = Append(@, result),
                                ![w].at = IF Len(sender[w].list) = 1 THEN "closing" ELSE "trying"]
    /\ UNCHANGED <<alertSide, sendSide, delivery, target, kills>>

RetryCommit(w) ==
    /\ SenderAt(w, "closing")
    /\ delivery' = [c \in Capture |->
          IF \E i \in DOMAIN sender[w].results : sender[w].results[i].of = c
          THEN LET r == CHOOSE r \in {sender[w].results[i] : i \in DOMAIN sender[w].results} :
                            r.of = c
               IN  Attempted(r)
          ELSE delivery[c]]
    /\ sender' = [sender EXCEPT ![w] = SenderRests]
    /\ UNCHANGED <<alertSide, sendSide, posts, target, kills>>

-----------------------------------------------------------------------------
TurnOff ==
    /\ target
    /\ target' = FALSE
    /\ UNCHANGED <<alertSide, sendSide, delivery, posts, sender, kills>>

SenderDies(w) ==
    /\ ~SenderAt(w, "idle")
    /\ sender[w].at \in {"posting", "recording"} => DiesSending
    /\ kills < MaxKills
    /\ kills' = kills + 1
    /\ sender' = [sender EXCEPT ![w] = SenderRests]
    /\ UNCHANGED <<alertSide, sendSide, delivery, posts, target>>

SenderStep(w) ==
    \/ SendScan(w) \/ ClaimEvent(w) \/ TellOnly(w) \/ RecordFirst(w) \/ RetryScan(w) \/ RetryCommit(w)
    \/ \E outcome \in Outcome : Post(w, outcome) \/ Attempt(w, outcome)

AlertNext ==
    \/ \E c \in Capture : Judge(c) \/ BecomesDue(c) \/ \E past, moves \in BOOLEAN : ReadAlert(c, past, moves)
    \/ \E w \in Sender : SenderStep(w) \/ TellFails(w) \/ SenderDies(w)
    \/ TurnOff

\* The worker polls for ever, and time passes.
AlertFairness ==
    /\ \A w \in Sender : WF_alertVars(SenderStep(w))
    /\ \A c \in Capture : WF_alertVars(BecomesDue(c))

AlertSpec == AlertInit /\ [][AlertNext]_alertVars
FairAlertSpec == AlertSpec /\ AlertFairness

-----------------------------------------------------------------------------
\* An alert says so when it crosses its line and again when it comes back
\* (alerts.py:10-12): it comes back from a crossing it told of, and crosses twice in a
\* row only a line that was moved in between (update_alert).
CrossingsAlternate ==
    \A i \in DOMAIN events :
        IF events[i].kind = "cleared"
        THEN i > 1 /\ events[i - 1].kind = "crossed"
        ELSE i = 1 \/ events[i - 1].kind = "cleared" \/ events[i].afresh

\* Two workers never send the same event (alerts.py:229-231).
SentOnce == \A c \in Capture : told[c] <= 1

\* A request the address received is one of the tries recorded, or is being
\* made, unless its worker died: MaxAttempts bounds what a receiver gets.
TriesAreCounted ==
    \A c \in Capture :
        posts[c] <= delivery[c].attempts + kills
            + Cardinality({w \in Sender : \E i \in DOMAIN sender[w].results :
                                             sender[w].results[i].of = c})

\* People are told of every event, but for those whose sending failed, and every delivery
\* comes to an end, though workers die (send_due, retry_due).
AlertsSettle ==
    <>[](/\ \A i \in DOMAIN events : told[events[i].of] > 0 \/ events[i].of \in untold
         /\ \A c \in Capture : delivery[c].status # "pending")

\* What holds of alerts at every moment: crossings take turns, an event is sent once, and what
\* is posted is what the tries count, up to a death (alerts.py, webhook_sender.py).
AlertSafety ==
    /\ AlertTypeOK
    /\ CrossingsAlternate
    /\ SentOnce
    /\ TriesAreCounted
=============================================================================
