----------------------------- MODULE AckTracker -----------------------------
(***************************************************************************)
(* The control center's AckTracker: the commands it waits for, their       *)
(* timeout watchers and the history the dashboard shows.                   *)
(*                                                                         *)
(* Handlers are coroutines on one asyncio loop; each runs to its first     *)
(* real suspension in one step.  The only suspension that matters is in    *)
(* _on_cmd_sent: it awaits the WebSocket broadcast BEFORE it creates the   *)
(* watcher task, so for a while a command is pending and unwatched.        *)
(***************************************************************************)
EXTENDS Commands, Sequences

CONSTANTS
  AckTimeout,   \* ack_timeout_s, in ticks
  NavTimeout,   \* the 120 s of a nav_goal, in ticks
  HistoryMax,   \* records the history keeps (50)
  MaxAge        \* where the model's age counters saturate

ASSUME TrackerAssumption ==
  /\ AckTimeout \in Nat /\ NavTimeout \in Nat /\ MaxAge \in Nat
  /\ AckTimeout <= MaxAge /\ NavTimeout <= MaxAge
  /\ HistoryMax \in Nat \ {0}

VARIABLES
  pending,     \* keys of _pending
  sentAge,     \* ticks since sent_at of a pending command (0 for the others)
  unwatched,   \* commands whose _on_cmd_sent has not created the watcher yet
  watched,     \* commands with a running _watch_timeout task
  history      \* _history, newest first

trackerVars == <<pending, sentAge, unwatched, watched, history>>

Record == [id : Cmd, status : ShownStatus]

Timeout(c) == IF Kind[c] = "nav_goal" THEN NavTimeout ELSE AckTimeout

Older(age) == IF age < MaxAge THEN age + 1 ELSE age

Shown(c) == \E i \in DOMAIN history : history[i].id = c

\* Faulty variant: the tail is never cut off.
UpsertUncut(hist, rec) ==
  IF \E i \in DOMAIN hist : hist[i].id = rec.id
    THEN [i \in DOMAIN hist |-> IF hist[i].id = rec.id THEN rec ELSE hist[i]]
    ELSE <<rec>> \o hist

\* Replaces the record of the same command in place, else inserts in front and
\* cuts the tail off.
Upsert(hist, rec) ==
  IF \E i \in DOMAIN hist : hist[i].id = rec.id
    THEN [i \in DOMAIN hist |-> IF hist[i].id = rec.id THEN rec ELSE hist[i]]
    ELSE [i \in 1..(IF Len(hist) < HistoryMax THEN Len(hist) + 1 ELSE HistoryMax)
            |-> IF i = 1 THEN rec ELSE hist[i - 1]]

\* Pops the pending entry.
Resolve(c) ==
  /\ pending' = pending \ {c}
  /\ sentAge' = [sentAge EXCEPT ![c] = 0]

TrackerInit ==
  /\ pending = {}
  /\ sentAge = [c \in Cmd |-> 0]
  /\ unwatched = {}
  /\ watched = {}
  /\ history = <<>>

\* Faulty variant: the watcher is lost with the broadcast.
OnCmdSentUnwatched(c) ==
  /\ pending' = pending \cup {c}
  /\ sentAge' = [sentAge EXCEPT ![c] = 0]
  /\ history' = Upsert(history, [id |-> c, status |-> "SENT"])
  /\ UNCHANGED <<unwatched, watched>>

OnCmdSent(c) ==
  /\ pending' = pending \cup {c}
  /\ sentAge' = [sentAge EXCEPT ![c] = 0]
  /\ unwatched' = unwatched \cup {c}
  /\ history' = Upsert(history, [id |-> c, status |-> "SENT"])
  /\ UNCHANGED watched

\* The broadcast returned: _on_cmd_sent creates the watcher.
StartWatch(c) ==
  /\ c \in unwatched
  /\ unwatched' = unwatched \ {c}
  /\ watched' = watched \cup {c}
  /\ UNCHANGED <<pending, sentAge, history>>

\* Faulty variant: late acknowledgements are recorded too.
OnCmdAckLate(c, status) ==
  /\ history' = Upsert(history, [id |-> c, status |-> status])
  /\ IF IsTerminalStatus(c, status) THEN Resolve(c) ELSE UNCHANGED <<pending, sentAge>>
  /\ UNCHANGED <<unwatched, watched>>

\* An acknowledgement of a command that is no longer pending is dropped.
OnCmdAck(c, status) ==
  /\ IF c \notin pending
       THEN UNCHANGED <<pending, sentAge, history>>
       ELSE /\ history' = Upsert(history, [id |-> c, status |-> status])
            /\ IF IsTerminalStatus(c, status)
                 THEN Resolve(c)
                 ELSE UNCHANGED <<pending, sentAge>>
  /\ UNCHANGED <<unwatched, watched>>

WatchExpires(c) ==
  /\ c \in watched /\ c \in pending
  /\ sentAge[c] >= Timeout(c)
  /\ Resolve(c)
  /\ watched' = watched \ {c}
  /\ history' = Upsert(history, [id |-> c, status |-> "ACK_FAILED"])
  /\ UNCHANGED unwatched

\* Faulty variant: any answer satisfies the watcher.
WatchReturnsEarly(c) ==
  /\ c \in watched
  /\ c \in pending => \E i \in DOMAIN history :
                        history[i].id = c /\ history[i].status # "SENT"
  /\ watched' = watched \ {c}
  /\ UNCHANGED <<pending, sentAge, unwatched, history>>

\* The watcher wakes up, finds the command resolved and returns.
WatchReturns(c) ==
  /\ c \in watched /\ c \notin pending
  /\ watched' = watched \ {c}
  /\ UNCHANGED <<pending, sentAge, unwatched, history>>

RecordLocalRejection(c) ==
  /\ history' = Upsert(history, [id |-> c, status |-> "ACK_REJECTED"])
  /\ UNCHANGED <<pending, sentAge, unwatched, watched>>

TrackerTick ==
  /\ sentAge' = [c \in Cmd |-> IF c \in pending THEN Older(sentAge[c]) ELSE 0]
  /\ UNCHANGED <<pending, unwatched, watched, history>>

TrackerTypeOK ==
  /\ pending \subseteq Cmd
  /\ sentAge \in [Cmd -> 0..MaxAge]
  /\ unwatched \subseteq Cmd
  /\ watched \subseteq Cmd
  /\ history \in Seq(Record)
  /\ Len(history) <= HistoryMax

=============================================================================
