-------------------------------- MODULE Feed --------------------------------
(***************************************************************************)
(* The live event stream of an administrator (naco/core/events.py,         *)
(* naco/api/routes/overview.py) beside the sessions, accounts and tokens   *)
(* it stands on (AdminAuth).                                               *)
(*                                                                         *)
(* An event is its number and whether it is an audit record.  A unit of    *)
(* time is the 15 seconds a stream waits for an event; steps that wait for *)
(* nothing but the database take no time.                                  *)
(***************************************************************************)
EXTENDS AdminAuth, Sequences

CONSTANTS
    Streams,     \* streams open at a time
    QueueSize,   \* EventBus queue_size
    Recheck,     \* how long a stream trusts its session
    Wait,        \* how long it waits for an event
    MaxNow,      \* bound on time
    MaxEvents    \* bound on the events published

ASSUME FeedAssumption ==
    /\ QueueSize \in Nat \ {0} /\ Recheck \in Nat /\ Wait \in Nat /\ MaxNow \in Nat /\ MaxEvents \in Nat
    /\ None \notin Nat

VARIABLES
    now,
    events,   \* how many events have been published
    streams,  \* each stream: where it is, who opened it, its queue
    gone      \* history: since when the credential a stream was opened with is gone

feedVars == <<now, events, streams>>
Closed == [pc |-> "closed"]
Open == {s \in Streams : streams[s] # Closed}

\* The very session or token the stream was opened with still holds.
Holds(s) ==
    LET st == streams[s]
    IN  IF st.token # None THEN tokens[st.token] = "live"
        ELSE /\ sessions[st.id] # None /\ sessions[st.id].serial = st.serial
             /\ admins[sessions[st.id].admin].enabled

FeedTypeOK ==
    /\ now \in 0..MaxNow /\ events \in 0..MaxEvents
    /\ DOMAIN streams = Streams /\ gone \in [Streams -> 0..MaxNow \cup {None}]
    /\ \A s \in Open :
          /\ streams[s].pc \in {"first", "loop", "check", "wait", "send"}
          /\ Len(streams[s].queue) <= QueueSize
          /\ streams[s].began <= streams[s].checked /\ streams[s].checked <= now /\ streams[s].since <= now
          /\ streams[s].pc = "wait" => now <= streams[s].since + Wait

---------------------------------------------------------------------------
(* EventBus                                                                *)

\* Mutant of Put: a full queue grows.
PutAlways(queue, e) == Append(queue, e)

\* Mutant of Put: a full queue takes no more.
PutIfRoom(queue, e) == IF Len(queue) = QueueSize THEN queue ELSE Append(queue, e)

\* A full queue loses its oldest event.
Put(queue, e) == Append(IF Len(queue) = QueueSize THEN Tail(queue) ELSE queue, e)

publish(audit) ==
    /\ events < MaxEvents
    /\ events' = events + 1
    /\ streams' = [s \in Streams |->
                    IF s \in Open THEN [streams[s] EXCEPT !.queue = Put(@, [n |-> events + 1, audit |-> audit])]
                    ELSE Closed]
    /\ UNCHANGED <<authVars, now>>

---------------------------------------------------------------------------
(* GET /events                                                             *)

\* viewer() lets the principal in; whether it sees audit records is settled now.
\* It subscribes and sends the retry interval, the first chunk.
open_stream(s, p) ==
    /\ streams[s] = Closed
    /\ procs[p].pc = "route" /\ procs[p].view
    /\ streams' = [streams EXCEPT ![s] =
                    [pc |-> "first", id |-> procs[p].id, serial |-> procs[p].serial, token |-> procs[p].token,
                     sees |-> procs[p].sees, queue |-> <<>>, last |-> events, began |-> 0,
                     checked |-> 0, since |-> 0, mistaken |-> FALSE]]
    /\ procs' = Become(p, Idle)
    /\ UNCHANGED <<admins, sessions, tokens, signins, fresh, clock, historyVars, now, events>>

Moves(s, st) ==
    /\ streams' = [streams EXCEPT ![s] = st]
    /\ UNCHANGED <<authVars, now, events>>

\* The client has taken the first chunk, after however long: from now on the
\* stream counts the time to its first check.
begin(s) == streams[s].pc = "first" /\ Moves(s, [streams[s] EXCEPT !.pc = "loop", !.began = now, !.checked = now])

\* The top of the loop.
loop(s) ==
    LET st == streams[s]
    IN  /\ st.pc = "loop"
        /\ Moves(s, IF now - st.checked > Recheck THEN [st EXCEPT !.pc = "check"]
                    ELSE [st EXCEPT !.pc = "wait", !.since = now])

\* _still_valid(): by the key of the row, which a later session may have.
Valid(st) ==
    IF st.token # None THEN tokens[st.token] = "live"
    ELSE sessions[st.id] # None /\ admins[sessions[st.id].admin].enabled

check(s) ==
    LET st == streams[s]
    IN  /\ st.pc = "check"
        /\ Moves(s, IF Valid(st)
                    THEN [st EXCEPT !.pc = "wait", !.since = now, !.checked = now, !.mistaken = @ \/ ~Holds(s)]
                    ELSE Closed)

\* Mutant of take: an event counts as a sign of life.
take_trusting(s) ==
    LET st == streams[s]
        e == Head(st.queue)
    IN  /\ st.pc = "wait" /\ st.queue # <<>>
        /\ Moves(s, [st EXCEPT !.pc = IF e.audit /\ ~st.sees THEN "loop" ELSE "send",
                               !.queue = Tail(@), !.last = e.n, !.since = 0, !.checked = now])

\* An event is there; an audit record is not for everyone.
take(s) ==
    LET st == streams[s]
        e == Head(st.queue)
    IN  /\ st.pc = "wait" /\ st.queue # <<>>
        /\ Moves(s, [st EXCEPT !.pc = IF e.audit /\ ~st.sees THEN "loop" ELSE "send",
                               !.queue = Tail(@), !.last = e.n, !.since = 0])

\* None came in time: a keep-alive.
keep_alive(s) ==
    LET st == streams[s]
    IN  /\ st.pc = "wait" /\ st.queue = <<>> /\ now = st.since + Wait
        /\ Moves(s, [st EXCEPT !.pc = "send", !.since = 0])

\* The client has read what was sent, after however long; or it goes away.
sent(s) == streams[s].pc = "send" /\ Moves(s, [streams[s] EXCEPT !.pc = "loop"])
disconnect(s) == streams[s].pc \in {"first", "loop", "wait", "send"} /\ Moves(s, Closed)

\* Time passes while every stream waits for an event or for its client.
Quiet(st) ==
    \/ st.pc \in {"closed", "first", "send"}
    \/ st.pc = "wait" /\ st.queue = <<>> /\ now < st.since + Wait

time_passes ==
    /\ now < MaxNow /\ \A s \in Streams : Quiet(streams[s])
    /\ now' = now + 1
    /\ UNCHANGED <<authVars, events, streams>>

---------------------------------------------------------------------------
FeedInit == now = 0 /\ events = 0 /\ streams = [s \in Streams |-> Closed] /\ gone = [s \in Streams |-> None]

FeedSteps ==
    \/ \E audit \in BOOLEAN : publish(audit)
    \/ \E s \in Streams :
          \/ begin(s) \/ loop(s) \/ check(s) \/ take(s) \/ keep_alive(s) \/ sent(s) \/ disconnect(s)
          \/ \E p \in Procs : open_stream(s, p)
    \/ time_passes

\* History, in every step.
Noted ==
    gone' = [s \in Streams |-> CASE s \notin Open' -> None
                                 [] s \in Open' /\ gone[s] = None /\ ~Holds(s)' -> now'
                                 [] OTHER -> gone[s]]

FeedNext == ((AuthNext /\ UNCHANGED feedVars) \/ FeedSteps) /\ Noted
FeedSpec == AuthInit /\ FeedInit /\ [][FeedNext]_<<authVars, feedVars, gone>>

---------------------------------------------------------------------------
(* Properties.                                                             *)

\* A stream that gets to wait for events does not outlive the session or token
\* it was opened with by more than the minute between two checks and one wait,
\* however busy it is and however long its client took for a chunk - counted
\* from the first chunk if the client took that later, for only then does the
\* stream begin to count, and unless a later session has been given the key of
\* its row, which SQLite hands out again.
StreamEndsWithSession ==
    \A s \in Open :
        streams[s].pc = "wait" /\ gone[s] # None /\ ~streams[s].mistaken =>
            \/ now <= gone[s] + Recheck + Wait
            \/ now <= streams[s].began + Recheck + Wait

\* "audit records for those who may read the audit log (operator and up)": a stream that was found
\* to see them, while its session lasts, belongs to an account that still may.
AuditForThoseWhoMay ==
    \A s \in Open :
        streams[s].sees /\ streams[s].token = None /\ gone[s] = None =>
            admins[sessions[streams[s].id].admin].role \in {"OPERATOR", "SUPERUSER"}

\* "a subscriber that falls behind loses its oldest events": what is queued are
\* the latest events, in order and without a gap, and a stream that has emptied
\* its queue has seen the last one.
OnlyOldestLost ==
    \A s \in Open :
        LET q == streams[s].queue
        IN  /\ \A i \in DOMAIN q : q[i].n = events - Len(q) + i
            /\ q = <<>> => streams[s].last = events
=============================================================================
