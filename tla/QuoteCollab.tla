---------------------------- MODULE QuoteCollab ----------------------------
(***************************************************************************)
(* QuoteWebSocketHandler: editing sessions of quotes and field locks, used *)
(* by one endpoint task per connection and by the _auto_release_lock timer *)
(* tasks, on one event loop.                                               *)
(*                                                                         *)
(* An action is what a task does from one await to the next.  A send to a  *)
(* room reaches the members of that moment in the step that starts it; the *)
(* task then waits and others run.  Rooms are those of WsConnections.      *)
(***************************************************************************)
EXTENDS Naturals, Sequences, FiniteSets

CONSTANTS
    Conn,      \* connections, each with its endpoint task
    Quote,     \* quotes
    Field,     \* fields of a quote
    Nobody,    \* no owner, no quote
    MaxEdits   \* bound: edits that are accepted

ASSUME ConnAssumption == IsFiniteSet(Conn) /\ Nobody \notin Conn
ASSUME EditsAssumption == MaxEdits \in Nat \ {0}

VARIABLES
    sessions,  \* _active_quote_sessions; an entry exists while it is not empty
    locks,     \* _field_locks: the owner, or Nobody when there is no entry
    recent,    \* _recent_updates: keys updated less than 500 ms ago
    timers,    \* _auto_release_lock tasks, oldest first: they all wait 2 s
    room,      \* members of the room quote:{quote_id}
    count,     \* how many edits were accepted: their numbers are their values
    shown,     \* the value of each field that each client was last sent
    raised,    \* history: edits that raised and were not followed by one of their field
    task       \* what each endpoint task is doing

handler == <<sessions, locks, recent, timers>>
vars    == <<handler, room, count, shown, raised, task>>

Key == Quote \X Field

Caller == {"message", "cleanup"}

Serving == [at |-> "serve"]

Task ==
    [at: {"serve", "reply", "fatal", "done", "aborted"}]
    \cup [at: {"load", "join", "state", "told"}, q: Quote]
    \cup [at: {"locked", "sent"}, k: Key, n: 1..MaxEdits]
    \cup [at: {"unlock"}, q: Quote, todo: SUBSET Key, rest: SUBSET Quote, by: Caller]
    \cup [at: {"leave"}, q: Quote, rest: SUBSET Quote, by: Caller]
    \cup [at: {"release"}, todo: SUBSET Key]

TypeOK ==
    /\ sessions \in [Quote -> SUBSET Conn]
    /\ locks \in [Key -> Conn \cup {Nobody}]
    /\ recent \subseteq Key
    /\ timers \in Seq([k: Key, c: Conn])
    /\ room \in [Quote -> SUBSET Conn]
    /\ count \in 0..MaxEdits
    /\ shown \in [Conn -> [Key -> 0..MaxEdits]]
    /\ raised \subseteq Key \X Conn
    /\ task \in [Conn -> Task]

Init ==
    /\ sessions = [q \in Quote |-> {}]
    /\ locks = [k \in Key |-> Nobody]
    /\ recent = {} /\ timers = <<>>
    /\ room = [q \in Quote |-> {}]
    /\ count = 0
    /\ shown = [c \in Conn |-> [k \in Key |-> 0]]
    /\ raised = {}
    /\ task = [c \in Conn |-> Serving]

At(c, at) == task[c].at = at
Goes(c, t) == task' = [task EXCEPT ![c] = t]
Owned(c)  == {k \in Key : locks[k] = c}

-----------------------------------------------------------------------------
\* handle_quote_subscribe

Subscribe(c, q) ==
    /\ At(c, "serve")
    /\ Goes(c, [at |-> "load", q |-> q])
    /\ UNCHANGED <<handler, room, count, shown, raised>>

\* get_quote returned: the quote, or an error or None that is reported.
Loaded(c) ==
    /\ At(c, "load")
    /\ \/ /\ room' = [room EXCEPT ![task[c].q] = @ \cup {c}]
          /\ Goes(c, [task[c] EXCEPT !.at = "join"])
       \/ Goes(c, [at |-> "reply"]) /\ UNCHANGED room
    /\ UNCHANGED <<handler, count, shown, raised>>

Joined_MakesSession(c) ==
    /\ At(c, "join")
    /\ LET q == task[c].q
       IN  /\ sessions' = IF sessions[q] = {} THEN [sessions EXCEPT ![q] = {c}] ELSE sessions
           /\ Goes(c, [task[c] EXCEPT !.at = "state"])
    /\ UNCHANGED <<locks, recent, timers, room, count, shown, raised>>

\* subscribe_to_room returned; an Err has taken the member out again.
\* The client gets the stored quote, which no edit has changed.
Joined(c) ==
    /\ At(c, "join")
    /\ LET q == task[c].q
       IN  \/ /\ sessions' = [sessions EXCEPT ![q] = @ \cup {c}]
              /\ shown' = [shown EXCEPT ![c] =
                             [k \in Key |-> IF k[1] = q THEN 0 ELSE @[k]]]
              /\ Goes(c, [task[c] EXCEPT !.at = "state"])
              /\ UNCHANGED room
           \/ /\ room' = [room EXCEPT ![q] = @ \ {c}]
              /\ Goes(c, Serving)
              /\ UNCHANGED <<sessions, shown>>
    /\ UNCHANGED <<locks, recent, timers, count, raised>>

\* The same, with a quote that does not fit a message: the endpoint answers
\* the ValueError; room and session keep the client.
Outgrows(c) ==
    /\ At(c, "join")
    /\ sessions' = [sessions EXCEPT ![task[c].q] = @ \cup {c}]
    /\ Goes(c, [at |-> "reply"])
    /\ UNCHANGED <<locks, recent, timers, room, count, shown, raised>>

\* len(self._active_quote_sessions[quote_id]) after the await.
Announces(c) ==
    /\ At(c, "state")
    /\ Goes(c, IF sessions[task[c].q] = {} THEN [at |-> "fatal"]
               ELSE [task[c] EXCEPT !.at = "told"])
    /\ UNCHANGED <<handler, room, count, shown, raised>>

\* get_quote or a send raised: the endpoint reports it and ends.  A send to a
\* peer that is gone disconnects it, and two such disconnects at once raise.
SubscribeRaises(c) ==
    /\ task[c].at \in {"load", "join", "state", "told", "reply"}
    /\ Goes(c, [at |-> "fatal"])
    /\ UNCHANGED <<handler, room, count, shown, raised>>

Answered(c) ==
    /\ task[c].at \in {"told", "reply"}
    /\ Goes(c, Serving)
    /\ UNCHANGED <<handler, room, count, shown, raised>>

-----------------------------------------------------------------------------
\* handle_quote_unsubscribe, called for a message or by cleanup_connection,
\* with the quotes of `rest' to follow.

Raise(c, by) == Goes(c, [at |-> IF by = "cleanup" THEN "aborted" ELSE "fatal"])

\* del self._field_locks[field]: whoever owns it now; KeyError if nobody does.
Deletes(c, k, then, by) ==
    IF locks[k] = Nobody
    THEN Raise(c, by) /\ UNCHANGED locks
    ELSE locks' = [locks EXCEPT ![k] = Nobody] /\ Goes(c, then)

\* The loop over locked_fields, from its head: the next lock, or leave the room.
Unlocking(c, t) ==
    \/ /\ t.todo = {}
       /\ room' = [room EXCEPT ![t.q] = @ \ {c}]
       /\ Goes(c, [at |-> "leave", q |-> t.q, rest |-> t.rest, by |-> t.by])
       /\ UNCHANGED locks
    \/ /\ \E k \in t.todo : Deletes(c, k, [t EXCEPT !.todo = @ \ {k}], t.by)
       /\ UNCHANGED room

Unsubscribe_KeepsSession(c, q, rest, by) ==
    /\ UNCHANGED sessions
    /\ Unlocking(c, [at |-> "unlock", q |-> q, todo |-> {k \in Owned(c) : k[1] = q},
                     rest |-> rest, by |-> by])

\* The session is left and the locks to release are listed in one go.
Unsubscribe(c, q, rest, by) ==
    /\ sessions' = [sessions EXCEPT ![q] = @ \ {c}]
    /\ Unlocking(c, [at |-> "unlock", q |-> q, todo |-> {k \in Owned(c) : k[1] = q},
                     rest |-> rest, by |-> by])

UnsubscribeMessage(c, q) ==
    /\ At(c, "serve")
    /\ Unsubscribe(c, q, {}, "message")
    /\ UNCHANGED <<recent, timers, count, shown, raised>>

Unlocks(c) ==
    /\ At(c, "unlock")
    /\ Unlocking(c, task[c])
    /\ UNCHANGED <<sessions, recent, timers, count, shown, raised>>

\* A send of the loop over the locks, or of the leaving of the room, raised.
UnsubscribeRaises(c) ==
    /\ task[c].at \in {"unlock", "leave"}
    /\ Raise(c, task[c].by)
    /\ UNCHANGED <<handler, room, count, shown, raised>>

-----------------------------------------------------------------------------
\* handle_collaborative_edit

EditRejected(c, k) ==
    /\ At(c, "serve")
    /\ locks[k] \notin {c, Nobody}
    /\ Goes(c, [at |-> "reply"])
    /\ UNCHANGED <<handler, room, count, shown, raised>>

Edit(c, k) ==
    /\ At(c, "serve")
    /\ locks[k] \in {c, Nobody}
    /\ count < MaxEdits
    /\ locks' = [locks EXCEPT ![k] = c]
    /\ raised' = {r \in raised : r[1] # k}
    /\ count' = count + 1
    /\ Goes(c, [at |-> "locked", k |-> k, n |-> count + 1])
    /\ UNCHANGED <<sessions, recent, timers, room, shown>>

StartsTimer(c, k) == timers' = Append(timers, [k |-> k, c |-> c])

\* The FIELD_LOCKED or the QUOTE_UPDATE raised: the endpoint answers with an
\* error and serves on.  The lock stays; the timer is never created.
Fails(c) ==
    /\ raised' = raised \cup {<<task[c].k, c>>}
    /\ Goes(c, [at |-> "reply"])

EditRaises(c) ==
    /\ task[c].at \in {"locked", "sent"}
    /\ Fails(c)
    /\ UNCHANGED <<handler, room, count, shown>>

\* A key sent less than 500 ms ago is skipped, without an await.
Repeated(c) == task[c].k \in recent /\ UNCHANGED <<recent, shown, raised>> /\ Goes(c, Serving)

\* Any other is noted as sent; then the message is sent to the room, or is
\* above 1 MB and is not even built.
Sends(c) ==
    LET k == task[c].k
    IN  /\ k \notin recent
        /\ recent' = recent \cup {k}
        /\ \/ /\ shown' = [d \in Conn |-> IF d \in room[k[1]]
                                          THEN [shown[d] EXCEPT ![k] = task[c].n] ELSE shown[d]]
              /\ Goes(c, [task[c] EXCEPT !.at = "sent"])
              /\ UNCHANGED raised
           \/ Fails(c) /\ UNCHANGED shown
        /\ UNCHANGED timers

Broadcasts_SkipsTimer(c) ==
    /\ At(c, "locked")
    /\ \/ Repeated(c) /\ UNCHANGED timers
       \/ Sends(c)
    /\ UNCHANGED <<sessions, locks, room, count>>

\* broadcast_quote_update, after FIELD_LOCKED was sent.
Broadcasts(c) ==
    /\ At(c, "locked")
    /\ \/ Repeated(c) /\ StartsTimer(c, task[c].k)
       \/ Sends(c)
    /\ UNCHANGED <<sessions, locks, room, count>>

Edited(c) ==
    /\ At(c, "sent")
    /\ StartsTimer(c, task[c].k)
    /\ Goes(c, Serving)
    /\ UNCHANGED <<sessions, locks, recent, room, count, shown, raised>>

\* _auto_release_lock, two seconds later.
AutoRelease ==
    /\ timers # <<>>
    /\ LET t == Head(timers)
       IN  locks' = IF locks[t.k] = t.c THEN [locks EXCEPT ![t.k] = Nobody] ELSE locks
    /\ timers' = Tail(timers)
    /\ UNCHANGED <<sessions, recent, room, count, shown, raised, task>>

\* 500 ms pass.
Forgets(k) ==
    /\ k \in recent
    /\ recent' = recent \ {k}
    /\ UNCHANGED <<sessions, locks, timers, room, count, shown, raised, task>>

-----------------------------------------------------------------------------
\* cleanup_connection, from the finally block of the endpoint

\* for quote_id in list(keys), from its head: the next quote of the list that
\* is ours is left; KeyError at one that has lost its last editor meanwhile.
NextSession(c, rest) ==
    \/ /\ \A q \in rest : sessions[q] # {} /\ c \notin sessions[q]
       /\ Goes(c, [at |-> "done"])
       /\ UNCHANGED <<sessions, locks, room>>
    \/ \E q \in rest, skipped \in SUBSET rest :
         /\ q \notin skipped
         /\ \A s \in skipped : sessions[s] # {} /\ c \notin sessions[s]
         /\ \/ c \in sessions[q] /\ Unsubscribe(c, q, rest \ (skipped \cup {q}), "cleanup")
            \/ sessions[q] = {} /\ Raise(c, "cleanup") /\ UNCHANGED <<sessions, locks, room>>

\* The loop over the locks of the connection, from its head.
Releasing(c, todo) ==
    \/ todo = {} /\ NextSession(c, {q \in Quote : sessions[q] # {}})
    \/ /\ \E k \in todo : Deletes(c, k, [at |-> "release", todo |-> todo \ {k}], "cleanup")
       /\ UNCHANGED <<sessions, room>>

Leaves(c) ==
    /\ task[c].at \in {"serve", "fatal"}
    /\ Releasing(c, Owned(c))
    /\ UNCHANGED <<recent, timers, count, shown, raised>>

Releases(c) ==
    /\ At(c, "release")
    /\ Releasing(c, task[c].todo)
    /\ UNCHANGED <<recent, timers, count, shown, raised>>

\* The send of a lock's release raised: nothing after it in the finally block runs.
ReleaseRaises(c) ==
    /\ At(c, "release")
    /\ Raise(c, "cleanup")
    /\ UNCHANGED <<handler, room, count, shown, raised>>

LeftRoom(c) ==
    /\ At(c, "leave")
    /\ IF task[c].by = "cleanup" THEN NextSession(c, task[c].rest)
       ELSE Goes(c, Serving) /\ UNCHANGED <<sessions, locks, room>>
    /\ UNCHANGED <<recent, timers, count, shown, raised>>

-----------------------------------------------------------------------------
SubscribeStep(c) == (\E q \in Quote : Subscribe(c, q)) \/ Loaded(c) \/ Joined(c)
                    \/ Outgrows(c) \/ Announces(c) \/ Answered(c) \/ SubscribeRaises(c)
UnsubscribeStep(c) == (\E q \in Quote : UnsubscribeMessage(c, q))
                      \/ Unlocks(c) \/ LeftRoom(c) \/ UnsubscribeRaises(c)
EditStep(c) == (\E k \in Key : EditRejected(c, k) \/ Edit(c, k))
               \/ Broadcasts(c) \/ Edited(c) \/ EditRaises(c)
CleanupStep(c) == Leaves(c) \/ Releases(c) \/ ReleaseRaises(c)

Next ==
    \/ \E c \in Conn : SubscribeStep(c) \/ UnsubscribeStep(c) \/ EditStep(c) \/ CleanupStep(c)
    \/ AutoRelease
    \/ \E k \in Key : Forgets(k)

Spec == Init /\ [][Next]_vars

\* asyncio wakes a sleeping task, and resumes a task whose await is over; a
\* client need not send anything.
FairSpec ==
    /\ Spec
    /\ WF_vars(AutoRelease)
    /\ \A c \in Conn : WF_vars(Broadcasts(c)) /\ WF_vars(Edited(c))

-----------------------------------------------------------------------------
\* Properties

Editing(c, k) == task[c].at \in {"locked", "sent"} /\ task[c].k = k

Timed(k, c) == \E i \in DOMAIN timers : timers[i] = [k |-> k, c |-> c]

Orphan(k, c) == locks[k] = c /\ ~Editing(c, k) /\ ~Timed(k, c)

\* A lock without an edit and without a timer is one whose owner's last edit
\* of the field raised: no other path, and no earlier timer of that owner,
\* leaves one behind, however the tasks interleave.
OrphanedByException == \A k \in Key, c \in Conn : Orphan(k, c) => <<k, c>> \in raised

\* A subscriber is in the session for as long as it is being announced, so
\* the lookups of the session after an await cannot fail.
SubscriberInSession ==
    \A c \in Conn : task[c].at \in {"state", "told"} => c \in sessions[task[c].q]

\* When cleanup_connection ran to its end, nothing names the connection.
GoneLeavesNothing ==
    \A c \in Conn : At(c, "done") => Owned(c) = {} /\ \A q \in Quote : c \notin sessions[q]

\* Every lock is released, also that of an owner who never says another word,
\* unless the owner's edit raised.
Expires(k, c) == locks[k] = c ~> locks[k] # c \/ <<k, c>> \in raised

LocksExpire == \A k \in Key, c \in Conn : Expires(k, c)

\* Refuted: "Release lock after short delay".  A lock whose edit is over has
\* a timer that will release it.
LockHasTimer == \A k \in Key, c \in Conn : ~Orphan(k, c)

\* Refuted: "Field '{field}' is currently being edited by another user".  Two
\* connections are never in the middle of an edit of one field.
OneEditor ==
    \A k \in Key, c, d \in Conn : Editing(c, k) /\ Editing(d, k) => c = d

\* Refuted: "Release all field locks held by this connection".  The cleanup of
\* a connection releases no lock of another one.
OnlyOwnLocks ==
    [][\A c \in Conn : At(c, "release") /\ task'[c].at = "release" /\ task'[c] # task[c] =>
         \A k \in Key : locks[k] \in {c, Nobody} \/ locks'[k] = locks[k]]_vars

\* Refuted: "Remove from all active sessions".  A connection whose endpoint
\* has ended is in no session.
NoGhostEditors ==
    \A c \in Conn : task[c].at \in {"done", "aborted"} => \A q \in Quote : c \notin sessions[q]

\* Refuted: "Skip duplicate update".  When an accepted edit has been broadcast,
\* without an exception, every member of the room has been shown its value.
EditReachesRoom ==
    [][\A c \in Conn : At(c, "locked") /\ task'[c].at \in {"serve", "sent"} =>
         \A d \in room[task[c].k[1]] : shown'[d][task[c].k] = task[c].n]_vars
=============================================================================
