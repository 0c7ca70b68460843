------------------------- MODULE QuoteCollabProofs -------------------------
(***************************************************************************)
(* Proofs about QuoteCollab, for any numbers of connections, quotes,       *)
(* fields and edits.                                                       *)
(*                                                                         *)
(* OrphanedByException and SubscriberInSession are inductive together with the    *)
(* types.  GoneLeavesNothing is not: it needs CleanupOK, which says what a *)
(* cleanup under way has still to undo.                                    *)
(***************************************************************************)
EXTENDS QuoteCollab, TLAPS

\* What a cleanup of c has still to undo is what its loops still visit: the
\* locks while it releases, the sessions while it unsubscribes.
CleanupOK(c) ==
    /\ At(c, "release") => Owned(c) \subseteq task[c].todo
    /\ task[c].at \in {"unlock", "leave"} /\ task[c].by = "cleanup" =>
         Owned(c) = {} /\ \A q \in Quote : c \in sessions[q] => q \in task[c].rest
    /\ At(c, "done") => Owned(c) = {} /\ \A q \in Quote : c \notin sessions[q]

\* The inductive invariant.
CollabInv == TypeOK /\ OrphanedByException /\ SubscriberInSession /\ \A c \in Conn : CleanupOK(c)

-----------------------------------------------------------------------------
\* A task that goes on changes its own entry only.
LEMMA GoesOn ==
    ASSUME TypeOK, NEW c \in Conn, NEW t \in Task, Goes(c, t)
    PROVE  /\ task' \in [Conn -> Task]
           /\ task'[c] = t
           /\ \A d \in Conn \ {c} : task'[d] = task[d]
  BY DEF TypeOK, Goes

\* What a task record is, by where the task is.
LEMMA TaskShape ==
    ASSUME TypeOK, NEW c \in Conn
    PROVE  /\ task[c].at \in {"load", "join", "state", "told"} =>
                task[c] \in [at: {"load", "join", "state", "told"}, q: Quote]
           /\ task[c].at \in {"locked", "sent"} =>
                task[c] \in [at: {"locked", "sent"}, k: Key, n: 1..MaxEdits]
           /\ task[c].at = "unlock" =>
                task[c] \in [at: {"unlock"}, q: Quote, todo: SUBSET Key, rest: SUBSET Quote, by: Caller]
           /\ task[c].at = "leave" =>
                task[c] \in [at: {"leave"}, q: Quote, rest: SUBSET Quote, by: Caller]
           /\ task[c].at = "release" => task[c] \in [at: {"release"}, todo: SUBSET Key]
  BY DEF TypeOK, Task

UnlockTask == [at: {"unlock"}, q: Quote, todo: SUBSET Key, rest: SUBSET Quote, by: Caller]

\* Types are preserved by the loops of unsubscribe and cleanup.
LEMMA UnlockingTypes ==
    ASSUME TypeOK, NEW c \in Conn, NEW t \in UnlockTask, Unlocking(c, t)
    PROVE  /\ locks' \in [Key -> Conn \cup {Nobody}]
           /\ room' \in [Quote -> SUBSET Conn]
           /\ task' \in [Conn -> Task]
           /\ \A d \in Conn \ {c} : task'[d] = task[d]
           /\ \A k \in Key : locks'[k] \in {locks[k], Nobody}
           /\ \/ task'[c].at \in {"unlock", "leave"} /\ task'[c].rest = t.rest /\ task'[c].by = t.by
              \/ task'[c].at = "aborted"
              \/ task'[c].at = "fatal" /\ t.by = "message"
  <1>1. CASE /\ t.todo = {}
             /\ room' = [room EXCEPT ![t.q] = @ \ {c}]
             /\ Goes(c, [at |-> "leave", q |-> t.q, rest |-> t.rest, by |-> t.by])
             /\ UNCHANGED locks
    <2>1. [at |-> "leave", q |-> t.q, rest |-> t.rest, by |-> t.by] \in Task
      BY DEF UnlockTask, Task
    <2>. QED  BY <1>1, <2>1, GoesOn DEF TypeOK, UnlockTask
  <1>2. CASE /\ \E k \in t.todo : Deletes(c, k, [t EXCEPT !.todo = @ \ {k}], t.by)
             /\ UNCHANGED room
    <2>1. PICK k \in t.todo : Deletes(c, k, [t EXCEPT !.todo = @ \ {k}], t.by)
      BY <1>2
    <2> DEFINE u == [t EXCEPT !.todo = @ \ {k}]
    <2>2. /\ k \in Key /\ u \in Task /\ t.by \in Caller
          /\ u.at = "unlock" /\ u.rest = t.rest /\ u.by = t.by
      BY DEF UnlockTask, Task
    <2>6. Deletes(c, k, u, t.by)
      BY <2>1
    <2> HIDE DEF u
    <2>3. [at |-> "aborted"] \in Task /\ [at |-> "fatal"] \in Task
      BY DEF Task
    <2>4. CASE locks[k] = Nobody
      <3>1. Goes(c, [at |-> IF t.by = "cleanup" THEN "aborted" ELSE "fatal"]) /\ UNCHANGED locks
        BY <2>1, <2>4 DEF Deletes, Raise
      <3>2. CASE t.by = "cleanup"
        BY <1>2, <2>3, <3>1, <3>2, GoesOn DEF TypeOK
      <3>3. CASE t.by = "message"
        BY <1>2, <2>3, <3>1, <3>3, GoesOn DEF TypeOK
      <3>. QED  BY <2>2, <3>2, <3>3 DEF Caller
    <2>5. CASE locks[k] # Nobody
      BY <1>2, <2>6, <2>2, <2>5, GoesOn DEF Deletes, TypeOK
    <2>. QED  BY <2>4, <2>5
  <1>. QED  BY <1>1, <1>2 DEF Unlocking

\* Where a task is after the first await of handle_quote_unsubscribe.
Unsubscribing(t, rest, by) ==
    \/ t.at \in {"unlock", "leave"} /\ t.rest = rest /\ t.by = by
    \/ t.at = "aborted"
    \/ t.at = "fatal" /\ by = "message"

\* handle_quote_unsubscribe up to its first await.
LEMMA UnsubscribeTypes ==
    ASSUME TypeOK, NEW c \in Conn, NEW q \in Quote, NEW rest \in SUBSET Quote,
           NEW by \in Caller, Unsubscribe(c, q, rest, by)
    PROVE  /\ locks' \in [Key -> Conn \cup {Nobody}]
           /\ room' \in [Quote -> SUBSET Conn]
           /\ task' \in [Conn -> Task]
           /\ sessions' = [sessions EXCEPT ![q] = @ \ {c}]
           /\ \A d \in Conn \ {c} : task'[d] = task[d]
           /\ \A k \in Key : locks'[k] \in {locks[k], Nobody}
           /\ Unsubscribing(task'[c], rest, by)
  <1> DEFINE t == [at |-> "unlock", q |-> q, todo |-> {k \in Owned(c) : k[1] = q},
                   rest |-> rest, by |-> by]
  <1>1. t \in UnlockTask
    BY DEF UnlockTask, Owned
  <1>2. Unlocking(c, t) /\ sessions' = [sessions EXCEPT ![q] = @ \ {c}]
    BY DEF Unsubscribe
  <1>3. t.rest = rest /\ t.by = by /\ t.at = "unlock"
    OBVIOUS
  <1> HIDE DEF t
  <1>5. /\ locks' \in [Key -> Conn \cup {Nobody}]
        /\ room' \in [Quote -> SUBSET Conn]
        /\ task' \in [Conn -> Task]
        /\ \A d \in Conn \ {c} : task'[d] = task[d]
        /\ \A k \in Key : locks'[k] \in {locks[k], Nobody}
        /\ \/ task'[c].at \in {"unlock", "leave"} /\ task'[c].rest = t.rest /\ task'[c].by = t.by
           \/ task'[c].at = "aborted"
           \/ task'[c].at = "fatal" /\ t.by = "message"
    BY <1>1, <1>2, UnlockingTypes
  <1>. QED  BY <1>2, <1>3, <1>5 DEF Unsubscribing

\* The loop of cleanup_connection over the sessions, up to its next await.
LEMMA NextSessionTypes ==
    ASSUME TypeOK, NEW c \in Conn, NEW rest \in SUBSET Quote, NextSession(c, rest)
    PROVE  /\ locks' \in [Key -> Conn \cup {Nobody}]
           /\ room' \in [Quote -> SUBSET Conn]
           /\ task' \in [Conn -> Task]
           /\ sessions' \in [Quote -> SUBSET Conn]
           /\ \A d \in Conn \ {c} : task'[d] = task[d]
           /\ \A k \in Key : locks'[k] \in {locks[k], Nobody}
           /\ \A q \in Quote : sessions[q] \ {c} \subseteq sessions'[q] /\ sessions'[q] \subseteq sessions[q]
           /\ task'[c].at \in {"done", "aborted", "unlock", "leave"}
           /\ (\A q \in Quote : c \in sessions[q] => q \in rest)
                => /\ task'[c].at = "done" => \A q \in Quote : c \notin sessions'[q]
                   /\ task'[c].at \in {"unlock", "leave"} =>
                        \A q \in Quote : c \in sessions'[q] => q \in task'[c].rest
  <1>1. CASE /\ \A q \in rest : sessions[q] # {} /\ c \notin sessions[q]
             /\ Goes(c, [at |-> "done"])
             /\ UNCHANGED <<sessions, locks, room>>
    <2>1. [at |-> "done"] \in Task
      BY DEF Task
    <2>. QED  BY <1>1, <2>1, GoesOn DEF TypeOK
  <1>2. ASSUME NEW q \in rest, NEW skipped \in SUBSET rest,
               \A s \in skipped : sessions[s] # {} /\ c \notin sessions[s],
               c \in sessions[q], Unsubscribe(c, q, rest \ (skipped \cup {q}), "cleanup")
        PROVE  /\ locks' \in [Key -> Conn \cup {Nobody}]
               /\ room' \in [Quote -> SUBSET Conn]
               /\ task' \in [Conn -> Task]
               /\ sessions' = [sessions EXCEPT ![q] = @ \ {c}]
               /\ \A d \in Conn \ {c} : task'[d] = task[d]
               /\ \A k \in Key : locks'[k] \in {locks[k], Nobody}
               /\ \/ task'[c].at \in {"unlock", "leave"} /\ task'[c].rest = rest \ (skipped \cup {q})
                  \/ task'[c].at = "aborted"
    <2> DEFINE r == rest \ (skipped \cup {q})
    <2>1. r \in SUBSET Quote /\ q \in Quote
      OBVIOUS
    <2>2. Unsubscribe(c, q, r, "cleanup")
      BY <1>2
    <2> HIDE DEF r
    <2>3. "cleanup" \in Caller
      BY DEF Caller
    <2>5. Unsubscribing(task'[c], r, "cleanup")
      BY <2>1, <2>2, <2>3, UnsubscribeTypes
    <2>6. \/ task'[c].at \in {"unlock", "leave"} /\ task'[c].rest = r
          \/ task'[c].at = "aborted"
      BY <2>5 DEF Unsubscribing
    <2>4. /\ locks' \in [Key -> Conn \cup {Nobody}]
          /\ room' \in [Quote -> SUBSET Conn]
          /\ task' \in [Conn -> Task]
          /\ sessions' = [sessions EXCEPT ![q] = @ \ {c}]
          /\ \A d \in Conn \ {c} : task'[d] = task[d]
          /\ \A k \in Key : locks'[k] \in {locks[k], Nobody}
      BY <2>1, <2>2, <2>3, UnsubscribeTypes
    <2>. QED  BY <2>4, <2>6 DEF r
  <1>3. ASSUME NEW q \in rest, sessions[q] = {}, Raise(c, "cleanup"), UNCHANGED <<sessions, locks, room>>
        PROVE  /\ task' \in [Conn -> Task]
               /\ \A d \in Conn \ {c} : task'[d] = task[d]
               /\ task'[c].at = "aborted"
    <2>1. [at |-> "aborted"] \in Task
      BY DEF Task
    <2>. QED  BY <1>3, <2>1, GoesOn DEF Raise
  <1>4. CASE \E q \in rest, skipped \in SUBSET rest :
               /\ q \notin skipped
               /\ \A s \in skipped : sessions[s] # {} /\ c \notin sessions[s]
               /\ \/ c \in sessions[q] /\ Unsubscribe(c, q, rest \ (skipped \cup {q}), "cleanup")
                  \/ sessions[q] = {} /\ Raise(c, "cleanup") /\ UNCHANGED <<sessions, locks, room>>
    <2>1. PICK q \in rest, skipped \in SUBSET rest :
               /\ \A s \in skipped : sessions[s] # {} /\ c \notin sessions[s]
               /\ \/ c \in sessions[q] /\ Unsubscribe(c, q, rest \ (skipped \cup {q}), "cleanup")
                  \/ sessions[q] = {} /\ Raise(c, "cleanup") /\ UNCHANGED <<sessions, locks, room>>
      BY <1>4
    <2>2. CASE c \in sessions[q] /\ Unsubscribe(c, q, rest \ (skipped \cup {q}), "cleanup")
      <3>1. /\ locks' \in [Key -> Conn \cup {Nobody}]
            /\ room' \in [Quote -> SUBSET Conn]
            /\ task' \in [Conn -> Task]
            /\ sessions' = [sessions EXCEPT ![q] = @ \ {c}]
            /\ \A d \in Conn \ {c} : task'[d] = task[d]
            /\ \A k \in Key : locks'[k] \in {locks[k], Nobody}
            /\ \/ task'[c].at \in {"unlock", "leave"} /\ task'[c].rest = rest \ (skipped \cup {q})
               \/ task'[c].at = "aborted"
        BY <1>2, <2>1, <2>2
      <3>. QED  BY <2>1, <3>1 DEF TypeOK
    <2>3. CASE sessions[q] = {} /\ Raise(c, "cleanup") /\ UNCHANGED <<sessions, locks, room>>
      <3>1. task' \in [Conn -> Task] /\ (\A d \in Conn \ {c} : task'[d] = task[d]) /\ task'[c].at = "aborted"
        BY <1>3, <2>3
      <3>. QED  BY <2>3, <3>1 DEF TypeOK
    <2>. QED  BY <2>1, <2>2, <2>3
  <1>. QED  BY <1>1, <1>4 DEF NextSession

\* The loop of cleanup_connection over the locks, up to its next await.
LEMMA ReleasingTypes ==
    ASSUME TypeOK, NEW c \in Conn, NEW todo \in SUBSET Key, Releasing(c, todo)
    PROVE  /\ locks' \in [Key -> Conn \cup {Nobody}]
           /\ room' \in [Quote -> SUBSET Conn]
           /\ task' \in [Conn -> Task]
           /\ sessions' \in [Quote -> SUBSET Conn]
           /\ \A d \in Conn \ {c} : task'[d] = task[d]
           /\ \A k \in Key : locks'[k] \in {locks[k], Nobody}
           /\ \A q \in Quote : sessions[q] \ {c} \subseteq sessions'[q] /\ sessions'[q] \subseteq sessions[q]
           /\ task'[c].at \in {"done", "aborted", "unlock", "leave", "release"}
           /\ Owned(c) \subseteq todo => CleanupOK(c)'
  <1>1. CASE todo = {} /\ NextSession(c, {q \in Quote : sessions[q] # {}})
    <2>1. {q \in Quote : sessions[q] # {}} \in SUBSET Quote
      OBVIOUS
    <2>2. \A q \in Quote : c \in sessions[q] => q \in {p \in Quote : sessions[p] # {}}
      OBVIOUS
    <2>3. /\ locks' \in [Key -> Conn \cup {Nobody}]
          /\ room' \in [Quote -> SUBSET Conn]
          /\ task' \in [Conn -> Task]
          /\ sessions' \in [Quote -> SUBSET Conn]
          /\ \A d \in Conn \ {c} : task'[d] = task[d]
          /\ \A k \in Key : locks'[k] \in {locks[k], Nobody}
          /\ \A q \in Quote : sessions[q] \ {c} \subseteq sessions'[q] /\ sessions'[q] \subseteq sessions[q]
          /\ task'[c].at \in {"done", "aborted", "unlock", "leave"}
          /\ task'[c].at = "done" => \A q \in Quote : c \notin sessions'[q]
          /\ task'[c].at \in {"unlock", "leave"} => \A q \in Quote : c \in sessions'[q] => q \in task'[c].rest
      BY <1>1, <2>1, <2>2, NextSessionTypes
    <2>4. Owned(c) \subseteq todo => Owned(c)' = {}
      BY <1>1, <2>3, ConnAssumption DEF Owned, TypeOK
    <2>. QED  BY <2>3, <2>4 DEF CleanupOK, At
  <1>2. CASE /\ \E k \in todo : Deletes(c, k, [at |-> "release", todo |-> todo \ {k}], "cleanup")
             /\ UNCHANGED <<sessions, room>>
    <2>1. PICK k \in todo : Deletes(c, k, [at |-> "release", todo |-> todo \ {k}], "cleanup")
      BY <1>2
    <2>2. k \in Key /\ [at |-> "release", todo |-> todo \ {k}] \in Task /\ [at |-> "aborted"] \in Task
      BY DEF Task
    <2>3. CASE locks[k] = Nobody
      BY <1>2, <2>1, <2>2, <2>3, GoesOn DEF Deletes, Raise, TypeOK, CleanupOK, At
    <2>4. CASE locks[k] # Nobody
      <3>1. Goes(c, [at |-> "release", todo |-> todo \ {k}]) /\ locks' = [locks EXCEPT ![k] = Nobody]
        BY <2>1, <2>4 DEF Deletes
      <3>2. task'[c] = [at |-> "release", todo |-> todo \ {k}] /\ task' \in [Conn -> Task]
            /\ \A d \in Conn \ {c} : task'[d] = task[d]
        BY <3>1, <2>2, GoesOn
      <3>3. Owned(c) \subseteq todo => Owned(c)' \subseteq todo \ {k}
        BY <3>1, <2>2, ConnAssumption DEF Owned, TypeOK
      <3>. QED  BY <1>2, <2>2, <3>1, <3>2, <3>3 DEF TypeOK, CleanupOK, At
    <2>. QED  BY <2>3, <2>4
  <1>. QED  BY <1>1, <1>2 DEF Releasing

-----------------------------------------------------------------------------
\* Steps that take no lock and start no timer: an owner stays timed when only
\* c goes on, and c was not in an edit.
LEMMA TimedStays ==
    ASSUME TypeOK, OrphanedByException, NEW c \in Conn, task[c].at \notin {"locked", "sent"},
           \A d \in Conn \ {c} : task'[d] = task[d],
           \A k \in Key : locks'[k] \in {locks[k], Nobody}, UNCHANGED <<timers, raised>>
    PROVE  OrphanedByException'
  BY ConnAssumption DEF OrphanedByException, Orphan, Editing, Timed

LEMMA SubscribersStay ==
    ASSUME TypeOK, SubscriberInSession, NEW c \in Conn, task'[c].at \notin {"state", "told"},
           \A d \in Conn \ {c} : task'[d] = task[d], task' \in [Conn -> Task],
           \A q \in Quote : sessions[q] \ {c} \subseteq sessions'[q]
    PROVE  SubscriberInSession'
  <1> SUFFICES ASSUME NEW d \in Conn, task'[d].at \in {"state", "told"}
               PROVE  d \in sessions'[task'[d].q]
    BY DEF SubscriberInSession
  <1>1. d # c /\ task'[d] = task[d]
    OBVIOUS
  <1>2. task[d].q \in Quote
    BY <1>1, TaskShape
  <1>. QED  BY <1>1, <1>2 DEF SubscriberInSession

\* The cleanup of the others is not disturbed: locks and sessions only shrink.
LEMMA CleanupsStay ==
    ASSUME TypeOK, NEW c \in Conn, \A d \in Conn : CleanupOK(d),
           \A d \in Conn \ {c} : task'[d] = task[d],
           \A k \in Key : locks'[k] \in {locks[k], Nobody, c},
           \A q \in Quote : sessions'[q] \subseteq sessions[q] \cup {c}, CleanupOK(c)'
    PROVE  \A d \in Conn : CleanupOK(d)'
  <1> SUFFICES ASSUME NEW d \in Conn \ {c} PROVE CleanupOK(d)'
    OBVIOUS
  <1>1. Owned(d)' \subseteq Owned(d)
    BY ConnAssumption DEF Owned
  <1>2. \A q \in Quote : d \in sessions'[q] => d \in sessions[q]
    OBVIOUS
  <1>. QED  BY <1>1, <1>2 DEF CleanupOK, At

-----------------------------------------------------------------------------
LEMMA InitInv == Init => CollabInv
  <1> SUFFICES ASSUME Init PROVE CollabInv
    OBVIOUS
  <1>1. Serving \in Task
    BY DEF Serving, Task
  <1>2. TypeOK
    BY <1>1, EditsAssumption DEF Init, TypeOK
  <1>3. OrphanedByException
    BY ConnAssumption DEF Init, OrphanedByException, Orphan
  <1>4. SubscriberInSession /\ \A c \in Conn : CleanupOK(c)
    BY DEF Init, SubscriberInSession, CleanupOK, At, Serving
  <1>. QED  BY <1>2, <1>3, <1>4 DEF CollabInv

\* A step of c that is not part of an edit and announces nobody.
LEMMA StepInv ==
    ASSUME CollabInv, NEW c \in Conn,
           task[c].at \notin {"locked", "sent"}, task'[c].at \notin {"state", "told"},
           \A d \in Conn \ {c} : task'[d] = task[d],
           \A k \in Key : locks'[k] \in {locks[k], Nobody}, UNCHANGED <<timers, raised>>,
           \A q \in Quote : sessions[q] \ {c} \subseteq sessions'[q] /\ sessions'[q] \subseteq sessions[q],
           TypeOK', CleanupOK(c)'
    PROVE  CollabInv'
  <1>1. TypeOK /\ OrphanedByException /\ SubscriberInSession /\ \A d \in Conn : CleanupOK(d)
    BY DEF CollabInv
  <1>2. OrphanedByException'
    BY <1>1, TimedStays
  <1>3. task' \in [Conn -> Task]
    BY DEF TypeOK
  <1>4. SubscriberInSession'
    BY <1>1, <1>3, SubscribersStay
  <1>5. \A k \in Key : locks'[k] \in {locks[k], Nobody, c}
    OBVIOUS
  <1>6. \A q \in Quote : sessions'[q] \subseteq sessions[q] \cup {c}
    OBVIOUS
  <1>7. \A d \in Conn : CleanupOK(d)'
    BY <1>1, <1>5, <1>6, CleanupsStay
  <1>. QED  BY <1>2, <1>4, <1>7 DEF CollabInv

\* An exception outside an edit ends the message loop or the cleanup, and
\* changes nothing else.
LEMMA RaisedInv ==
    ASSUME CollabInv, NEW c \in Conn, task[c].at \notin {"locked", "sent"},
           Goes(c, [at |-> "fatal"]) \/ Goes(c, [at |-> "aborted"]),
           UNCHANGED <<handler, room, count, shown, raised>>
    PROVE  CollabInv'
  <1>1. TypeOK /\ [at |-> "fatal"] \in Task /\ [at |-> "aborted"] \in Task
    BY DEF CollabInv, Task
  <1>2. /\ task' \in [Conn -> Task] /\ task'[c].at \in {"fatal", "aborted"}
        /\ \A d \in Conn \ {c} : task'[d] = task[d]
    BY <1>1, GoesOn
  <1>3. TypeOK'
    BY <1>1, <1>2 DEF TypeOK, handler
  <1>4. CleanupOK(c)'
    BY <1>2 DEF CleanupOK, At
  <1>. QED  BY <1>2, <1>3, <1>4, StepInv DEF handler

\* One action after the other.

LEMMA SubscribeInv ==
    ASSUME CollabInv, NEW c \in Conn, SubscribeStep(c)
    PROVE  CollabInv'
  <1>. USE DEF CollabInv
  <1>1. CASE \E q \in Quote : Subscribe(c, q)
    <2>1. PICK q \in Quote : Subscribe(c, q)
      BY <1>1
    <2>2. [at |-> "load", q |-> q] \in Task
      BY DEF Task
    <2>3. /\ task' \in [Conn -> Task] /\ task'[c] = [at |-> "load", q |-> q]
          /\ \A d \in Conn \ {c} : task'[d] = task[d]
      BY <2>1, <2>2, GoesOn DEF Subscribe
    <2>4. UNCHANGED <<handler, room, count, shown, raised>> /\ At(c, "serve")
      BY <2>1 DEF Subscribe
    <2>5. TypeOK'
      BY <2>3, <2>4 DEF TypeOK, handler
    <2>6. CleanupOK(c)'
      BY <2>3 DEF CleanupOK, At
    <2>. QED  BY <2>3, <2>4, <2>5, <2>6, StepInv DEF handler, At
  <1>2. CASE Loaded(c)
    <2>1. task[c] \in [at: {"load"}, q: Quote]
      BY <1>2, TaskShape DEF Loaded, At
    <2>2. [task[c] EXCEPT !.at = "join"] \in Task /\ [at |-> "reply"] \in Task
      BY <2>1 DEF Task
    <2>3. /\ task' \in [Conn -> Task] /\ task'[c].at \in {"join", "reply"}
          /\ \A d \in Conn \ {c} : task'[d] = task[d]
      <3>1. CASE Goes(c, [task[c] EXCEPT !.at = "join"])
        BY <3>1, <2>1, <2>2, GoesOn
      <3>2. CASE Goes(c, [at |-> "reply"])
        BY <3>2, <2>2, GoesOn
      <3>. QED  BY <1>2, <3>1, <3>2 DEF Loaded
    <2>7. room' = room \/ room' = [room EXCEPT ![task[c].q] = @ \cup {c}]
      BY <1>2 DEF Loaded
    <2>8. room \in [Quote -> SUBSET Conn] /\ task[c].q \in Quote
      BY <2>1 DEF TypeOK
    <2>9. room' \in [Quote -> SUBSET Conn]
      BY <2>7, <2>8
    <2>4. UNCHANGED <<handler, count, shown, raised>> /\ room' \in [Quote -> SUBSET Conn]
      BY <1>2, <2>9 DEF Loaded
    <2>5. TypeOK'
      BY <2>3, <2>4 DEF TypeOK, handler
    <2>6. CleanupOK(c)'
      BY <2>3 DEF CleanupOK, At
    <2>. QED  BY <2>1, <2>3, <2>4, <2>5, <2>6, StepInv DEF handler
  <1>3. CASE Joined(c)
    <2> DEFINE q == task[c].q
    <2>1. task[c] \in [at: {"join"}, q: Quote] /\ q \in Quote
      BY <1>3, TaskShape DEF Joined, At
    <2>2. [task[c] EXCEPT !.at = "state"] \in Task /\ Serving \in Task
      BY <2>1 DEF Task, Serving
    <2>3. CASE /\ sessions' = [sessions EXCEPT ![q] = @ \cup {c}]
               /\ shown' = [shown EXCEPT ![c] = [k \in Key |-> IF k[1] = q THEN 0 ELSE @[k]]]
               /\ Goes(c, [task[c] EXCEPT !.at = "state"])
               /\ UNCHANGED room
      <3>1. /\ task' \in [Conn -> Task] /\ task'[c].at = "state" /\ task'[c].q = q
            /\ \A d \in Conn \ {c} : task'[d] = task[d]
        BY <2>1, <2>2, <2>3, GoesOn
      <3>2. UNCHANGED <<locks, recent, timers, count, raised>>
        BY <1>3 DEF Joined
      <3>3. /\ sessions' \in [Quote -> SUBSET Conn]
            /\ \A p \in Quote : sessions[p] \subseteq sessions'[p] /\ sessions'[p] \subseteq sessions[p] \cup {c}
            /\ c \in sessions'[q]
        BY <2>1, <2>3 DEF TypeOK
      <3>4. shown' \in [Conn -> [Key -> 0..MaxEdits]]
        BY <2>3, EditsAssumption DEF TypeOK
      <3>5. TypeOK'
        BY <2>3, <3>1, <3>2, <3>3, <3>4 DEF TypeOK
      <3>8. OrphanedByException'
        BY <2>1, <3>1, <3>2, TimedStays
      <3>6. SubscriberInSession'
        <4>1. ASSUME NEW d \in Conn \ {c}, task'[d].at \in {"state", "told"}
              PROVE  d \in sessions'[task'[d].q]
          BY <3>1, <3>3, <4>1, TaskShape DEF SubscriberInSession
        <4>. QED  BY <3>1, <3>3, <4>1 DEF SubscriberInSession
      <3>7. CleanupOK(c)'
        BY <3>1 DEF CleanupOK, At
      <3>. QED  BY <3>1, <3>2, <3>3, <3>5, <3>6, <3>7, <3>8, CleanupsStay
    <2>4. CASE /\ room' = [room EXCEPT ![q] = @ \ {c}]
               /\ Goes(c, Serving)
               /\ UNCHANGED <<sessions, shown>>
      <3>1. /\ task' \in [Conn -> Task] /\ task'[c] = Serving
            /\ \A d \in Conn \ {c} : task'[d] = task[d]
        BY <2>2, <2>4, GoesOn
      <3>2. UNCHANGED <<sessions, locks, recent, timers, count, shown, raised>> /\ room' \in [Quote -> SUBSET Conn]
        BY <1>3, <2>4 DEF Joined, TypeOK
      <3>3. TypeOK'
        BY <3>1, <3>2 DEF TypeOK
      <3>4. CleanupOK(c)'
        BY <3>1 DEF CleanupOK, At, Serving
      <3>. QED  BY <2>1, <3>1, <3>2, <3>3, <3>4, StepInv DEF Serving
    <2>. QED  BY <1>3, <2>3, <2>4 DEF Joined
  <1>4. CASE Announces(c)
    <2>1. task[c] \in [at: {"state"}, q: Quote] /\ c \in sessions[task[c].q]
      BY <1>4, TaskShape DEF Announces, At, SubscriberInSession
    <2>2. [task[c] EXCEPT !.at = "told"] \in Task
      BY <2>1 DEF Task
    <2>3. Goes(c, [task[c] EXCEPT !.at = "told"]) /\ UNCHANGED <<handler, room, count, shown, raised>>
      BY <1>4, <2>1 DEF Announces
    <2>4. /\ task' \in [Conn -> Task] /\ task'[c].at = "told" /\ task'[c].q = task[c].q
          /\ \A d \in Conn \ {c} : task'[d] = task[d]
      BY <2>1, <2>2, <2>3, GoesOn
    <2>5. TypeOK'
      BY <2>3, <2>4 DEF TypeOK, handler
    <2>8. OrphanedByException'
      BY <2>1, <2>3, <2>4, TimedStays DEF handler
    <2>6. SubscriberInSession'
      BY <2>1, <2>3, <2>4 DEF SubscriberInSession, handler
    <2>7. CleanupOK(c)'
      BY <2>4 DEF CleanupOK, At
    <2>. QED  BY <2>3, <2>4, <2>5, <2>6, <2>7, <2>8, CleanupsStay DEF handler
  <1>5. CASE Answered(c)
    <2>1. Serving \in Task
      BY DEF Task, Serving
    <2>2. /\ task' \in [Conn -> Task] /\ task'[c] = Serving
          /\ \A d \in Conn \ {c} : task'[d] = task[d]
      BY <1>5, <2>1, GoesOn DEF Answered
    <2>3. UNCHANGED <<handler, room, count, shown, raised>> /\ task[c].at \in {"told", "reply"}
      BY <1>5 DEF Answered
    <2>4. TypeOK'
      BY <2>2, <2>3 DEF TypeOK, handler
    <2>5. CleanupOK(c)'
      BY <2>2 DEF CleanupOK, At, Serving
    <2>. QED  BY <2>2, <2>3, <2>4, <2>5, StepInv DEF handler, Serving
  <1>6. CASE SubscribeRaises(c)
    <2>1. task[c].at \notin {"locked", "sent"} /\ Goes(c, [at |-> "fatal"])
          /\ UNCHANGED <<handler, room, count, shown, raised>>
      BY <1>6 DEF SubscribeRaises
    <2>. QED  BY <2>1, RaisedInv
  <1>7. CASE Outgrows(c)
    <2> DEFINE q == task[c].q
    <2>1. task[c] \in [at: {"join"}, q: Quote] /\ q \in Quote
      BY <1>7, TaskShape DEF Outgrows, At
    <2>2. [at |-> "reply"] \in Task
      BY DEF Task
    <2>3. /\ task' \in [Conn -> Task] /\ task'[c] = [at |-> "reply"]
          /\ \A d \in Conn \ {c} : task'[d] = task[d]
      BY <1>7, <2>2, GoesOn DEF Outgrows
    <2>4. UNCHANGED <<locks, recent, timers, room, count, shown, raised>>
      BY <1>7 DEF Outgrows
    <2>5. /\ sessions' \in [Quote -> SUBSET Conn]
          /\ \A p \in Quote : sessions[p] \subseteq sessions'[p] /\ sessions'[p] \subseteq sessions[p] \cup {c}
      BY <1>7, <2>1 DEF Outgrows, TypeOK
    <2>6. TypeOK'
      BY <2>3, <2>4, <2>5 DEF TypeOK
    <2>7. OrphanedByException'
      BY <2>1, <2>3, <2>4, TimedStays
    <2>8. SubscriberInSession'
      <3>1. ASSUME NEW d \in Conn, task'[d].at \in {"state", "told"}
            PROVE  d \in sessions'[task'[d].q]
        BY <2>3, <2>5, <3>1, TaskShape DEF SubscriberInSession
      <3>. QED  BY <3>1 DEF SubscriberInSession
    <2>9. CleanupOK(c)'
      BY <2>3 DEF CleanupOK, At
    <2>. QED  BY <2>3, <2>4, <2>5, <2>6, <2>7, <2>8, <2>9, CleanupsStay
  <1>. QED  BY <1>1, <1>2, <1>3, <1>4, <1>5, <1>6, <1>7 DEF SubscribeStep

LEMMA UnsubscribeInv ==
    ASSUME CollabInv, NEW c \in Conn, UnsubscribeStep(c)
    PROVE  CollabInv'
  <1>. USE DEF CollabInv
  <1>1. CASE \E q \in Quote : UnsubscribeMessage(c, q)
    <2>1. PICK q \in Quote : UnsubscribeMessage(c, q)
      BY <1>1
    <2>2. At(c, "serve") /\ Unsubscribe(c, q, {}, "message") /\ UNCHANGED <<recent, timers, count, shown, raised>>
      BY <2>1 DEF UnsubscribeMessage
    <2>3. {} \in SUBSET Quote /\ "message" \in Caller
      BY DEF Caller
    <2>4. /\ locks' \in [Key -> Conn \cup {Nobody}]
          /\ room' \in [Quote -> SUBSET Conn]
          /\ task' \in [Conn -> Task]
          /\ sessions' = [sessions EXCEPT ![q] = @ \ {c}]
          /\ \A d \in Conn \ {c} : task'[d] = task[d]
          /\ \A k \in Key : locks'[k] \in {locks[k], Nobody}
          /\ Unsubscribing(task'[c], {}, "message")
      BY <2>2, <2>3, UnsubscribeTypes
    <2>5. task'[c].at \notin {"state", "told", "release", "done"} /\
          (task'[c].at \in {"unlock", "leave"} => task'[c].by = "message")
      BY <2>4 DEF Unsubscribing
    <2>6. /\ sessions' \in [Quote -> SUBSET Conn]
          /\ \A p \in Quote : sessions[p] \ {c} \subseteq sessions'[p] /\ sessions'[p] \subseteq sessions[p]
      BY <2>4 DEF TypeOK
    <2>7. TypeOK'
      BY <2>2, <2>4, <2>6 DEF TypeOK
    <2>8. CleanupOK(c)'
      BY <2>5 DEF CleanupOK, At
    <2>. QED  BY <2>2, <2>4, <2>5, <2>6, <2>7, <2>8, StepInv DEF At
  <1>2. CASE Unlocks(c)
    <2>1. task[c] \in UnlockTask /\ Unlocking(c, task[c]) /\ UNCHANGED <<sessions, recent, timers, count, shown, raised>>
      BY <1>2, TaskShape DEF Unlocks, At, UnlockTask
    <2>2. /\ locks' \in [Key -> Conn \cup {Nobody}]
          /\ room' \in [Quote -> SUBSET Conn]
          /\ task' \in [Conn -> Task]
          /\ \A d \in Conn \ {c} : task'[d] = task[d]
          /\ \A k \in Key : locks'[k] \in {locks[k], Nobody}
          /\ Unsubscribing(task'[c], task[c].rest, task[c].by)
      BY <2>1, UnlockingTypes DEF Unsubscribing
    <2>3. TypeOK'
      BY <2>1, <2>2 DEF TypeOK
    <2>4. task[c].at = "unlock"
      BY <1>2 DEF Unlocks, At
    <2>5. Owned(c)' \subseteq Owned(c)
      BY <2>2, ConnAssumption DEF Owned
    <2>6. CleanupOK(c)'
      BY <2>1, <2>2, <2>4, <2>5 DEF CleanupOK, At, Unsubscribing
    <2>7. task'[c].at \notin {"state", "told"}
      BY <2>2 DEF Unsubscribing
    <2>. QED  BY <2>1, <2>2, <2>3, <2>4, <2>6, <2>7, StepInv
  <1>3. CASE LeftRoom(c)
    <2>1. /\ task[c] \in [at: {"leave"}, q: Quote, rest: SUBSET Quote, by: Caller]
          /\ UNCHANGED <<recent, timers, count, shown, raised>>
      BY <1>3, TaskShape DEF LeftRoom, At
    <2>2. CASE task[c].by = "cleanup"
      <3>1. NextSession(c, task[c].rest) /\ task[c].rest \in SUBSET Quote
        BY <1>3, <2>1, <2>2 DEF LeftRoom
      <3>2. Owned(c) = {} /\ \A q \in Quote : c \in sessions[q] => q \in task[c].rest
        BY <2>1, <2>2 DEF CleanupOK
      <3>3. /\ locks' \in [Key -> Conn \cup {Nobody}]
            /\ room' \in [Quote -> SUBSET Conn]
            /\ task' \in [Conn -> Task]
            /\ sessions' \in [Quote -> SUBSET Conn]
            /\ \A d \in Conn \ {c} : task'[d] = task[d]
            /\ \A k \in Key : locks'[k] \in {locks[k], Nobody}
            /\ \A q \in Quote : sessions[q] \ {c} \subseteq sessions'[q] /\ sessions'[q] \subseteq sessions[q]
            /\ task'[c].at \in {"done", "aborted", "unlock", "leave"}
            /\ task'[c].at = "done" => \A q \in Quote : c \notin sessions'[q]
            /\ task'[c].at \in {"unlock", "leave"} => \A q \in Quote : c \in sessions'[q] => q \in task'[c].rest
        BY <3>1, <3>2, NextSessionTypes
      <3>4. Owned(c)' = {}
        BY <3>2, <3>3, ConnAssumption DEF Owned
      <3>5. TypeOK'
        BY <2>1, <3>3 DEF TypeOK
      <3>6. CleanupOK(c)'
        BY <3>3, <3>4 DEF CleanupOK, At
      <3>. QED  BY <2>1, <3>3, <3>5, <3>6, StepInv
    <2>3. CASE task[c].by # "cleanup"
      <3>1. Goes(c, Serving) /\ UNCHANGED <<sessions, locks, room>> /\ Serving \in Task
        BY <1>3, <2>3 DEF LeftRoom, Serving, Task
      <3>2. task' \in [Conn -> Task] /\ task'[c] = Serving /\ \A d \in Conn \ {c} : task'[d] = task[d]
        BY <3>1, GoesOn
      <3>3. TypeOK'
        BY <2>1, <3>1, <3>2 DEF TypeOK
      <3>4. CleanupOK(c)'
        BY <3>2 DEF CleanupOK, At, Serving
      <3>. QED  BY <2>1, <3>1, <3>2, <3>3, <3>4, StepInv DEF Serving
    <2>. QED  BY <2>2, <2>3
  <1>4. CASE UnsubscribeRaises(c)
    <2>1. task[c].at \notin {"locked", "sent"} /\ Raise(c, task[c].by)
          /\ UNCHANGED <<handler, room, count, shown, raised>>
      BY <1>4 DEF UnsubscribeRaises
    <2>. QED  BY <2>1, RaisedInv DEF Raise
  <1>. QED  BY <1>1, <1>2, <1>3, <1>4 DEF UnsubscribeStep

LEMMA CleanupInv ==
    ASSUME CollabInv, NEW c \in Conn, CleanupStep(c)
    PROVE  CollabInv'
  <1>. USE DEF CollabInv
  <1>1. ASSUME NEW todo \in SUBSET Key, Releasing(c, todo), Owned(c) \subseteq todo,
               task[c].at \notin {"locked", "sent"}, UNCHANGED <<recent, timers, count, shown, raised>>
        PROVE  CollabInv'
    <2>1. /\ locks' \in [Key -> Conn \cup {Nobody}]
          /\ room' \in [Quote -> SUBSET Conn]
          /\ task' \in [Conn -> Task]
          /\ sessions' \in [Quote -> SUBSET Conn]
          /\ \A d \in Conn \ {c} : task'[d] = task[d]
          /\ \A k \in Key : locks'[k] \in {locks[k], Nobody}
          /\ \A q \in Quote : sessions[q] \ {c} \subseteq sessions'[q] /\ sessions'[q] \subseteq sessions[q]
          /\ task'[c].at \in {"done", "aborted", "unlock", "leave", "release"}
          /\ CleanupOK(c)'
      BY <1>1, ReleasingTypes
    <2>2. TypeOK'
      BY <1>1, <2>1 DEF TypeOK
    <2>. QED  BY <1>1, <2>1, <2>2, StepInv
  <1>2. CASE Leaves(c)
    <2>1. Owned(c) \in SUBSET Key
      BY DEF Owned
    <2>. QED  BY <1>1, <1>2, <2>1 DEF Leaves
  <1>3. CASE Releases(c)
    <2>1. task[c] \in [at: {"release"}, todo: SUBSET Key]
      BY <1>3, TaskShape DEF Releases, At
    <2>2. Owned(c) \subseteq task[c].todo
      BY <2>1 DEF CleanupOK, At
    <2>. QED  BY <1>1, <1>3, <2>1, <2>2 DEF Releases
  <1>4. CASE ReleaseRaises(c)
    <2>1. task[c].at \notin {"locked", "sent"} /\ Raise(c, "cleanup")
          /\ UNCHANGED <<handler, room, count, shown, raised>>
      BY <1>4 DEF ReleaseRaises, At
    <2>. QED  BY <2>1, RaisedInv DEF Raise
  <1>. QED  BY <1>2, <1>3, <1>4 DEF CleanupStep

-----------------------------------------------------------------------------
\* A timer is appended: what was timed stays timed, and the new one is.
LEMMA TimerStarts ==
    ASSUME TypeOK, NEW c \in Conn, NEW k \in Key, StartsTimer(c, k)
    PROVE  /\ timers' \in Seq([k: Key, c: Conn])
           /\ Timed(k, c)'
           /\ \A j \in Key, d \in Conn : Timed(j, d) => Timed(j, d)'
  <1>1. timers \in Seq([k: Key, c: Conn]) /\ [k |-> k, c |-> c] \in [k: Key, c: Conn]
    BY DEF TypeOK
  <1>2. timers' = Append(timers, [k |-> k, c |-> c])
    BY DEF StartsTimer
  <1>3. /\ timers'[Len(timers) + 1] = [k |-> k, c |-> c]
        /\ \A i \in DOMAIN timers : i \in DOMAIN timers' /\ timers'[i] = timers[i]
        /\ Len(timers) + 1 \in DOMAIN timers'
    BY <1>1, <1>2
  <1>. QED  BY <1>1, <1>2, <1>3 DEF Timed

\* The oldest timer goes: the others stay.
LEMMA TimerEnds ==
    ASSUME TypeOK, timers # <<>>, timers' = Tail(timers)
    PROVE  /\ timers' \in Seq([k: Key, c: Conn]) /\ Head(timers) \in [k: Key, c: Conn]
           /\ \A j \in Key, d \in Conn :
                Timed(j, d) /\ Head(timers) # [k |-> j, c |-> d] => Timed(j, d)'
  <1>1. timers \in Seq([k: Key, c: Conn])
    BY DEF TypeOK
  <1>2. timers' \in Seq([k: Key, c: Conn]) /\ Head(timers) \in [k: Key, c: Conn]
    <2> DEFINE S == [k: Key, c: Conn]
    <2>1. timers \in Seq(S)
      BY <1>1
    <2> HIDE DEF S
    <2>2. Tail(timers) \in Seq(S) /\ Head(timers) \in S
      BY <2>1
    <2>. QED  BY <2>2 DEF S
  <1>3. ASSUME NEW j \in Key, NEW d \in Conn, Timed(j, d), Head(timers) # [k |-> j, c |-> d]
        PROVE  Timed(j, d)'
    <2>1. PICK i \in DOMAIN timers : timers[i] = [k |-> j, c |-> d]
      BY <1>3 DEF Timed
    <2>2. i \in 2..Len(timers)
      BY <1>1, <1>3, <2>1
    <2>3. i - 1 \in DOMAIN timers' /\ timers'[i - 1] = timers[i]
      BY <1>1, <2>2
    <2>. QED  BY <2>1, <2>3 DEF Timed
  <1>. QED  BY <1>2, <1>3

\* The sessions, and the cleanups of all others, do not notice an edit.
LEMMA EditFrame ==
    ASSUME CollabInv, NEW c \in Conn, task' \in [Conn -> Task],
           task'[c].at \notin {"state", "told", "release", "unlock", "leave", "done"},
           \A d \in Conn \ {c} : task'[d] = task[d],
           \A k \in Key : locks'[k] \in {locks[k], Nobody, c}, UNCHANGED sessions
    PROVE  SubscriberInSession' /\ \A d \in Conn : CleanupOK(d)'
  <1>1. TypeOK /\ SubscriberInSession /\ \A d \in Conn : CleanupOK(d)
    BY DEF CollabInv
  <1>2. CleanupOK(c)'
    BY DEF CleanupOK, At
  <1>3. \A q \in Quote : sessions[q] \ {c} \subseteq sessions'[q] /\ sessions'[q] \subseteq sessions[q] \cup {c}
    OBVIOUS
  <1>. QED  BY <1>1, <1>2, <1>3, SubscribersStay, CleanupsStay

LEMMA EditInv ==
    ASSUME CollabInv, NEW c \in Conn, EditStep(c)
    PROVE  CollabInv'
  <1>. USE DEF CollabInv
  <1>1. CASE \E k \in Key : EditRejected(c, k)
    <2>1. PICK k \in Key : EditRejected(c, k)
      BY <1>1
    <2>2. At(c, "serve") /\ Goes(c, [at |-> "reply"]) /\ UNCHANGED <<handler, room, count, shown, raised>>
      BY <2>1 DEF EditRejected
    <2>3. [at |-> "reply"] \in Task
      BY DEF Task
    <2>4. task' \in [Conn -> Task] /\ task'[c] = [at |-> "reply"] /\ \A d \in Conn \ {c} : task'[d] = task[d]
      BY <2>2, <2>3, GoesOn
    <2>5. TypeOK'
      BY <2>2, <2>4 DEF TypeOK, handler
    <2>6. CleanupOK(c)'
      BY <2>4 DEF CleanupOK, At
    <2>. QED  BY <2>2, <2>4, <2>5, <2>6, StepInv DEF handler, At
  <1>2. CASE \E k \in Key : Edit(c, k)
    <2>1. PICK k \in Key : Edit(c, k)
      BY <1>2
    <2> DEFINE t == [at |-> "locked", k |-> k, n |-> count + 1]
    <2>2. /\ At(c, "serve") /\ count < MaxEdits /\ count' = count + 1
          /\ locks' = [locks EXCEPT ![k] = c] /\ locks[k] \in {c, Nobody}
          /\ raised' = {r \in raised : r[1] # k}
          /\ Goes(c, t) /\ UNCHANGED <<sessions, recent, timers, room, shown>>
      BY <2>1 DEF Edit
    <2>3. count + 1 \in 1..MaxEdits
      BY <2>2, EditsAssumption DEF TypeOK
    <2>4. t \in Task
      BY <2>3 DEF Task
    <2>5. /\ task' \in [Conn -> Task] /\ task'[c] = t
          /\ \A d \in Conn \ {c} : task'[d] = task[d]
      BY <2>2, <2>4, GoesOn
    <2>6. TypeOK'
      BY <2>2, <2>3, <2>5 DEF TypeOK
    <2>7. OrphanedByException'
      <3> SUFFICES ASSUME NEW j \in Key, NEW d \in Conn, locks'[j] = d, ~Timed(j, d)', ~Editing(d, j)'
                   PROVE  <<j, d>> \in raised'
        BY DEF OrphanedByException, Orphan
      <3>1. CASE j = k
        BY <2>2, <2>5, <3>1 DEF Editing, TypeOK
      <3>2. CASE j # k
        <4>1. locks[j] = d /\ ~Timed(j, d)
          BY <2>2, <3>2 DEF Timed, TypeOK
        <4>2. ~Editing(d, j)
          BY <2>2, <2>5 DEF Editing, At
        <4>3. <<j, d>> \in raised
          BY <4>1, <4>2 DEF OrphanedByException, Orphan
        <4>. QED  BY <2>2, <3>2, <4>3
      <3>. QED  BY <3>1, <3>2
    <2>8. SubscriberInSession' /\ \A d \in Conn : CleanupOK(d)'
      <3>1. \A j \in Key : locks'[j] \in {locks[j], Nobody, c}
        BY <2>2 DEF TypeOK
      <3>. QED  BY <2>2, <2>5, <3>1, EditFrame
    <2>. QED  BY <2>6, <2>7, <2>8
  <1>3. ASSUME NEW k \in Key, Editing(c, k), StartsTimer(c, k), Goes(c, Serving),
               UNCHANGED <<sessions, locks, recent, room, count, shown, raised>>
        PROVE  CollabInv'
    <2>1. Serving \in Task
      BY DEF Serving, Task
    <2>2. task' \in [Conn -> Task] /\ task'[c] = Serving /\ \A d \in Conn \ {c} : task'[d] = task[d]
      BY <1>3, <2>1, GoesOn
    <2>3. /\ timers' \in Seq([k: Key, c: Conn]) /\ Timed(k, c)'
          /\ \A j \in Key, d \in Conn : Timed(j, d) => Timed(j, d)'
      BY <1>3, TimerStarts
    <2>4. TypeOK'
      BY <1>3, <2>2, <2>3 DEF TypeOK
    <2>5. OrphanedByException'
      BY <1>3, <2>2, <2>3 DEF OrphanedByException, Orphan, Editing
    <2>6. SubscriberInSession' /\ \A d \in Conn : CleanupOK(d)'
      BY <1>3, <2>2, EditFrame DEF Serving
    <2>. QED  BY <2>4, <2>5, <2>6
  <1>6. ASSUME task[c].at \in {"locked", "sent"}, Fails(c), recent' \subseteq Key,
               UNCHANGED <<sessions, locks, timers, room, count, shown>>
        PROVE  CollabInv'
    <2> DEFINE k == task[c].k
    <2>1. k \in Key /\ Editing(c, k)
      BY <1>6, TaskShape DEF Editing
    <2>2. [at |-> "reply"] \in Task
      BY DEF Task
    <2>3. raised' = raised \cup {<<k, c>>} /\ Goes(c, [at |-> "reply"])
      BY <1>6 DEF Fails
    <2>4. task' \in [Conn -> Task] /\ task'[c] = [at |-> "reply"] /\ \A d \in Conn \ {c} : task'[d] = task[d]
      BY <2>2, <2>3, GoesOn
    <2>5. TypeOK'
      BY <1>6, <2>1, <2>3, <2>4 DEF TypeOK
    <2>6. OrphanedByException'
      <3> SUFFICES ASSUME NEW j \in Key, NEW d \in Conn, Orphan(j, d)', <<j, d>> # <<k, c>>
                   PROVE  <<j, d>> \in raised
        BY <2>3 DEF OrphanedByException
      <3>1. Orphan(j, d)
        BY <1>6, <2>4 DEF Orphan, Editing, Timed
      <3>. QED  BY <3>1 DEF OrphanedByException
    <2>7. SubscriberInSession' /\ \A d \in Conn : CleanupOK(d)'
      BY <1>6, <2>4, EditFrame
    <2>. QED  BY <2>5, <2>6, <2>7
  <1>4. CASE Broadcasts(c)
    <2> DEFINE k == task[c].k
    <2>1. task[c] \in [at: {"locked"}, k: Key, n: 1..MaxEdits] /\ k \in Key /\ Editing(c, k)
      BY <1>4, TaskShape DEF Broadcasts, At, Editing
    <2>2. CASE Repeated(c) /\ StartsTimer(c, k)
      BY <1>3, <1>4, <2>1, <2>2 DEF Broadcasts, Repeated
    <2>3. CASE Sends(c)
      <3>1. /\ recent' = recent \cup {k}
            /\ UNCHANGED <<sessions, locks, timers, room, count>>
        BY <1>4, <2>3 DEF Broadcasts, Sends
      <3>2. CASE Fails(c) /\ UNCHANGED shown
        <4>1. recent' \subseteq Key
          BY <2>1, <3>1 DEF TypeOK
        <4>. QED  BY <1>6, <2>1, <3>1, <3>2, <4>1
      <3>3. CASE /\ shown' = [d \in Conn |-> IF d \in room[k[1]]
                                             THEN [shown[d] EXCEPT ![k] = task[c].n] ELSE shown[d]]
                 /\ Goes(c, [task[c] EXCEPT !.at = "sent"])
                 /\ UNCHANGED raised
        <4>2. [task[c] EXCEPT !.at = "sent"] \in Task
          BY <2>1 DEF Task
        <4>3. /\ task' \in [Conn -> Task] /\ task'[c].at = "sent" /\ task'[c].k = k
              /\ \A d \in Conn \ {c} : task'[d] = task[d]
          BY <2>1, <3>3, <4>2, GoesOn
        <4>4. task[c].n \in 0..MaxEdits /\ shown \in [Conn -> [Key -> 0..MaxEdits]]
          BY <2>1, EditsAssumption DEF TypeOK
        <4>5. shown' \in [Conn -> [Key -> 0..MaxEdits]]
          BY <2>1, <3>3, <4>4
        <4>6. TypeOK'
          BY <2>1, <3>1, <3>3, <4>3, <4>5 DEF TypeOK
        <4>7. OrphanedByException'
          BY <2>1, <3>1, <3>3, <4>3 DEF OrphanedByException, Orphan, Editing, Timed
        <4>8. SubscriberInSession' /\ \A d \in Conn : CleanupOK(d)'
          BY <3>1, <4>3, EditFrame
        <4>. QED  BY <4>6, <4>7, <4>8
      <3>. QED  BY <2>3, <3>2, <3>3 DEF Sends
    <2>. QED  BY <1>4, <2>2, <2>3 DEF Broadcasts
  <1>5. CASE Edited(c)
    <2>1. task[c].k \in Key /\ Editing(c, task[c].k)
      BY <1>5, TaskShape DEF Edited, At, Editing
    <2>. QED  BY <1>3, <1>5, <2>1 DEF Edited
  <1>7. CASE EditRaises(c)
    <2>1. recent' \subseteq Key
      BY <1>7 DEF EditRaises, handler, TypeOK
    <2>. QED  BY <1>6, <1>7, <2>1 DEF EditRaises, handler
  <1>. QED  BY <1>1, <1>2, <1>4, <1>5, <1>7 DEF EditStep

\* The timers act on no task; a lock is released only for its own owner.
LEMMA AutoReleaseInv ==
    ASSUME CollabInv, AutoRelease
    PROVE  CollabInv'
  <1>. USE DEF CollabInv
  <1> DEFINE t == Head(timers)
  <1>1. /\ timers # <<>> /\ timers' = Tail(timers)
        /\ locks' = IF locks[t.k] = t.c THEN [locks EXCEPT ![t.k] = Nobody] ELSE locks
        /\ UNCHANGED <<sessions, recent, room, count, shown, raised, task>>
    BY DEF AutoRelease
  <1>2. /\ timers' \in Seq([k: Key, c: Conn]) /\ t \in [k: Key, c: Conn]
        /\ \A j \in Key, d \in Conn : Timed(j, d) /\ t # [k |-> j, c |-> d] => Timed(j, d)'
    BY <1>1, TimerEnds
  <1> HIDE DEF t
  <1>3. TypeOK'
    BY <1>1, <1>2 DEF TypeOK
  <1>4. OrphanedByException'
    <2> SUFFICES ASSUME NEW k \in Key, NEW d \in Conn, locks'[k] = d, ~Editing(d, k)', <<k, d>> \notin raised
                 PROVE  Timed(k, d)'
      BY <1>1 DEF OrphanedByException, Orphan
    <2>1. locks[k] = d /\ ~Editing(d, k)
      BY <1>1, <1>2, ConnAssumption DEF Editing, TypeOK
    <2>2. Timed(k, d)
      BY <2>1 DEF OrphanedByException, Orphan
    <2>3. t # [k |-> k, c |-> d]
      BY <1>1, <1>2, <2>1, ConnAssumption DEF TypeOK
    <2>. QED  BY <1>2, <2>2, <2>3
  <1>5. SubscriberInSession'
    BY <1>1 DEF SubscriberInSession
  <1>6. \A d \in Conn : Owned(d)' \subseteq Owned(d)
    BY <1>1, <1>2, ConnAssumption DEF Owned, TypeOK
  <1>7. \A d \in Conn : CleanupOK(d)'
    BY <1>1, <1>6 DEF CleanupOK, At
  <1>. QED  BY <1>3, <1>4, <1>5, <1>7

LEMMA QuietInv ==
    ASSUME CollabInv, UNCHANGED <<sessions, locks, timers, room, count, shown, raised, task>>,
           recent' \subseteq Key
    PROVE  CollabInv'
  BY DEF CollabInv, TypeOK, OrphanedByException, Orphan, SubscriberInSession, CleanupOK, Editing, Timed, At, Owned

LEMMA NextInv == CollabInv /\ [Next]_vars => CollabInv'
  <1> SUFFICES ASSUME CollabInv, [Next]_vars PROVE CollabInv'
    OBVIOUS
  <1>1. CASE UNCHANGED vars
    BY <1>1, QuietInv DEF vars, handler, CollabInv, TypeOK
  <1>2. CASE \E k \in Key : Forgets(k)
    BY <1>2, QuietInv DEF Forgets, CollabInv, TypeOK
  <1>3. CASE Next /\ ~\E k \in Key : Forgets(k)
    BY <1>3, SubscribeInv, UnsubscribeInv, EditInv, CleanupInv, AutoReleaseInv DEF Next
  <1>. QED  BY <1>1, <1>2, <1>3

\* The inductive invariant holds in every reachable state.
THEOREM CollabInvariant == Spec => []CollabInv
  <1>. QED  BY InitInv, NextInv, PTL DEF Spec

\* All variables keep their types: no task waits at a place its record does
\* not describe, whichever calls raise.
THEOREM CollabTypes == Spec => []TypeOK
  <1>1. CollabInv => TypeOK
    BY DEF CollabInv
  <1>. QED  BY <1>1, CollabInvariant, PTL

\* A lock that no edit and no timer will release is one whose owner's last
\* edit of the field ended in an exception.
THEOREM OrphansAreOfExceptions == Spec => []OrphanedByException
  <1>1. CollabInv => OrphanedByException
    BY DEF CollabInv
  <1>. QED  BY <1>1, CollabInvariant, PTL

\* The look-ups of the session after an await of handle_quote_subscribe
\* find it, whatever other connections do in between.
THEOREM SubscribeFindsSession == Spec => []SubscriberInSession
  <1>1. CollabInv => SubscriberInSession
    BY DEF CollabInv
  <1>. QED  BY <1>1, CollabInvariant, PTL

\* A cleanup that ran to its end leaves no lock and no session of its connection.
THEOREM CleanupIsComplete == Spec => []GoneLeavesNothing
  <1>1. CollabInv => GoneLeavesNothing
    BY DEF CollabInv, GoneLeavesNothing, CleanupOK
  <1>. QED  BY <1>1, CollabInvariant, PTL
=============================================================================
