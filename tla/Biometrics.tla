----------------------------- MODULE Biometrics -----------------------------
(***************************************************************************)
(* core/auth/mfa/biometric.py: the templates of one user, each an entry of  *)
(* the cache, and the list of them, another entry, which enrolments and     *)
(* removals read, change and write back.  One step per await.  A challenge  *)
(* names the templates of the list as it was: a verification may match any  *)
(* that was ever listed.  Entries live for a year, longer than any step.    *)
(***************************************************************************)
EXTENDS Naturals, Sequences

CONSTANTS Template, Task,
          MaxTemplates, \* _max_templates
          None

VARIABLES record,       \* templates whose metadata are in the cache
          list,         \* user_biometrics, the oldest first
          born, known,  \* template ids that were made, and those answered with
          listed,       \* templates that a challenge may name
          pc, about,    \* of a task: its await, its template
          seen,         \* the list it has read
          removed,      \* templates whose removal was answered with Ok
          revived,      \* templates written back by an update of their usage
          torn          \* a list written over a newer one, or a call that failed

TemplatesAssumption == MaxTemplates \in Nat \ {0} /\ None \notin Template

cached == <<record, list>>
ids    == <<born, known, listed>>
ghosts == <<removed, revived, torn>>
vars   == <<cached, ids, pc, about, seen, ghosts>>

TypeOK ==
  /\ record \subseteq born /\ listed \subseteq born /\ known \subseteq born
  /\ born \subseteq Template
  /\ list \in Seq(born) /\ Len(list) <= MaxTemplates
  /\ pc \in [Task -> {"idle", "lists", "evicts", "appends", "relists", "shrinks", "counts"}]
  /\ about \in [Task -> born \cup {None}] /\ seen \in [Task -> Seq(born)]
  /\ removed \subseteq known /\ revived \subseteq listed /\ torn \in BOOLEAN

Init ==
  /\ record = {} /\ list = <<>> /\ born = {} /\ known = {} /\ listed = {}
  /\ pc = [t \in Task |-> "idle"] /\ about = [t \in Task |-> None]
  /\ seen = [t \in Task |-> <<>>]
  /\ removed = {} /\ revived = {} /\ torn = FALSE

Listed(s) == {s[i] : i \in DOMAIN s}

Goes(t, from, to) == pc[t] = from /\ pc' = [pc EXCEPT ![t] = to]
Finishes(t, from) ==
  /\ Goes(t, from, "idle")
  /\ about' = [about EXCEPT ![t] = None] /\ seen' = [seen EXCEPT ![t] = <<>>]

\* cache.get of the list, and cache.set of what was made of it
ReadsList(t, from, to) ==
  /\ Goes(t, from, to)
  /\ seen' = [seen EXCEPT ![t] = list]
  /\ UNCHANGED <<cached, ids, about, ghosts>>

WritesList(t, from, s) ==
  /\ Finishes(t, from)
  /\ list' = s /\ listed' = listed \cup Listed(s)
  /\ torn' = (torn \/ list # seen[t])
  /\ UNCHANGED <<record, born, revived>>

-----------------------------------------------------------------------------
(* enroll_biometric and _update_user_biometrics *)

Enrols(t, x) ==
  /\ x \notin born /\ born' = born \cup {x}
  /\ Goes(t, "idle", "lists")
  /\ about' = [about EXCEPT ![t] = x]
  /\ record' = record \cup {x}
  /\ UNCHANGED <<list, known, listed, seen, ghosts>>

Lists(t) ==
  \/ Len(list) < MaxTemplates /\ ReadsList(t, "lists", "appends")
  \/ Len(list) >= MaxTemplates /\ ReadsList(t, "lists", "evicts")

\* The newest goes instead of the oldest.
Evicts_Newest(t) ==
  /\ Goes(t, "evicts", "appends")
  /\ record' = record \ {seen[t][Len(seen[t])]}
  /\ UNCHANGED <<list, ids, about, seen, ghosts>>

Evicts(t) ==
  /\ Goes(t, "evicts", "appends")
  /\ record' = record \ {Head(seen[t])}
  /\ UNCHANGED <<list, ids, about, seen, ghosts>>

Kept(s) == IF Len(s) < MaxTemplates THEN s ELSE Tail(s)

Appends(t) ==
  /\ WritesList(t, "appends", Append(Kept(seen[t]), about[t]))
  /\ known' = known \cup {about[t]}
  /\ UNCHANGED removed

-----------------------------------------------------------------------------
(* remove_biometric: the caller knows the id from the enrolment *)

Removes(t, x) ==
  /\ x \in known
  /\ Goes(t, "idle", "relists")
  /\ about' = [about EXCEPT ![t] = x]
  /\ record' = record \ {x}
  /\ UNCHANGED <<list, ids, seen, ghosts>>

Relists(t) == ReadsList(t, "relists", "shrinks")

\* All others, in their order; a template is in the list once.
Without(s, x) ==
  LET k == CHOOSE k \in DOMAIN s : s[k] = x
  IN  IF x \in Listed(s) THEN SubSeq(s, 1, k - 1) \o SubSeq(s, k + 1, Len(s)) ELSE s

Shrinks(t) ==
  /\ WritesList(t, "shrinks", Without(seen[t], about[t]))
  /\ removed' = removed \cup {about[t]}
  /\ UNCHANGED known

-----------------------------------------------------------------------------
(* verify_biometric: of the templates of the challenge one whose record is  *)
(* there fits, and _update_template_usage writes its record again.          *)

Matches(t, x) ==
  /\ x \in listed \cap record
  /\ Goes(t, "idle", "counts")
  /\ about' = [about EXCEPT ![t] = x]
  /\ UNCHANGED <<cached, ids, seen, ghosts>>

Counts(t) ==
  /\ Finishes(t, "counts")
  /\ record' = record \cup {about[t]}
  /\ revived' = IF about[t] \in record THEN revived ELSE revived \cup {about[t]}
  /\ UNCHANGED <<list, ids, removed, torn>>

\* The cache raises: the call returns an Err, and what it wrote stays.
Fails(t) ==
  /\ pc[t] # "idle"
  /\ Finishes(t, pc[t])
  /\ torn' = (torn \/ pc[t] # "counts")
  /\ UNCHANGED <<cached, ids, removed, revived>>

Next ==
  \/ \E t \in Task, x \in Template : Enrols(t, x) \/ Removes(t, x) \/ Matches(t, x)
  \/ \E t \in Task :
       \/ Lists(t) \/ Evicts(t) \/ Appends(t) \/ Relists(t) \/ Shrinks(t)
       \/ Counts(t) \/ Fails(t)

Spec == Init /\ [][Next]_vars

-----------------------------------------------------------------------------
(* Between the calls the list names exactly the templates that have a       *)
(* record, but for those that an update of their usage wrote back, unless   *)
(* two changes of the list overlapped or a call failed half way             *)
(* (enroll_biometric, remove_biometric).                                    *)
TemplatesAgree ==
  ~torn /\ (\A t \in Task : pc[t] \in {"idle", "counts"})
    => record \ revived = Listed(list) \ revived

(* A template whose removal was answered with Ok has a record again only if *)
(* an update of its usage wrote it back, and is listed again only if two    *)
(* changes of the list overlapped (remove_biometric).                       *)
RemovedIsGone ==
  /\ removed \cap record \subseteq revived
  /\ ~torn => removed \cap Listed(list) = {}
=============================================================================
