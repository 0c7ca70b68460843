--------------------------- MODULE MCQuoteCollab ----------------------------
(***************************************************************************)
(* The locks and the cleanups have a part of the run each: more edits of   *)
(* one quote, and fewer edits of two quotes.                               *)
(***************************************************************************)
EXTENDS QuoteCollab

CONSTANTS q1,           \* the only quote of the part "locks"
          CleanupEdits  \* bound: edits in the part "cleanup"

VARIABLE part

PartsInit == part \in {"locks", "cleanup"} /\ Init

LocksNext ==
  /\ part = "locks" /\ Next
  /\ \A c \in Conn : "q" \in DOMAIN task'[c] => task'[c].q = q1
  /\ \A k \in Key : locks'[k] # Nobody => k[1] = q1

CleanupNext == part = "cleanup" /\ Next /\ count' <= CleanupEdits

(* The bounds stop no action that is fair: those go on with what was begun. *)
PartsSpec ==
  /\ PartsInit
  /\ [][(LocksNext \/ CleanupNext) /\ UNCHANGED part]_<<part, vars>>
  /\ WF_vars(part = "locks" /\ AutoRelease)
  /\ \A c \in Conn : /\ WF_vars(part = "locks" /\ Broadcasts(c))
                     /\ WF_vars(part = "locks" /\ Edited(c))

(* Every lock is released, unless its owner's edit raised                   *)
(* (handle_collaborative_edit, _auto_release_lock): LocksExpire, for the    *)
(* fields of the part that is fair.                                         *)
LocksAreReleased ==
  part = "locks" => \A k \in {k \in Key : k[1] = q1}, c \in Conn : Expires(k, c)
=============================================================================
