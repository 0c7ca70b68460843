-------------------------- MODULE RoomPermissions --------------------------
(***************************************************************************)
(* websocket/permissions.py: who may do what in the rooms, asked through a  *)
(* cache of answers that every change has to clear.  The manager runs       *)
(* without awaits, a call is a step.  An answer stays for five minutes; a   *)
(* lapse may come at any time.  The list of grants by room, with their      *)
(* expires_at, and that of participants decide nothing here.                *)
(***************************************************************************)
EXTENDS Naturals

CONSTANTS User, Room,
          Permission,     \* of PermissionType, "admin" among them
          Needs,          \* required_permissions of a room's rule
          RoleNeeded,     \* required_role of a room's rule
          Public,         \* rooms of allow_public_read
          Profiles,       \* role, active and rooms that a user may be given
          None

VARIABLES perms,          \* _user_permissions
          owner,          \* _room_owners
          cached          \* _permission_cache: what was answered, by what was asked

vars == <<perms, owner, cached>>

Questions == User \X Room \X (Permission \cup {"access"})

Roles == {"admin", "agent", "customer", "guest", "supervisor", "system"}

UserPermissions == [role: Roles, active: BOOLEAN, rooms: [Room -> SUBSET Permission]]

ProfilesAssumption == Profiles \subseteq UserPermissions

TypeOK ==
  /\ perms \in [User -> {None} \cup UserPermissions]
  /\ owner \in [Room -> User \cup {None}]
  /\ cached \in [Questions -> {None} \cup BOOLEAN]

Init ==
  /\ perms = [u \in User |-> None]
  /\ owner = [r \in Room |-> None]
  /\ cached = [q \in Questions |-> None]

-----------------------------------------------------------------------------
(* The checks *)

\* _check_room_access compares the roles as the strings that they are.
Alphabetical(role) ==
  CASE role = "admin" -> 1 [] role = "agent" -> 2 [] role = "customer" -> 3
    [] role = "guest" -> 4 [] role = "supervisor" -> 5 [] role = "system" -> 6

MayEnter(u, r) ==
  /\ perms[u] # None /\ perms[u].active
  /\ \/ owner[r] = u
     \/ r \in Public
     \/ /\ Alphabetical(perms[u].role) >= Alphabetical(RoleNeeded[r])
        /\ Needs[r] \subseteq perms[u].rooms[r]

\* _check_room_action, where the user may enter
MayDo(u, r, p) == perms[u] # None /\ (owner[r] = u \/ p \in perms[u].rooms[r])

Fresh(u, r, p) == MayEnter(u, r) /\ (p = "access" \/ MayDo(u, r, p))

\* can_user_access_room and can_user_perform_action: from the cache, else by
\* the check, of which that of an action asks for the access in turn
Cached(q, answer) == IF cached[q] # None THEN cached[q] ELSE answer

Enters(u, r)  == Cached(<<u, r, "access">>, MayEnter(u, r))
Can(u, r, p)  == Cached(<<u, r, p>>, Enters(u, r) /\ (p = "access" \/ MayDo(u, r, p)))

Asked(u, r, p) ==
  LET looked == IF cached[<<u, r, p>>] = None THEN {"access", p} ELSE {}
  IN  [q \in Questions |->
        IF q \in {<<u, r, x>> : x \in looked} THEN Can(u, r, q[3]) ELSE cached[q]]

Asks(u, r, p) == cached' = Asked(u, r, p) /\ UNCHANGED <<perms, owner>>

Lapses(q) ==
  /\ cached[q] # None
  /\ cached' = [cached EXCEPT ![q] = None]
  /\ UNCHANGED <<perms, owner>>

-----------------------------------------------------------------------------
(* The changes *)

ClearsUser(c, u) == [q \in Questions |-> IF q[1] = u THEN None ELSE c[q]]
\* Only what was answered about the access is cleared.
ClearsRoom_Access(c, r) ==
  [q \in Questions |-> IF q[2] = r /\ q[3] = "access" THEN None ELSE c[q]]

ClearsRoom(c, r) == [q \in Questions |-> IF q[2] = r THEN None ELSE c[q]]

Sets(u) == \E profile \in Profiles :
  /\ perms' = [perms EXCEPT ![u] = profile]
  /\ cached' = ClearsUser(cached, u)
  /\ UNCHANGED owner

Owns(u, r) ==
  /\ owner' = [owner EXCEPT ![r] = u]
  /\ cached' = ClearsRoom(cached, r)
  /\ UNCHANGED perms

\* Who may not change the permissions has asked all the same.
Refused(by, r) == ~Can(by, r, "admin") /\ Asks(by, r, "admin")

Changes(by, u, r, given) ==
  /\ Can(by, r, "admin")
  /\ perms' = IF perms[u] = None THEN perms ELSE [perms EXCEPT ![u].rooms[r] = given]
  /\ cached' = ClearsUser(Asked(by, r, "admin"), u)
  /\ UNCHANGED owner

Held(u, r) == IF perms[u] = None THEN {} ELSE perms[u].rooms[r]

Grants(by, u, r, p)  == Changes(by, u, r, Held(u, r) \cup {p})
Revokes(by, u, r, p) == Changes(by, u, r, Held(u, r) \ {p})

\* cleanup_expired_permissions
CleansUp == cached' = [q \in Questions |-> None] /\ UNCHANGED <<perms, owner>>

Next ==
  \/ CleansUp
  \/ \E q \in Questions : Asks(q[1], q[2], q[3]) \/ Lapses(q)
  \/ \E u \in User : Sets(u) \/ \E r \in Room : Owns(u, r) \/ Refused(u, r)
  \/ \E by, u \in User, r \in Room, p \in Permission : Grants(by, u, r, p) \/ Revokes(by, u, r, p)

Spec == Init /\ [][Next]_vars

-----------------------------------------------------------------------------
(* Whatever is changed in whatever order, and whenever an answer lapses, an *)
(* answer from the cache is the one that the checks would give now          *)
(* (can_user_access_room, can_user_perform_action).                         *)
AnswersAreFresh == \A u \in User, r \in Room, p \in Permission \cup {"access"} :
  cached[<<u, r, p>>] # None => cached[<<u, r, p>>] = Fresh(u, r, p)
=============================================================================
