------------------------------ MODULE Realtime ------------------------------
(* What runs beside the connection registry and shares nothing with it: the *)
(* reconnection manager of a client (Reconnection), the streams of a        *)
(* connection's dashboards (DashboardStreams), and the cached permissions   *)
(* of rooms (RoomPermissions).                                              *)
EXTENDS Reconnection

CONSTANTS None,
          Dash, MaxStreams, Endpoint, Beat,                           \* of the streams
          User, Room, Permission, Needs, RoleNeeded, Public, Profiles \* of the rooms

VARIABLES at, back, arg, todo, table, cancelled, socket, registered, row,
          perms, owner, cached

streamVars == <<at, back, arg, todo, table, cancelled, socket, registered, row>>
roomVars   == <<perms, owner, cached>>

Streams == INSTANCE DashboardStreams
Rooms   == INSTANCE RoomPermissions

ASSUME RealtimeAssumption == Streams!ActorsAssumption /\ Rooms!ProfilesAssumption

(* A stream that is not over is the one of its dashboard, and a connection  *)
(* that is done leaves none: Owned of DashboardStreams                      *)
(* (cleanup_connection).                                                    *)
Owned == Streams!Owned

(* AnswersAreFresh of RoomPermissions, with its types                       *)
(* (can_user_access_room, can_user_perform_action).                         *)
AnswersAreFresh == Rooms!TypeOK /\ Rooms!AnswersAreFresh
=============================================================================
