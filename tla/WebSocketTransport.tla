-------------------------- MODULE WebSocketTransport --------------------------
(***************************************************************************)
(* One browser WebSocket transport (src/transport/websocket.ts): the state  *)
(* of its one and only lifecycle, and what each event does to it.  Frames   *)
(* are left out: they change no state of the transport.  Every event is one *)
(* macrotask; a listener that settles the attempt and the resumption of     *)
(* start() that follows it are the same one.                                *)
(***************************************************************************)

Positions == {"idle", "starting", "open", "ended"}

(* none: not constructed; closed: also one that was abandoned, whose        *)
(* listeners are gone.                                                      *)
Sockets == {"none", "dialing", "open", "closed"}

(* expired: the deadline settled the attempt while getUrl() was pending.    *)
Transports == [position : Positions, socket : Sockets, expired : BOOLEAN]

Unused == [position |-> "idle", socket |-> "none", expired |-> FALSE]

(* start() up to its await of getUrl(). *)
Started(t) == [t EXCEPT !.position = "starting"]

(* reportChannelEnded(); the protocol layer hears of it the first time only *)
(* and lets go of the transport.                                            *)
Ended(t) == [t EXCEPT !.position = "ended"]

Detached(t) == t.position = "ended"

(* abandon() the socket there is, and report: an attempt that failed, and   *)
(* close() from any position.                                               *)
GivenUp(t) ==
  Ended([t EXCEPT !.socket = IF t.socket = "none" THEN "none" ELSE "closed"])

(* getUrl() answered and the platform accepted the URL: the socket dials,   *)
(* whatever has happened to the transport meanwhile.                        *)
Dialed(t) == [t EXCEPT !.socket = "dialing"]

(* onopen: a position other than "starting" stays as it is, and start()     *)
(* resolves.                                                                *)
Opened(t) ==
  [t EXCEPT !.socket = "open",
            !.position = IF t.position = "starting" THEN "open" ELSE t.position]

(* onclose of an open socket. *)
Dropped(t) == Ended([t EXCEPT !.socket = "closed"])

Sendable(t) == t.position = "open" /\ t.socket = "open"

(* A socket of the page the platform still holds. *)
Held(t) == t.socket \in {"dialing", "open"}

=============================================================================
