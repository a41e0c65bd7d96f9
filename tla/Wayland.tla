------------------------------ MODULE Wayland ------------------------------
(***************************************************************************)
(* The window of src/xgui/wayland/xgui_wayland.c: connection, registry,    *)
(* the first commit, and then nothing but event handlers that acknowledge, *)
(* draw, attach and commit.  Client and compositor are two processes with  *)
(* a queue of requests one way and a queue of events the other, so that    *)
(* either may act on what the other has meanwhile changed.                 *)
(*                                                                         *)
(* The compositor is not part of the repository.  It does what the two     *)
(* protocol headers of src/xgui/wayland allow it to do, in any order, and  *)
(* checks the requests as they say.  Sizes are pairs, buffers are numbered *)
(* as they are made, shared memory is there or is not.                     *)
(***************************************************************************)
EXTENDS Integers, Sequences, SequencesExt

CONSTANTS
  Sizes,          \* pairs the compositor may propose
  Offers,         \* the sets of globals a compositor may announce
  MaxConfigures, MaxPings   \* bounds on the compositor

Globals == {"wl_shm", "wl_compositor", "xdg_wm_base"}

ASSUME WaylandAssumption ==
  /\ Sizes \subseteq Nat \X Nat
  /\ Offers \subseteq SUBSET Globals
  /\ MaxConfigures \in Nat /\ MaxPings \in Nat

VARIABLES
  at,        \* the client: "connect", "roundtrip", "dispatch", "spinning" or "crashed"
  bound,     \* the globals the client has bound
  size,      \* width and height of client_state
  made,      \* number of buffers created
  toServer,
  toClient,
  server

\* History: draw_frame failed for a surface that was already visible.
VARIABLE lost

clientVars == <<at, bound, size, made, lost>>
waylandVars == <<at, bound, size, made, toServer, toClient, server, lost>>

Unattached == -1     \* nothing attached since the last commit
Null == 0            \* the null buffer, or no content

Drawable(s) == s[1] # 0 /\ s[2] # 0

WaylandInit ==
  /\ at = "connect" /\ bound = {} /\ size = <<0, 0>> /\ made = 0 /\ lost = FALSE
  /\ toServer = <<>> /\ toClient = <<>>
  /\ server = [initial |-> FALSE,     \* the commit without a buffer has come
               configured |-> FALSE,  \* ... and a configure event was acknowledged
               offered |-> <<>>,      \* the sizes of the configure events sent
               acked |-> 0,           \* the last serial acknowledged
               sizes |-> <<>>,        \* of the buffers created
               alive |-> {},          \* buffers not destroyed
               used |-> {},           \* buffers committed and not released
               pending |-> Unattached,
               content |-> Null,
               pings |-> 0,
               error |-> "none"]
----------------------------------------------------------------------------
(* Requests: one per call of the headers that the client makes *)

GetRegistry == [op |-> "get_registry"]
Bind(g) == [op |-> "bind", global |-> g]
GetToplevel == [op |-> "get_toplevel"]
SetMaximized == [op |-> "set_maximized"]
Commit == [op |-> "commit"]
AckConfigure(s) == [op |-> "ack_configure", serial |-> s]
CreateBuffer(b, s) == [op |-> "create_buffer", buffer |-> b, size |-> s]
DestroyBuffer(b) == [op |-> "destroy_buffer", buffer |-> b]
Attach(b) == [op |-> "attach", buffer |-> b]
Pong == [op |-> "pong"]

Send(requests) == toServer' = toServer \o requests
----------------------------------------------------------------------------
(* The client *)

\* wl_display_connect may fail, and nobody looks at what it returned.
Connect ==
  /\ at = "connect"
  /\ \/ at' = "roundtrip" /\ Send(<<GetRegistry>>)
     \/ at' = "crashed" /\ UNCHANGED toServer
  /\ UNCHANGED <<bound, size, made, toClient, server, lost>>

\* The next event, which only wl_display_roundtrip and _dispatch take.
Receives(op) ==
  /\ at \in {"roundtrip", "dispatch"}
  /\ toClient # <<>>
  /\ Head(toClient).op = op
  /\ toClient' = Tail(toClient)

\* Globals of other interfaces are ignored.
RegistryGlobal ==
  /\ Receives("global")
  /\ bound' = bound \cup {Head(toClient).global}
  /\ Send(<<Bind(Head(toClient).global)>>)
  /\ UNCHANGED <<at, size, made, server, lost>>

SetupRequests == <<GetToplevel, SetMaximized, Commit>>

\* The roundtrip ends.  A global that was not announced is a null pointer.
CreateSurface ==
  /\ Receives("done")
  /\ IF {"wl_compositor", "xdg_wm_base"} \subseteq bound
       THEN at' = "dispatch" /\ Send(SetupRequests)
       ELSE at' = "crashed" /\ UNCHANGED toServer
  /\ UNCHANGED <<bound, size, made, server, lost>>

XdgWmBasePing ==
  /\ Receives("ping")
  /\ Send(<<Pong>>)
  /\ UNCHANGED <<at, bound, size, made, server, lost>>

\* Mutant: each number is taken over for itself.
NewSizeEach(s) == [d \in {1, 2} |-> IF s[d] # 0 THEN s[d] ELSE size[d]]

NewSize(s) == IF Drawable(s) THEN s ELSE size

XdgToplevelConfigure ==
  /\ Receives("toplevel_configure")
  /\ size' = NewSize(Head(toClient).size)
  /\ UNCHANGED <<at, bound, made, toServer, server, lost>>

\* Mutant: the result of the mapping is not looked at.
FramesUnchecked == {Null, made + 1}

\* What draw_frame may return: shared memory can be refused at every step, and
\* always is for a size of 0, which mmap rejects.
Frames == {Null} \cup (IF Drawable(size) THEN {made + 1} ELSE {})

\* What xdg_surface_configure sends once it has its buffer.
ConfigureRequests(s, b) ==
  <<AckConfigure(s)>> \o (IF b = Null THEN <<>> ELSE <<CreateBuffer(b, size)>>)
                      \o <<Attach(b), Commit>>

XdgSurfaceConfigure ==
  /\ Receives("surface_configure")
  /\ \E b \in Frames :
       IF b # Null /\ "wl_shm" \notin bound
         THEN at' = "crashed" /\ UNCHANGED <<made, toServer, lost>>
         ELSE /\ made' = IF b = Null THEN made ELSE b
              /\ Send(ConfigureRequests(Head(toClient).serial, b))
              /\ lost' = (lost \/ (b = Null /\ made > 0))
              /\ UNCHANGED at
  /\ UNCHANGED <<bound, size, server>>

WlBufferRelease ==
  /\ Receives("release")
  /\ Send(<<DestroyBuffer(Head(toClient).buffer)>>)
  /\ UNCHANGED <<at, bound, size, made, server, lost>>

\* The listener's entry for close is null: libwayland aborts.
XdgToplevelClose ==
  /\ Receives("close")
  /\ at' = "crashed"
  /\ UNCHANGED <<bound, size, made, toServer, server, lost>>

\* wl_display_dispatch returns -1, now and for ever, and the loop goes on.
\* In the roundtrip the loss is only noticed when the loop is reached.
ConnectionLost ==
  /\ at = "dispatch"
  /\ toClient # <<>> /\ Head(toClient).op = "disconnect"
  /\ at' = "spinning"
  /\ UNCHANGED <<bound, size, made, toServer, toClient, server, lost>>

Client ==
  \/ Connect \/ RegistryGlobal \/ CreateSurface
  \/ XdgWmBasePing \/ XdgToplevelConfigure \/ XdgSurfaceConfigure
  \/ WlBufferRelease \/ XdgToplevelClose \/ ConnectionLost
----------------------------------------------------------------------------
(* The compositor (external): what the protocol makes of each request *)

Raise(error) == [server EXCEPT !.error = error]

Acknowledged(s) ==
  IF s \in server.acked + 1 .. Len(server.offered)
    THEN [server EXCEPT !.acked = s, !.configured = server.initial]
    ELSE Raise("invalid_serial")

Created(b, s) ==
  IF Drawable(s) THEN [server EXCEPT !.sizes = Append(@, s), !.alive = @ \cup {b}]
                 ELSE Raise("invalid_stride")

Attached(b) ==
  IF b = Null \/ b \in server.alive THEN [server EXCEPT !.pending = b]
                                    ELSE Raise("invalid_object")

Destroyed(b) ==
  IF b \in server.used THEN Raise("destroyed_in_use")
                       ELSE [server EXCEPT !.alive = @ \ {b}]

\* A commit without a buffer asks for the first configure event; the null
\* buffer makes a visible surface invisible, and everything begins anew.
Committed ==
  LET b == server.pending
      s == [server EXCEPT !.pending = Unattached]
  IN CASE b = Unattached -> [s EXCEPT !.initial = TRUE]
       [] b = Null -> IF server.content = Null
                        THEN [s EXCEPT !.initial = TRUE]
                        ELSE [s EXCEPT !.initial = FALSE, !.configured = FALSE, !.content = Null]
       [] OTHER -> IF server.configured
                     THEN [s EXCEPT !.content = b, !.used = @ \cup {b}]
                     ELSE Raise("unconfigured_buffer")

Handled(r) ==
  CASE r.op = "ack_configure"  -> Acknowledged(r.serial)
    [] r.op = "create_buffer"  -> Created(r.buffer, r.size)
    [] r.op = "attach"         -> Attached(r.buffer)
    [] r.op = "commit"         -> Committed
    [] r.op = "destroy_buffer" -> Destroyed(r.buffer)
    [] OTHER                   -> server

Emit(events) == toClient' = toClient \o events

ServerHandle ==
  /\ toServer # <<>> /\ server.error = "none"
  /\ toServer' = Tail(toServer)
  /\ IF Head(toServer).op = "get_registry"
       THEN /\ \E o \in Offers :
                 Emit(SetToSeq({[op |-> "global", global |-> g] : g \in o})
                      \o <<[op |-> "done"]>>)
            /\ UNCHANGED server
       ELSE /\ server' = Handled(Head(toServer))
            /\ UNCHANGED toClient
  /\ UNCHANGED clientVars

Configure ==
  /\ server.initial /\ server.error = "none"
  /\ Len(server.offered) < MaxConfigures
  /\ \E s \in Sizes :
       /\ server' = [server EXCEPT !.offered = Append(@, s)]
       /\ Emit(<<[op |-> "toplevel_configure", size |-> s],
                 [op |-> "surface_configure", serial |-> Len(server.offered) + 1]>>)
  /\ UNCHANGED <<clientVars, toServer>>

\* A buffer may be let go at any time, even the one on the screen.
Release ==
  /\ \E b \in server.used :
       /\ server' = [server EXCEPT !.used = @ \ {b}]
       /\ Emit(<<[op |-> "release", buffer |-> b]>>)
  /\ UNCHANGED <<clientVars, toServer>>

Ping ==
  /\ server.initial /\ server.pings < MaxPings
  /\ server' = [server EXCEPT !.pings = @ + 1]
  /\ Emit(<<[op |-> "ping"]>>)
  /\ UNCHANGED <<clientVars, toServer>>

Gone == toClient # <<>> /\ toClient[Len(toClient)].op \in {"close", "disconnect"}

\* The user closes the window, or the compositor dies or sends us away.
Farewell ==
  /\ at # "connect" /\ ~Gone
  /\ \/ server.initial /\ Emit(<<[op |-> "close"]>>)
     \/ Emit(<<[op |-> "disconnect"]>>)
  /\ UNCHANGED <<clientVars, toServer, server>>

Compositor == ServerHandle \/ (~Gone /\ (Configure \/ Release \/ Ping)) \/ Farewell

WaylandNext == Client \/ Compositor

WaylandSpec == WaylandInit /\ [][WaylandNext]_waylandVars
----------------------------------------------------------------------------
\* The size the client was last told to use by the configure events up to s.
SizeAt(s) ==
  LET told == {k \in 1 .. s : Drawable(server.offered[k])}
  IN server.offered[CHOOSE k \in told : \A l \in told : l <= k]

\* Whatever the two queues hold, no request is an error of the protocol: each
\* serial is acknowledged once and in order, no buffer comes before the first
\* acknowledgement, none has a size of 0, none is used after it was destroyed or
\* destroyed while it is used (xgui_wayland.c:106-166, 230).  Not so once
\* draw_frame failed for a visible surface, which the null buffer takes off.
NoProtocolError == lost \/ server.error = "none"

\* What becomes visible has the size of the last configure event that proposed
\* one, of those up to the one acknowledged before the commit; a later event
\* that is still under way has no part in it (xgui_wayland.c:58-61, 161-165).
SizeFollowsConfigure ==
  [][server'.content \notin {Null, server.content} =>
       server.sizes[server'.content] = SizeAt(server.acked)]_waylandVars
============================================================================
