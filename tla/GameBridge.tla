----------------------------- MODULE GameBridge -----------------------------
(***************************************************************************)
(* The bridge between the harness and the game in its iframe:              *)
(* simulator/src/use-game-bridge.ts on the host's side,                    *)
(* examples/coinflip-public/src/lib/useCasinoHost.ts on the game's, and    *)
(* between them Penpal's ordered messages.                                 *)
(*                                                                         *)
(* React runs effects some time after the render that asked for them, and  *)
(* the handshake resolves whenever it does: between the two as well.       *)
(* What a snapshot says is up to the module that extends this one.         *)
(***************************************************************************)
EXTENDS Integers, Sequences

CONSTANTS NoSnapshot,    \* null: nothing pushed yet
          MaxMounts,     \* bound on how often the frame is mounted
          MaxWire        \* bound on the pushes under way at once

VARIABLES
  mounts,        \* how often GameFrame was mounted
  iframe,        \* the iframe element is set and rendered with
  snapshot,      \* the snapshot of the last render, which snapshotRef holds
  due,           \* the effects the renders since the last flush asked for
  connection,    \* "none", "handshake" or "connected"
  guestApi,      \* guestApiRef is set
  lastPushed,    \* lastPushedRef
  wire,          \* setState calls under way to the page
  page           \* the page's own side: bridge singleton and hook state

bridgeVars == <<mounts, iframe, snapshot, due, connection, guestApi, lastPushed, wire, page>>

Effects == {"connect", "push"}
BlankPage == [loaded |-> FALSE, hostApi |-> FALSE, latest |-> NoSnapshot]

\* The frame is mounted and rendered with snapshot s.
BridgeInit(s) ==
  /\ mounts = 1
  /\ iframe = FALSE
  /\ snapshot = s
  /\ due = Effects
  /\ connection = "none"
  /\ guestApi = FALSE
  /\ lastPushed = NoSnapshot
  /\ wire = <<>>
  /\ page = BlankPage

-----------------------------------------------------------------------------
\* Some layer of the host changed or was rebuilt: a render with snapshot s.
Render(s) ==
  /\ snapshot' = s
  /\ due' = due \cup {"push"}
  /\ UNCHANGED <<mounts, iframe, connection, guestApi, lastPushed, wire, page>>

\* The iframe is in the document and the frame renders with it.
SetIframe ==
  /\ ~iframe
  /\ iframe' = TRUE
  /\ due' = due \cup {"connect"}
  /\ UNCHANGED <<mounts, snapshot, connection, guestApi, lastPushed, wire, page>>

\* pushSnapshotChangesToGuest pushes only what differs from the last push.
PushDue == "push" \in due /\ guestApi /\ snapshot # lastPushed

\* connectHostToGameOnMount: nothing to connect to without an iframe.
ConnectDue == "connect" \in due /\ iframe

\* The effects of a render run: connect once there is an iframe, then push.
FlushEffects ==
  /\ due # {}
  /\ Len(wire) < MaxWire
  /\ due' = {}
  /\ connection' = IF ConnectDue THEN "handshake" ELSE connection
  /\ IF PushDue
     THEN lastPushed' = snapshot /\ wire' = Append(wire, snapshot)
     ELSE UNCHANGED <<lastPushed, wire>>
  /\ UNCHANGED <<mounts, iframe, snapshot, guestApi, page>>

\* Mutant: the handshake's push is not remembered.
GreetForgetfully ==
  wire' = Append(wire, snapshot) /\ UNCHANGED lastPushed

\* The first push of a connection is the latest snapshot, rendered but perhaps
\* not flushed yet; remembering it keeps the effect from pushing it again.
Greet == wire' = Append(wire, snapshot) /\ lastPushed' = snapshot

\* connection.promise resolves on the host's side.
HandshakeResolves ==
  /\ connection = "handshake"
  /\ page.loaded
  /\ connection' = "connected"
  /\ guestApi' = TRUE
  /\ Greet
  /\ UNCHANGED <<mounts, iframe, snapshot, due, page>>

\* The frame is taken down and put up again, with an iframe of its own: another
\* game and back, or a runtime that is made anew.  What was under way is lost,
\* and the handlers left over only touch refs nobody reads any more.
Remount(s) ==
  /\ mounts < MaxMounts
  /\ mounts' = mounts + 1
  /\ iframe' = FALSE
  /\ snapshot' = s
  /\ due' = Effects
  /\ connection' = "none"
  /\ guestApi' = FALSE
  /\ lastPushed' = NoSnapshot
  /\ wire' = <<>>
  /\ page' = BlankPage

-----------------------------------------------------------------------------
\* The page is loaded and its hook makes the one connection of the page.
PageLoads ==
  /\ iframe /\ ~page.loaded
  /\ page' = [page EXCEPT !.loaded = TRUE]
  /\ UNCHANGED <<mounts, iframe, snapshot, due, connection, guestApi, lastPushed, wire>>

\* connection.promise resolves on the page's side, before or after the host's.
GuestResolves ==
  /\ page.loaded /\ ~page.hostApi
  /\ connection \in {"handshake", "connected"}
  /\ page' = [page EXCEPT !.hostApi = TRUE]
  /\ UNCHANGED <<mounts, iframe, snapshot, due, connection, guestApi, lastPushed, wire>>

\* setState: kept for a hook yet to mount, and told to the one that is.
SetState ==
  /\ wire # <<>>
  /\ page' = [page EXCEPT !.latest = Head(wire)]
  /\ wire' = Tail(wire)
  /\ UNCHANGED <<mounts, iframe, snapshot, due, connection, guestApi, lastPushed>>

BridgeStep ==
  SetIframe \/ FlushEffects \/ HandshakeResolves \/ PageLoads \/ GuestResolves \/ SetState

-----------------------------------------------------------------------------
\* Each push tells the page something new, in the order it happened: games
\* replay animations on every setState (use-game-bridge.ts:86), so a snapshot
\* rebuilt without a change, or rendered while the handshake resolves, must not
\* come twice.
OnlyNewsIsPushed ==
  LET seen == <<page.latest>> \o wire
  IN  /\ \A i \in 1..Len(wire) : seen[i] # seen[i + 1]
      /\ wire # <<>> => seen[Len(seen)] = lastPushed

=============================================================================
