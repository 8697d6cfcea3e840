------------------------------ MODULE ShellPty ------------------------------
(***************************************************************************)
(* `arker shell`: cmdShell finds or forks a machine and a session,         *)
(* connectPty opens a WebSocket, and bridgePty joins it to the terminal    *)
(* until the socket ends, stdin ends or a signal arrives.  One process of  *)
(* the CLI, its terminal, the user, and the machine behind the socket.     *)
(*                                                                         *)
(* Handlers run to completion.  What hangs on a promise (on pty.ready, or  *)
(* on bridgePty's own) is a step of its own, and may find that an event    *)
(* came first.                                                             *)
(***************************************************************************)
EXTENDS Integers

CONSTANTS
    Sizes,     \* widths of a terminal, and values of --cols
    MaxWidth   \* the largest width clampPtyDimension lets through

ASSUME ShellAssumption == Sizes \subseteq Int /\ Sizes # {} /\ MaxWidth \in Nat \ {0}

VARIABLES
    call,      \* the command line and its surroundings, see Calls
    pc,        \* resolve, session, bridge, done
    exit,      \* how the process ended: "none", an exit code, or "signal"
    socket,    \* none, connecting, open, closing, closed
    ready,     \* pty.ready: pending, resolved, rejected; seen once acted upon
    code,      \* what bridgePty resolved with: settled, when it is not "none"
    detached,  \* the bridge closed the socket
    attached,  \* the bridge listens to stdin and to signals
    raw,       \* the terminal is in raw mode
    reports,   \* errors it reported
    width,     \* the width of the terminal
    winch,     \* a SIGWINCH is pending
    told,      \* the width the machine was told last
    first      \* history: the code that the first end of the bridge calls for

Codes == {"none", "ok", "failed", "terminated", "hung up", "crashed", "signal"}
\* In a pool; stdin is a terminal, already raw; stdout is one; --cols is given.
Calls == [pool : BOOLEAN, tty : BOOLEAN, wasRaw : BOOLEAN, screen : BOOLEAN, fixed : BOOLEAN]

process == <<call, pc, exit>>
bridge == <<socket, ready, code, detached, attached, raw, reports, first>>
size == <<width, winch, told>>
vars == <<process, bridge, size>>

\* clampPtyDimension
Clamped(w) == IF w < 1 THEN 1 ELSE IF w > MaxWidth THEN MaxWidth ELSE w

\* bridgePty follows the terminal unless --cols or --rows fixed the size.
AutoResize == call.screen /\ ~call.fixed

Init ==
    /\ call \in {c \in Calls : c.wasRaw => c.tty}
    /\ pc = "resolve" /\ exit = "none"
    /\ detached = FALSE /\ attached = FALSE /\ winch = FALSE
    /\ socket = "none" /\ ready = "pending" /\ code = "none" /\ first = "none"
    /\ raw = call.wasRaw
    /\ reports = 0
    /\ width \in Sizes
    /\ told = width

Exit(how) == pc' = "done" /\ exit' = how

-----------------------------------------------------------------------------
(* cmdShell.                                                               *)

Dies ==
    /\ Exit("failed") /\ reports' = reports + 1
    /\ UNCHANGED <<call, socket, ready, code, detached, attached, raw, first, size>>

\* A machine by id, or a fork of a source; a machine of a pool is refused a
\* shell, although it may just have been forked.
Resolve ==
    /\ pc = "resolve"
    /\ \/ call.pool /\ Dies
       \/ ~call.pool /\ pc' = "session" /\ UNCHANGED <<call, exit, bridge, size>>

\* The session exists, or is created; the socket is opened with the size the
\* terminal has now, or with the one the command line gives, as it is.
Connect ==
    /\ pc = "session"
    /\ pc' = "bridge"
    /\ socket' = "connecting"
    /\ \E w \in Sizes : told' = w /\ (call.fixed \/ w = width)
    /\ UNCHANGED <<call, exit, ready, code, detached, attached, raw, reports, first, width, winch>>

\* A request fails: the error ends the command.
RequestFails == pc \in {"resolve", "session"} /\ Dies

-----------------------------------------------------------------------------
(* bridgePty: how it ends.                                                 *)

Bridging(states) == pc = "bridge" /\ socket \in states

Settled == code # "none"

Restored == IF attached /\ call.tty THEN call.wasRaw ELSE raw

\* Mutant: the terminal is restored for the codes of the socket only.
finishUnrestored(how) ==
    /\ first' = IF first = "none" THEN how ELSE first
    /\ IF Settled THEN UNCHANGED <<code, attached, raw>>
       ELSE /\ code' = how
            /\ attached' = FALSE
            /\ raw' = IF how \in {"ok", "failed"} THEN Restored ELSE raw

\* finish: the terminal is as it was, and nothing is listened to any more.
finish(how) ==
    /\ first' = IF first = "none" THEN how ELSE first
    /\ IF Settled THEN UNCHANGED <<code, attached, raw>>
       ELSE code' = how /\ attached' = FALSE /\ raw' = Restored

\* A listener that finish has removed reports nothing.
fails ==
    /\ finish("failed")
    /\ reports' = IF Settled THEN reports ELSE reports + 1

\* cmdShell exits with the code, or returns when it is 0.
Returns ==
    /\ pc = "bridge" /\ Settled
    /\ Exit(code)
    /\ UNCHANGED <<call, bridge, size>>

-----------------------------------------------------------------------------
(* The socket.                                                             *)

\* waitForSocketOpen rejects unless the socket was open before.
Refused == ready' = IF ready = "pending" THEN "rejected" ELSE ready

Opens ==
    /\ Bridging({"connecting"})
    /\ socket' = "open" /\ ready' = "resolved"
    /\ UNCHANGED <<process, code, detached, attached, raw, reports, first, size>>

\* An error: the close that follows it is another event.
SocketFails ==
    /\ Bridging({"connecting", "open", "closing"})
    /\ socket' = "closing"
    /\ Refused /\ fails
    /\ UNCHANGED <<process, detached, size>>

\* The machine's close frame: what is sent from now on is dropped.
CloseFrame ==
    /\ Bridging({"open"})
    /\ socket' = "closing"
    /\ UNCHANGED <<process, ready, code, detached, attached, raw, reports, first, size>>

\* Mutant: a close the bridge asked for is taken for handled.
SocketClosesUnasked ==
    /\ Bridging({"connecting", "open", "closing"})
    /\ socket' = "closed"
    /\ Refused
    /\ \/ ~detached /\ finish("ok") /\ UNCHANGED reports
       \/ ~detached /\ fails
       \/ detached /\ UNCHANGED <<code, attached, raw, reports, first>>
    /\ UNCHANGED <<process, detached, size>>

\* It closed with code 1000, or with any other, which a lost connection and a
\* close that is not answered have as well.
SocketCloses ==
    /\ Bridging({"connecting", "open", "closing"})
    /\ socket' = "closed"
    /\ Refused
    /\ \/ socket # "connecting" /\ finish("ok") /\ UNCHANGED reports
       \/ fails
    /\ UNCHANGED <<process, detached, size>>

-----------------------------------------------------------------------------
(* pty.ready.                                                              *)

Now(state) == pc = "bridge" /\ ready = state /\ ready' = "seen"

\* An event ended the bridge first: nothing is done.
ReadyTooLate ==
    /\ Now("resolved") /\ Settled
    /\ UNCHANGED <<process, socket, code, detached, attached, raw, reports, first, size>>

\* Mutant: the size of the connection request is taken to be still right.
AttachUnsized ==
    /\ Now("resolved") /\ ~Settled
    /\ attached' = TRUE
    /\ raw' = (raw \/ call.tty)
    /\ UNCHANGED <<process, socket, code, detached, reports, first, size>>

\* The terminal turns raw, stdin and signals are listened to, and the machine
\* is told the current size.
Attach ==
    /\ Now("resolved") /\ ~Settled
    /\ attached' = TRUE
    /\ raw' = (raw \/ call.tty)
    /\ told' = IF AutoResize /\ socket = "open" THEN Clamped(width) ELSE told
    /\ UNCHANGED <<process, socket, code, detached, reports, first, width, winch>>

\* The terminal refuses raw mode, which is caught like a socket that did not
\* open.
AttachFails ==
    /\ Now("resolved") /\ ~Settled /\ call.tty
    /\ fails
    /\ UNCHANGED <<process, socket, detached, size>>

\* Mutant: the rejection is reported whatever happened before.
CaughtAnyway ==
    /\ Now("rejected")
    /\ finish("failed") /\ reports' = reports + 1
    /\ UNCHANGED <<process, socket, detached, size>>

\* The listeners of the socket have seen what rejected it.
Caught ==
    /\ Now("rejected")
    /\ fails
    /\ UNCHANGED <<process, socket, detached, size>>

-----------------------------------------------------------------------------
(* Stdin and signals.                                                      *)

\* End of stdin closes the socket; the bridge waits for the answer.
InputEnds ==
    /\ attached /\ pc = "bridge" /\ ~detached
    /\ socket' = IF socket = "open" THEN "closing" ELSE socket
    /\ detached' = TRUE
    /\ UNCHANGED <<process, ready, code, attached, raw, reports, first, size>>

\* SIGTERM and SIGHUP close the socket and do not wait.
Terminate ==
    /\ attached /\ pc = "bridge"
    /\ socket' = IF socket = "open" THEN "closing" ELSE socket
    /\ detached' = TRUE
    /\ \E how \in {"terminated", "hung up"} : finish(how)
    /\ UNCHANGED <<process, ready, reports, size>>

\* An uncaught exception, for one a terminal that is gone, runs the exit
\* handlers.
Crash ==
    /\ pc = "bridge"
    /\ raw' = Restored /\ attached' = FALSE
    /\ Exit("crashed")
    /\ UNCHANGED <<call, socket, ready, code, detached, reports, first, size>>

\* A signal nobody listens to ends the process, without its exit handlers.
Killed ==
    /\ pc # "done" /\ ~attached
    /\ Exit("signal")
    /\ UNCHANGED <<call, bridge, size>>

\* What is sent on a socket that is closing is dropped.
OnResize ==
    /\ winch
    /\ winch' = FALSE
    /\ told' = IF attached /\ AutoResize /\ socket = "open" THEN Clamped(width) ELSE told
    /\ UNCHANGED <<process, bridge, width>>

\* The user's terminal.
Resize ==
    /\ pc # "done" /\ call.screen
    /\ \E w \in Sizes \ {width} : width' = w
    /\ winch' = TRUE
    /\ UNCHANGED <<process, bridge, told>>

-----------------------------------------------------------------------------
Bridge ==
    \/ Opens \/ SocketFails \/ CloseFrame \/ SocketCloses
    \/ ReadyTooLate \/ Attach \/ AttachFails \/ Caught
    \/ InputEnds \/ Terminate \/ Crash \/ OnResize \/ Returns

Next == Resolve \/ Connect \/ RequestFails \/ Killed \/ Bridge \/ Resize

Spec == Init /\ [][Next]_vars

\* Promises are continued, and a socket that is closing closes, or times out.
\* Nothing bounds how long it takes to open: it is given no handshakeTimeout.
Fairness ==
    /\ WF_vars(Returns)
    /\ WF_vars(ReadyTooLate \/ Attach \/ AttachFails \/ Caught)
    /\ WF_vars(socket = "closing" /\ SocketCloses)

FairSpec == Spec /\ Fairness

-----------------------------------------------------------------------------
(* Properties                                                              *)

TypeOK ==
    /\ call \in Calls
    /\ pc \in {"resolve", "session", "bridge", "done"}
    /\ exit \in Codes /\ code \in Codes /\ first \in Codes
    /\ detached \in BOOLEAN /\ attached \in BOOLEAN
    /\ raw \in BOOLEAN /\ winch \in BOOLEAN
    /\ socket \in {"none", "connecting", "open", "closing", "closed"}
    /\ ready \in {"pending", "resolved", "rejected", "seen"}
    /\ reports \in {0, 1}
    /\ width \in Sizes
    /\ told \in Int

\* However the process ends, and whenever a signal arrives, the terminal is
\* left as it was found; while it is raw, the bridge listens (cli-pty.ts:55,
\* 100, 104).
TerminalIsRestored ==
    raw # call.wasRaw => attached /\ pc = "bridge"

\* The first event that ends the bridge decides the exit code, whatever
\* follows it: 0 only for a socket that closed with code 1000 before it failed
\* and before a signal came.  A failure is reported exactly once, though an
\* error, a close and the rejection of ready may all tell of it (60, 84, 102,
\* 117).
FirstEndDecides ==
    /\ exit \in {"none", "failed", "crashed", "signal", first}
    /\ exit = "failed" => first \in {"none", "failed"}
    /\ reports = (IF first = "failed" \/ (first = "none" /\ exit = "failed") THEN 1 ELSE 0)

\* While the connection is open, the machine knows the size of the terminal,
\* within the bounds, although it may change while the socket opens and the
\* size in the connection request is not bounded (115).
SizeIsFollowed ==
    (attached /\ AutoResize /\ ~winch /\ socket = "open") => told = Clamped(width)

\* Once stdin has ended, or the socket has failed or closed, at whatever point
\* of its opening, the process ends.
BridgeEnds ==
    /\ detached ~> pc = "done"
    /\ (pc = "bridge" /\ socket \in {"closing", "closed"}) ~> pc = "done"

-----------------------------------------------------------------------------
(* The inductive invariant.                                                *)

\* Only a bridge with a socket listens, until it is settled; a process that
\* goes on has not told how it ends; the code is the one the first end calls
\* for; and only the bridge of a terminal changes its mode.
BridgeInv ==
    /\ attached => pc = "bridge" /\ ~Settled /\ ready = "seen"
    /\ ready = "pending" <=> socket \in {"none", "connecting"}
    /\ pc # "done" => exit = "none"
    /\ pc \in {"resolve", "session"} => ~Settled /\ socket = "none"
    /\ code = first
    /\ Settled => raw = call.wasRaw
    /\ raw # call.wasRaw => call.tty

ShellInv ==
    /\ BridgeInv
    /\ TerminalIsRestored
    /\ FirstEndDecides
    /\ SizeIsFollowed
=============================================================================
