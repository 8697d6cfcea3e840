--------------------------- MODULE ShellPtyProofs ---------------------------
(***************************************************************************)
(* Proofs about ShellPty for any terminal sizes and any clamp: however     *)
(* `arker shell` ends, the terminal is as it was found, the first end      *)
(* decides the exit code and is reported once, and the machine knows the   *)
(* size of the terminal while the connection is open.                      *)
(***************************************************************************)
EXTENDS ShellPty, TLAPS

LEMMA InitInv == Init => TypeOK /\ ShellInv
<1>. SUFFICES ASSUME Init PROVE TypeOK /\ ShellInv
  OBVIOUS
<1>1. call \in Calls /\ call.wasRaw \in BOOLEAN
  BY DEF Init, Calls
<1>2. TypeOK
  BY <1>1, ShellAssumption DEF Init, TypeOK, Codes
<1>. QED
  BY <1>2 DEF Init, ShellInv, BridgeInv, TerminalIsRestored, FirstEndDecides, SizeIsFollowed, Settled

(* What a finish does: the terminal gets the mode it had, and nobody       *)
(* listens any more; a bridge that was settled stays as it is.             *)
LEMMA Finished ==
    ASSUME TypeOK, ShellInv, pc = "bridge", NEW how \in Codes \ {"none"}, finish(how),
           UNCHANGED call
    PROVE  /\ raw' = call.wasRaw /\ ~attached' /\ code' = first' /\ code' # "none"
           /\ first' = IF first = "none" THEN how ELSE first
           /\ raw' \in BOOLEAN /\ attached' \in BOOLEAN /\ first' \in Codes
<1>1. /\ attached => ~Settled
      /\ code = first /\ (Settled => raw = call.wasRaw) /\ (raw # call.wasRaw => call.tty)
      /\ (raw # call.wasRaw => attached)
      /\ call.wasRaw \in BOOLEAN /\ raw \in BOOLEAN /\ attached \in BOOLEAN /\ first \in Codes
  BY DEF ShellInv, BridgeInv, TerminalIsRestored, TypeOK, Calls
<1>2. CASE Settled
  BY <1>1, <1>2 DEF finish, Settled
<1>3. CASE ~Settled
  <2>1. Restored = call.wasRaw
    BY <1>1 DEF Restored
  <2>. QED
    BY <1>1, <1>3, <2>1 DEF finish, Settled
<1>. QED
  BY <1>2, <1>3

-----------------------------------------------------------------------------
(* The steps, by what they disturb.                                        *)

(* The command before the bridge, and the end of the process.              *)
LEMMA ProcessStep ==
    ASSUME TypeOK, ShellInv, Resolve \/ RequestFails \/ Killed \/ Returns
    PROVE  TypeOK' /\ ShellInv'
<1>1. CASE Dies /\ pc \in {"resolve", "session"}
  <2>. USE <1>1 DEF Dies, Exit, size
  <2>1. reports = 0 /\ first = "none" /\ ~attached /\ raw = call.wasRaw
    BY DEF ShellInv, BridgeInv, FirstEndDecides, TerminalIsRestored, Settled
  <2>2. TypeOK'
    <3>1. reports' = 1 /\ exit' \in Codes /\ pc' = "done"
      BY <2>1 DEF Codes
    <3>2. UNCHANGED <<call, socket, ready, code, detached, attached, raw, first, width, winch, told>>
      OBVIOUS
    <3>. QED
      BY <3>1, <3>2 DEF TypeOK
  <2>3. BridgeInv' /\ TerminalIsRestored'
    BY <2>1 DEF ShellInv, BridgeInv, TerminalIsRestored, Settled
  <2>4. FirstEndDecides' /\ SizeIsFollowed'
    BY <2>1 DEF FirstEndDecides, SizeIsFollowed
  <2>. QED
    BY <2>2, <2>3, <2>4 DEF ShellInv
<1>2. CASE /\ pc # "done" /\ UNCHANGED <<call, bridge, size>>
           /\ \/ Exit("signal") /\ ~attached
              \/ Exit(code) /\ Settled
              \/ pc = "resolve" /\ pc' = "session" /\ UNCHANGED exit
  <2>. USE <1>2 DEF Exit, bridge, size
  <2>1. exit = "none" /\ code = first /\ ~attached /\ raw = call.wasRaw
    BY DEF ShellInv, BridgeInv, TerminalIsRestored, Settled
  <2>2. TypeOK'
    <3>1. exit' \in Codes /\ pc' \in {"resolve", "session", "bridge", "done"}
      BY DEF TypeOK, Codes
    <3>2. UNCHANGED <<call, socket, ready, code, detached, attached, raw, reports, first>>
          /\ UNCHANGED <<width, winch, told>>
      OBVIOUS
    <3>. QED
      BY <3>1, <3>2 DEF TypeOK
  <2>3. BridgeInv' /\ TerminalIsRestored'
    BY <2>1 DEF ShellInv, BridgeInv, TerminalIsRestored, Settled
  <2>4. FirstEndDecides' /\ SizeIsFollowed'
    BY <2>1 DEF ShellInv, FirstEndDecides, SizeIsFollowed, Settled
  <2>. QED
    BY <2>2, <2>3, <2>4 DEF ShellInv
<1>. QED
  BY <1>1, <1>2 DEF Resolve, RequestFails, Killed, Returns

(* The machine learns the size of the terminal when the bridge attaches,   *)
(* and whenever a change is handled while the socket is open.              *)
LEMMA SizeStep ==
    ASSUME TypeOK, ShellInv, Connect \/ Attach \/ OnResize \/ Resize
    PROVE  TypeOK' /\ ShellInv'
<1>. USE DEF Connect, Attach, OnResize, Resize, Now, process, bridge, size
<1>1. Clamped(width) \in Int /\ \A w \in Sizes : w \in Int
  BY ShellAssumption DEF TypeOK, Clamped
<1>2. TypeOK'
  <2>1. /\ told' \in Int /\ width' \in Sizes /\ winch' \in BOOLEAN
        /\ raw' \in BOOLEAN /\ attached' \in BOOLEAN
    BY <1>1 DEF TypeOK, Calls
  <2>2. /\ pc' \in {"resolve", "session", "bridge", "done"}
        /\ socket' \in {"none", "connecting", "open", "closing", "closed"}
        /\ ready' \in {"pending", "resolved", "rejected", "seen"}
    BY DEF TypeOK
  <2>3. UNCHANGED <<call, exit, code, first, detached, reports>>
    OBVIOUS
  <2>. QED
    BY <2>1, <2>2, <2>3 DEF TypeOK
<1>3. BridgeInv'
  <2>1. CASE Connect
    BY <2>1 DEF ShellInv, BridgeInv, Settled
  <2>2. CASE Attach
    <3>1. call.tty = FALSE => raw' = raw
      BY <2>2 DEF TypeOK, Calls
    <3>2. call.tty \in BOOLEAN /\ call.wasRaw \in BOOLEAN
      BY DEF TypeOK, Calls
    <3>3. raw' # call.wasRaw => call.tty
      BY <2>2, <3>1, <3>2 DEF ShellInv, BridgeInv
    <3>. QED
      BY <2>2, <3>3 DEF ShellInv, BridgeInv, Settled
  <2>3. CASE OnResize \/ Resize
    BY <2>3 DEF ShellInv, BridgeInv, Settled
  <2>. QED
    BY <2>1, <2>2, <2>3
<1>4. TerminalIsRestored'
  BY DEF ShellInv, BridgeInv, TerminalIsRestored
<1>5. FirstEndDecides'
  BY DEF ShellInv, FirstEndDecides
<1>6. SizeIsFollowed'
  BY DEF TypeOK, ShellInv, BridgeInv, SizeIsFollowed, AutoResize, Clamped
<1>. QED
  BY <1>2, <1>3, <1>4, <1>5, <1>6 DEF ShellInv

(* The socket opens, or is closing; stdin ends; or ready comes too late.   *)
LEMMA StreamStep ==
    ASSUME TypeOK, ShellInv, Opens \/ CloseFrame \/ InputEnds \/ ReadyTooLate
    PROVE  TypeOK' /\ ShellInv'
<1>. USE DEF Opens, CloseFrame, InputEnds, ReadyTooLate, Now, Bridging, process, size
<1>1. TypeOK'
  BY DEF TypeOK
<1>2. BridgeInv'
  BY DEF ShellInv, BridgeInv, Settled
<1>3. TerminalIsRestored'
  BY DEF ShellInv, BridgeInv, TerminalIsRestored
<1>4. FirstEndDecides'
  BY DEF ShellInv, FirstEndDecides
<1>. QED
  BY <1>1, <1>2, <1>3, <1>4 DEF ShellInv, SizeIsFollowed, AutoResize, BridgeInv

(* Every end of the bridge: a finish, reported if it is a failure and the  *)
(* first.                                                                  *)
LEMMA EndStep ==
    ASSUME TypeOK, ShellInv,
           SocketFails \/ SocketCloses \/ AttachFails \/ Caught \/ Terminate
    PROVE  TypeOK' /\ ShellInv'
<1>. USE DEF SocketFails, SocketCloses, AttachFails, Caught, Terminate, Refused, Now, Bridging,
             process, size
<1>1. PICK how \in {"ok", "failed", "terminated", "hung up"} :
         /\ finish(how)
         /\ reports' = IF how = "failed" /\ ~Settled THEN reports + 1 ELSE reports
  <2>1. CASE Terminate
    BY <2>1
  <2>2. CASE SocketFails \/ AttachFails \/ Caught
    BY <2>2 DEF fails
  <2>3. CASE SocketCloses
    BY <2>3 DEF fails
  <2>. QED
    BY <2>1, <2>2, <2>3
<1>2. /\ pc = "bridge" /\ pc' = "bridge" /\ call' = call /\ exit' = exit /\ exit = "none"
      /\ width' = width /\ winch' = winch /\ told' = told
  BY DEF ShellInv, BridgeInv
<1>3. /\ raw' = call.wasRaw /\ ~attached' /\ code' = first' /\ code' # "none"
      /\ first' = IF first = "none" THEN how ELSE first
      /\ raw' \in BOOLEAN /\ attached' \in BOOLEAN /\ first' \in Codes
  BY <1>1, <1>2, Finished DEF Codes
<1>4. /\ detached' \in BOOLEAN
      /\ socket' \in {"none", "connecting", "open", "closing", "closed"}
      /\ ready' \in {"pending", "resolved", "rejected", "seen"}
  BY DEF TypeOK
<1>. HIDE DEF SocketFails, SocketCloses, AttachFails, Caught, Terminate
<1>5. reports' = IF first' = "failed" THEN 1 ELSE 0
  <2>1. code = first /\ reports = (IF first = "failed" THEN 1 ELSE 0)
    BY <1>2 DEF ShellInv, BridgeInv, FirstEndDecides
  <2>2. CASE first = "none"
    <3>1. first' = how /\ reports = 0 /\ ~Settled
      BY <1>3, <2>1, <2>2 DEF Settled
    <3>2. CASE how = "failed"
      <4>1. reports' = reports + 1
        BY <1>1, <3>1, <3>2
      <4>. QED
        BY <3>1, <3>2, <4>1
    <3>3. CASE how # "failed"
      <4>1. reports' = reports
        BY <1>1, <3>3
      <4>. QED
        BY <3>1, <3>3, <4>1
    <3>. QED
      BY <3>2, <3>3
  <2>3. CASE first # "none"
    <3>1. first' = first /\ Settled
      BY <1>3, <2>1, <2>3 DEF Settled
    <3>. QED
      BY <1>1, <2>1, <3>1
  <2>. QED
    BY <2>2, <2>3
<1>6. TypeOK'
  BY <1>2, <1>3, <1>4, <1>5 DEF TypeOK
<1>7. BridgeInv' /\ TerminalIsRestored'
  <2>1. ready' = "pending" <=> socket' \in {"none", "connecting"}
    BY DEF SocketFails, SocketCloses, AttachFails, Caught, Terminate, ShellInv, BridgeInv
  <2>. QED
    BY <1>2, <1>3, <2>1 DEF BridgeInv, TerminalIsRestored, Settled
<1>8. FirstEndDecides' /\ SizeIsFollowed'
  BY <1>2, <1>3, <1>5 DEF FirstEndDecides, SizeIsFollowed
<1>. QED
  BY <1>6, <1>7, <1>8 DEF ShellInv

LEMMA CrashStep ==
    ASSUME TypeOK, ShellInv, Crash
    PROVE  TypeOK' /\ ShellInv'
<1>. USE DEF Crash, Exit, size
<1>1. raw' = call.wasRaw /\ ~attached' /\ attached' \in BOOLEAN
  BY DEF Restored, ShellInv, BridgeInv, TerminalIsRestored, Settled
<1>2. exit = "none" /\ raw' \in BOOLEAN
  BY <1>1 DEF ShellInv, BridgeInv, TypeOK, Calls
<1>3. TypeOK'
  <2>1. exit' \in Codes /\ pc' = "done"
    BY DEF Codes
  <2>2. UNCHANGED <<call, socket, ready, code, detached, reports, first, width, winch, told>>
    OBVIOUS
  <2>. QED
    BY <1>1, <1>2, <2>1, <2>2 DEF TypeOK
<1>4. BridgeInv' /\ TerminalIsRestored'
  BY <1>1 DEF ShellInv, BridgeInv, TerminalIsRestored, Settled
<1>5. FirstEndDecides' /\ SizeIsFollowed'
  BY <1>1, <1>2 DEF ShellInv, FirstEndDecides, SizeIsFollowed
<1>. QED
  BY <1>3, <1>4, <1>5 DEF ShellInv

LEMMA NextInv == TypeOK /\ ShellInv /\ [Next]_vars => TypeOK' /\ ShellInv'
<1>. SUFFICES ASSUME TypeOK, ShellInv, [Next]_vars
              PROVE  TypeOK' /\ ShellInv'
  OBVIOUS
<1>1. CASE UNCHANGED vars
  BY <1>1 DEF vars, process, bridge, size, TypeOK, ShellInv, BridgeInv, TerminalIsRestored,
              FirstEndDecides, SizeIsFollowed, AutoResize, Settled
<1>. QED
  BY <1>1, ProcessStep, SizeStep, StreamStep, EndStep, CrashStep DEF Next, Bridge

(* The types, and the invariant from which the properties follow.          *)
THEOREM Inductive == Spec => [](TypeOK /\ ShellInv)
  BY InitInv, NextInv, PTL DEF Spec

(* Every variable keeps its type; in particular no error is reported       *)
(* twice, and the bridge resolves with one of its codes.                   *)
THEOREM TypeCorrect == Spec => []TypeOK
  BY Inductive, PTL

(* However the process ends, and whenever a signal arrives, the terminal   *)
(* is left as it was found (cli-pty.ts:55, 100, 104).                      *)
THEOREM TerminalRestored == Spec => []TerminalIsRestored
<1>1. ShellInv => TerminalIsRestored
  BY DEF ShellInv
<1>. QED
  BY <1>1, Inductive, PTL

(* The first end of the bridge decides the exit code, and a failure is     *)
(* reported exactly once, whatever other events tell of it (cli-pty.ts:60, *)
(* 102, 117).                                                              *)
THEOREM FirstDecides == Spec => []FirstEndDecides
<1>1. ShellInv => FirstEndDecides
  BY DEF ShellInv
<1>. QED
  BY <1>1, Inductive, PTL

(* While the connection is open, an attached bridge with no change of size *)
(* left to handle has told the machine the size the terminal has, within   *)
(* the bounds, whatever the connection request said (cli-pty.ts:115).      *)
THEOREM SizeFollowed == Spec => []SizeIsFollowed
<1>1. ShellInv => SizeIsFollowed
  BY DEF ShellInv
<1>. QED
  BY <1>1, Inductive, PTL
=============================================================================
