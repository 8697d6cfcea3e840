----------------------------- MODULE CliProofs ------------------------------
(***************************************************************************)
(* Proofs about Cli for any processes, whatever their arguments, and any   *)
(* amount of standard input: the configuration survives, a piped write is  *)
(* whole, exit codes tell the truth, acknowledged edits are kept, a remote *)
(* command is handed on as it was written, and no request is one that the  *)
(* contract of its operation refuses.                                      *)
(***************************************************************************)
EXTENDS Cli, FiniteSetTheorems, SequenceTheorems, WellFoundedInduction, TLAPS

(* A process is what its script and its arguments make it.                 *)
LEMMA Fixed ==
    ASSUME UNCHANGED <<script, call>>
    PROVE  \A p : /\ op(p)' = op(p)
                  /\ readsStdin(p)' <=> readsStdin(p)
                  /\ Words(p)' = Words(p)
                  /\ Key(p)' = Key(p)
  BY DEF op, readsStdin, piped, stdin, Words, Key

(* Nothing is reported of a process that runs.                             *)
LEMMA ReportedHasEnded ==
    ASSUME CliInv, NEW p \in Processes, exit[p] = 0
    PROVE  pc[p] = "end"
  BY DEF CliInv, Unreported, Running

(* What a key may hold it may hold from then on: who has edited is done.   *)
LEMMA AdmissibleKept ==
    ASSUME CliInv, UNCHANGED <<script, call>>,
           \A q \in Processes : pc[q] = "end" => exit'[q] = exit[q] /\ seen'[q] = seen[q]
    PROVE  \A k, v : Admissible(k, v) => Admissible(k, v)'
<1>1. \A q : Words(q)' = Words(q) /\ Key(q)' = Key(q)
  BY Fixed
<1>2. \A q \in Processes : exit[q] = 0 =>
          exit'[q] = 0 /\ edited(q)' = edited(q)
  BY <1>1, ReportedHasEnded DEF edited
<1>. QED
  BY <1>1, <1>2 DEF Admissible, Processes

(* Codes are taken modulo 256, and no failure becomes a success by that.   *)
LEMMA Modulo256 ==
    \A c \in Int : c \in {-1, 0, 1, 7} => c % 256 \in Int /\ (c % 256 = 0 => c = 0)
  BY Z3

(* The exit code of a run that completed with code 0, or goes on.          *)
LEMMA ZeroIsSuccess ==
    ASSUME NEW run \in RunOutcomes \union {Unfinished}
    PROVE  /\ statusOf(run) \in Int
           /\ statusOf(run) = 0 =>
                  /\ run.performed /\ run.state # "failed"
                  /\ run.code = Null => run.state \in {"running", "completed"}
                  /\ run.code \in {0, Null}
<1>1. CASE run = Unfinished
  BY <1>1 DEF Unfinished, BackgroundRunResponse, statusOf
<1>2. CASE run \in RunOutcomes
  <2>1. PICK st \in {"completed", "cancelled", "failed"}, c \in {0, 7, -1, Null} :
           /\ run = [performed |-> TRUE, state |-> st, code |-> c]
           /\ st = "completed" => c \in {0, 7, Null}
    BY <1>2 DEF RunOutcomes, CompletedRunResponse, Run, Finished
  <2>2. run.performed /\ run.state = st /\ run.code = c /\ st # "running"
    BY <2>1
  <2>3. CASE c = Null
    <3>1. resultCode(run) = IF st = "completed" THEN 0 ELSE 1
      BY <2>2, <2>3 DEF resultCode, Null
    <3>2. runExitCode(run.state, resultCode(run)) = IF st = "completed" THEN 0 ELSE 1
      BY <2>2, <3>1 DEF runExitCode
    <3>. QED
      BY <2>2, <2>3, <3>2, Modulo256 DEF statusOf
  <2>4. CASE c # Null
    <3>1. resultCode(run) = c
      BY <2>2, <2>4 DEF resultCode
    <3>2. runExitCode(run.state, resultCode(run)) = IF st = "failed" /\ c = 0 THEN 1 ELSE c
      BY <2>2, <3>1 DEF runExitCode
    <3>3. statusOf(run) \in Int /\ (statusOf(run) = 0 => c = 0 /\ st # "failed")
      BY <2>1, <2>2, <2>4, <3>2, Modulo256 DEF statusOf
    <3>. QED
      BY <2>2, <2>4, <3>3 DEF Null
  <2>. QED
    BY <2>3, <2>4
<1>. QED
  BY <1>1, <1>2

-----------------------------------------------------------------------------
(* What is a process's own.  The configuration, the pool and the requests  *)
(* that are on their way are everybody's.                                  *)
Self(q) == <<pc[q], exit[q], outcome[q], file[q], target[q], sent[q], gathered[q], open[q],
             seen[q], temp[q], read[q]>>

(* A step of p leaves the others alone, and p has not ended.               *)
LEMMA OneMoves ==
    ASSUME TypeOK, CliInv, UNCHANGED <<script, call>>, NEW p \in Processes, pc[p] # "end",
           \A q \in Processes \ {p} : Self(q)' = Self(q),
           Unreported(p)', Edits(p)', Reads(p)'
    PROVE  /\ \A q \in Processes : Unreported(q)' /\ Edits(q)' /\ Reads(q)'
           /\ \A k, v : Admissible(k, v) => Admissible(k, v)'
<1>1. \A k, v : Admissible(k, v) => Admissible(k, v)'
  <2>1. \A q \in Processes : pc[q] = "end" => exit'[q] = exit[q] /\ seen'[q] = seen[q]
    BY DEF Self
  <2>. QED
    BY <2>1, AdmissibleKept
<1>2. ASSUME NEW q \in Processes \ {p} PROVE Unreported(q)' /\ Edits(q)' /\ Reads(q)'
  <2>. USE DEF Self
  <2>1. Unreported(q) /\ Edits(q) /\ Reads(q)
    BY DEF CliInv
  <2>2. Unreported(q)'
    BY <2>1 DEF Unreported, Asked
  <2>3. Reads(q)'
    BY <2>1, Fixed DEF Reads
  <2>4. edited(q)' = edited(q)
    BY Fixed DEF edited
  <2>5. Edits(q)'
    <3>1. ASSUME NEW k, Admissible(k, seen[q][k]) PROVE Admissible(k, seen[q][k])'
      <4>1. PICK v : v = seen[q][k]
        OBVIOUS
      <4>2. Admissible(k, v)'
        BY <1>1, <3>1, <4>1
      <4>. QED
        BY <4>1, <4>2 DEF Admissible
    <3>. QED
      BY <2>1, <2>4, <3>1, Fixed DEF Edits
  <2>. QED
    BY <2>2, <2>3, <2>5
<1>. QED
  BY <1>1, <1>2

(* What a configuration may hold it may hold from then on.                 *)
LEMMA ConfigKept ==
    ASSUME ConfigSurvives, config' = config,
           \A k, v : Admissible(k, v) => Admissible(k, v)'
    PROVE  ConfigSurvives'
<1>1. ASSUME NEW k \in ConfigKeys PROVE Admissible(k, config[k])'
  <2>1. PICK v : v = config[k]
    OBVIOUS
  <2>2. Admissible(k, v)'
    BY <2>1 DEF ConfigSurvives
  <2>. QED
    BY <2>1, <2>2 DEF Admissible
<1>. QED
  BY <1>1 DEF ConfigSurvives

(* Exit codes stay true when no outcome changes, and nobody ends with 0    *)
(* who asked for something.                                                *)
LEMMA TruthKept ==
    ASSUME CliInv, UNCHANGED <<script, call, outcome, file>>,
           \A q \in Processes : (exit[q] = 0 /\ Asked(q))' => exit[q] = 0 /\ Asked(q)
    PROVE  ExitTellsTheTruth'
  BY Fixed DEF CliInv, ExitTellsTheTruth, TellsTheTruth, Processes

(* What is stored stays what was read when only who runs reads.            *)
LEMMA WholeKept ==
    ASSUME CliInv, UNCHANGED <<script, file>>,
           \A q \in Processes : pc[q] = "end" => sent'[q] = sent[q] /\ open'[q] = open[q]
    PROVE  PipedWriteIsWhole'
  BY DEF CliInv, PipedWriteIsWhole, StoredWhole, Unreported, Processes

(* The pool keeps what it owes while nobody patches it or ends a patch.    *)
LEMMA PoolKept ==
    ASSUME CliInv, UNCHANGED <<script, call, poolVars>>,
           \A q \in Processes : pc[q] = "end" => pc'[q] = "end",
           \A q \in Processes : pc'[q] = "patch" => pc[q] = "patch",
           \A q \in Processes : op(q) = "addPoolCommitment" =>
               ((exit[q] = 0 /\ Asked(q))' => exit[q] = 0 /\ Asked(q))
    PROVE  AcknowledgedEditsAreKept' /\ \A q \in Processes : Commits(q)'
<1>. USE DEF poolVars
<1>1. AcknowledgedEditsAreKept'
  BY Fixed DEF CliInv, AcknowledgedEditsAreKept, Processes
<1>2. \A q \in Processes : Commits(q)'
  BY Fixed DEF CliInv, Commits, Processes
<1>. QED
  BY <1>1, <1>2

-----------------------------------------------------------------------------
LEMMA InitInv == Init => TypeOK /\ CliInv
<1>. SUFFICES ASSUME Init PROVE TypeOK /\ CliInv
  OBVIOUS
<1>1. script \in Scripts /\ 1 \in Processes /\ MaxChunks \in Nat
  BY CliAssumption DEF Init, Processes
<1>2. \A p \in Processes : DOMAIN script[p].config = ConfigKeys
  BY <1>1, CliAssumption DEF Processes
<1>3. \A p \in Processes :
         /\ pc[p] = "start" /\ exit[p] = Running /\ outcome[p] = Nothing /\ file[p] = Unwritten
         /\ target[p] = NoTarget /\ read[p] = {}
  BY DEF Init
<1>4. TypeOK
  <2>1. script \in Scripts /\ DOMAIN config = ConfigKeys
    BY <1>1, <1>2 DEF Init
  <2>2. pc \in [Processes -> Places] /\ exit \in [Processes -> Int]
    BY DEF Init, Places, Running
  <2>3. /\ DOMAIN seen = Processes /\ \A p \in Processes : DOMAIN seen[p] = ConfigKeys
        /\ DOMAIN temp = Processes /\ DOMAIN target = Processes /\ DOMAIN outcome = Processes
    BY DEF Init, NoFile, Filled
  <2>4. /\ sent \in [Processes -> 0..MaxChunks] /\ gathered \in [Processes -> 0..MaxChunks]
        /\ file \in [Processes -> 0..MaxChunks \union {Unwritten}]
    BY <1>1 DEF Init
  <2>5. open \in [Processes -> BOOLEAN]
    BY DEF Init
  <2>6. pool \subseteq Processes /\ late \subseteq Processes /\ read \in [Processes -> SUBSET Processes]
    BY DEF Init
  <2>. QED
    BY <2>1, <2>2, <2>3, <2>4, <2>5, <2>6 DEF TypeOK
<1>5. \A p \in Processes : Unreported(p) /\ Edits(p) /\ Reads(p)
  BY <1>3 DEF Unreported, Asked, Edits, Reads
<1>6. \A p \in Processes : Commits(p)
  BY <1>3 DEF Init, Commits
<1>7. ConfigSurvives
  BY DEF Init, ConfigSurvives, Admissible
<1>8. AcknowledgedEditsAreKept /\ PipedWriteIsWhole /\ ExitTellsTheTruth
  BY <1>3 DEF AcknowledgedEditsAreKept, PipedWriteIsWhole, StoredWhole, ExitTellsTheTruth,
              TellsTheTruth, Asked
<1>. QED
  BY <1>4, <1>5, <1>6, <1>7, <1>8 DEF CliInv

-----------------------------------------------------------------------------
(* The steps.                                                              *)

(* Steps that only move the process, or end it with a failure.             *)
Moves(p) ==
    \/ Drained(p) \/ Deadline(p) \/ RequestFails(p) \/ NotFound(p) \/ Hint(p) \/ Kill(p)

LEMMA MovesStep ==
    ASSUME TypeOK, CliInv, NEW p \in Processes, Moves(p)
    PROVE  TypeOK' /\ CliInv'
<1>. USE DEF Moves, Drained, Deadline, RequestFails, NotFound, Hint, Kill, elsewhere, stdinVars,
             configVars, poolVars, Goto, Exit, die, Running, Killed
<1>1. /\ UNCHANGED <<script, call, config, seen, temp, target, sent, open, gathered,
                     pool, read, late, file, outcome>>
      /\ pc[p] # "end"
      /\ \E to \in Places \ {"patch"}, code \in Int :
            /\ pc' = [pc EXCEPT ![p] = to] /\ exit' = [exit EXCEPT ![p] = code]
            /\ code # 0 /\ (to # "end" => code = Running)
            /\ to \in {"request", "hint", "end"}
            /\ to = "request" => allRead(p)
  <2>1. exit[p] \in Int /\ exit = [exit EXCEPT ![p] = exit[p]] /\ (pc[p] # "end" => exit[p] = Running)
    BY DEF TypeOK, CliInv, Unreported
  <2>2. CASE Drained(p)
    <3>1. pc' = [pc EXCEPT ![p] = "request"] /\ exit' = [exit EXCEPT ![p] = Running]
      BY <2>1, <2>2
    <3>2. "request" \in Places \ {"patch"} /\ Running \in Int /\ Running # 0
      BY DEF Places
    <3>. QED
      BY <2>2, <3>1, <3>2
  <2>3. CASE NotFound(p)
    <3>1. pc' = [pc EXCEPT ![p] = "hint"] /\ exit' = [exit EXCEPT ![p] = Running]
      BY <2>1, <2>3
    <3>2. "hint" \in Places \ {"patch"} /\ Running \in Int /\ Running # 0
      BY DEF Places
    <3>. QED
      BY <2>3, <3>1, <3>2
  <2>4. CASE Deadline(p) \/ RequestFails(p) \/ Hint(p) \/ Kill(p)
    BY <2>4 DEF Places
  <2>. QED
    BY <2>2, <2>3, <2>4
<1>2. PICK to \in Places \ {"patch"}, code \in Int :
         /\ pc' = [pc EXCEPT ![p] = to] /\ exit' = [exit EXCEPT ![p] = code]
         /\ code # 0 /\ (to # "end" => code = Running)
         /\ to \in {"request", "hint", "end"}
         /\ to = "request" => allRead(p)
  BY <1>1
<1>. HIDE DEF Moves
<1>3. /\ pc'[p] = to /\ exit'[p] = code
      /\ \A q \in Processes \ {p} : pc'[q] = pc[q] /\ exit'[q] = exit[q]
  BY <1>2 DEF TypeOK
<1>4. TypeOK'
  BY <1>1, <1>2 DEF TypeOK, Processes
<1>5. Unreported(p)' /\ Edits(p)'
  BY <1>1, <1>2, <1>3 DEF CliInv, Unreported, Asked, Edits
<1>6. Reads(p)'
  BY <1>1, <1>2, <1>3 DEF Reads, allRead
<1>7. /\ \A q \in Processes : Unreported(q)' /\ Edits(q)' /\ Reads(q)'
      /\ \A k, v : Admissible(k, v) => Admissible(k, v)'
  <2>1. \A q \in Processes \ {p} : Self(q)' = Self(q)
    BY <1>1, <1>3 DEF Self
  <2>. QED
    BY <1>1, <1>5, <1>6, <2>1, OneMoves
<1>8. ConfigSurvives'
  BY <1>1, <1>7, ConfigKept DEF CliInv
<1>9. \A q \in Processes : exit'[q] = 0 => exit[q] = 0
  BY <1>2, <1>3
<1>10. AcknowledgedEditsAreKept' /\ \A q \in Processes : Commits(q)'
  BY <1>1, <1>2, <1>3, <1>9, PoolKept DEF Asked
<1>11. PipedWriteIsWhole' /\ ExitTellsTheTruth'
  BY <1>1, <1>9, WholeKept, TruthKept DEF Asked
<1>. QED
  BY <1>1, <1>4, <1>7, <1>8, <1>10, <1>11 DEF CliInv, Processes

(* Steps of a process that has no client yet: it may end as it likes, and  *)
(* only has to see to the configuration.                                   *)
LEMMA EarlyStep ==
    ASSUME TypeOK, CliInv, NEW p \in Processes, TypeOK',
           UNCHANGED <<script, call, target, stdinVars, poolVars, file, outcome>>,
           pc[p] \in {"start", "config", "opening", "filling", "renaming"},
           pc'[p] \in {"config", "opening", "filling", "renaming", "client", "end"},
           pc'[p] # "end" => exit'[p] = Running,
           \A q \in Processes \ {p} : Self(q)' = Self(q),
           Edits(p)',
           (\A k, v : Admissible(k, v) => Admissible(k, v)') => ConfigSurvives'
    PROVE  CliInv'
<1>. USE DEF poolVars, stdinVars
<1>1. Unreported(p)' /\ Reads(p)'
  BY DEF CliInv, Unreported, Asked, Reads
<1>2. /\ \A q \in Processes : Unreported(q)' /\ Edits(q)' /\ Reads(q)'
      /\ \A k, v : Admissible(k, v) => Admissible(k, v)'
  BY <1>1, OneMoves
<1>3. \A q \in Processes : (exit[q] = 0 /\ Asked(q))' => exit[q] = 0 /\ Asked(q)
  <2>1. ~Asked(p)'
    BY DEF CliInv, Unreported, Asked
  <2>. QED
    BY <2>1 DEF Self, Asked
<1>4. AcknowledgedEditsAreKept' /\ \A q \in Processes : Commits(q)'
  <2>1. \A q \in Processes : pc[q] = "end" => pc'[q] = "end"
    BY DEF Self
  <2>2. \A q \in Processes : pc'[q] = "patch" => pc[q] = "patch"
    BY DEF Self
  <2>. QED
    BY <1>3, <2>1, <2>2, PoolKept
<1>5. PipedWriteIsWhole' /\ ExitTellsTheTruth'
  BY <1>3, WholeKept, TruthKept
<1>. QED
  BY <1>2, <1>4, <1>5 DEF CliInv, Processes

LEMMA DispatchStep ==
    ASSUME TypeOK, CliInv, NEW p \in Processes, Dispatch(p)
    PROVE  TypeOK' /\ CliInv'
<1>. USE DEF Dispatch, configVars
<1>1. PICK to \in {"config", "client", "end"}, code \in {0, 1, Running} :
         /\ pc' = [pc EXCEPT ![p] = to] /\ exit' = [exit EXCEPT ![p] = code]
         /\ to # "end" => code = Running
         /\ to = "config" => call[p].result = "invocation" /\ call[p].command = "config"
  <2>1. exit = [exit EXCEPT ![p] = Running]
    BY DEF TypeOK, CliInv, Unreported
  <2>2. CASE call[p].result \in {"help", "version"}
    BY <2>2 DEF Exit
  <2>3. CASE call[p].result \notin {"help", "version"} /\ call[p].result = "invocation"
    <3>1. /\ pc' = [pc EXCEPT ![p] = IF call[p].command = "config" THEN "config" ELSE "client"]
          /\ exit' = exit
      BY <2>3 DEF Goto
    <3>. QED
      BY <2>1, <2>3, <3>1
  <2>4. CASE call[p].result \notin {"help", "version", "invocation"}
    BY <2>4 DEF die, Exit
  <2>. QED
    BY <2>2, <2>3, <2>4
<1>2. /\ pc'[p] = to /\ exit'[p] = code
      /\ \A q \in Processes \ {p} : pc'[q] = pc[q] /\ exit'[q] = exit[q]
  BY <1>1 DEF TypeOK
<1>3. TypeOK'
  BY <1>1 DEF TypeOK, Processes, Places, Running, stdinVars, poolVars
<1>4. Edits(p)'
  BY <1>1, <1>2 DEF Edits
<1>5. \A q \in Processes \ {p} : Self(q)' = Self(q)
  BY <1>2 DEF Self, stdinVars, poolVars
<1>6. (\A k, v : Admissible(k, v) => Admissible(k, v)') => ConfigSurvives'
  BY ConfigKept DEF CliInv
<1>. QED
  BY <1>1, <1>2, <1>3, <1>4, <1>5, <1>6, EarlyStep

LEMMA ConfigStep ==
    ASSUME TypeOK, CliInv, NEW p \in Processes, cmdConfig(p)
    PROVE  TypeOK' /\ CliInv'
<1>. USE DEF cmdConfig
<1>1. PICK to \in {"opening", "end"}, code \in {0, 1, Running} :
         /\ pc' = [pc EXCEPT ![p] = to] /\ exit' = [exit EXCEPT ![p] = code]
         /\ to # "end" => code = Running
         /\ to = "opening" =>
                Subcommand(call[p]) \in {"set", "unset"} /\ Key(p) \in EditableKeys
  <2>. DEFINE sub == Subcommand(call[p])
  <2>1. exit = [exit EXCEPT ![p] = Running]
    BY DEF TypeOK, CliInv, Unreported
  <2>2. \/ Exit(p, 0) \/ Exit(p, 1)
        \/ Goto(p, "opening") /\ sub \in {"set", "unset"} /\ Key(p) \in EditableKeys
    BY DEF die
  <2>3. CASE Exit(p, 0) \/ Exit(p, 1)
    BY <2>3 DEF Exit
  <2>4. CASE Goto(p, "opening") /\ sub \in {"set", "unset"} /\ Key(p) \in EditableKeys
    BY <2>1, <2>4 DEF Goto
  <2>. QED
    BY <2>2, <2>3, <2>4
<1>2. /\ pc'[p] = to /\ exit'[p] = code /\ seen'[p] = config
      /\ \A q \in Processes \ {p} : pc'[q] = pc[q] /\ exit'[q] = exit[q] /\ seen'[q] = seen[q]
  BY <1>1 DEF TypeOK
<1>3. TypeOK'
  <2>1. pc' \in [Processes -> Places] /\ exit' \in [Processes -> Int]
    BY <1>1 DEF TypeOK, Places, Running
  <2>2. DOMAIN seen' = Processes /\ \A q \in Processes : DOMAIN seen'[q] = ConfigKeys
    BY <1>2 DEF TypeOK
  <2>. QED
    BY <2>1, <2>2 DEF TypeOK, Processes, stdinVars, poolVars
<1>4. \A q \in Processes \ {p} : Self(q)' = Self(q)
  BY <1>2 DEF Self, stdinVars, poolVars
<1>5. \A k, v : Admissible(k, v) => Admissible(k, v)'
  <2>1. \A q \in Processes : pc[q] = "end" => exit'[q] = exit[q] /\ seen'[q] = seen[q]
    BY <1>2
  <2>. QED
    BY <2>1, AdmissibleKept
<1>6. ConfigSurvives'
  BY <1>5, ConfigKept DEF CliInv
<1>7. Edits(p)'
  <2>1. \A k \in ConfigKeys : Admissible(k, seen[p][k])'
    BY <1>2, <1>6 DEF ConfigSurvives, Admissible
  <2>2. call[p].result = "invocation" /\ call[p].command = "config"
    BY DEF CliInv, Edits
  <2>3. call' = call /\ Key(p)' = Key(p)
    BY Fixed
  <2>. QED
    BY <1>1, <1>2, <2>1, <2>2, <2>3 DEF Edits
<1>. QED
  BY <1>1, <1>2, <1>3, <1>4, <1>6, <1>7, EarlyStep

(* Writing the new configuration, beside the old one.                      *)
LEMMA WriteStep ==
    ASSUME TypeOK, CliInv, NEW p \in Processes, OpenConfig(p) \/ FillConfig(p) \/ ConfigFails(p)
    PROVE  TypeOK' /\ CliInv'
<1>. USE DEF OpenConfig, FillConfig, ConfigFails, writeTemporary, editing, Goto, die, Exit
<1>1. /\ pc[p] \in {"opening", "filling", "renaming"}
      /\ UNCHANGED <<script, call, config, seen, target, stdinVars, poolVars, file, outcome>>
  OBVIOUS
<1>0. PICK content : \E to \in {"filling", "renaming", "end"}, code \in {1, Running} :
         /\ pc' = [pc EXCEPT ![p] = to] /\ exit' = [exit EXCEPT ![p] = code]
         /\ temp' = [temp EXCEPT ![p] = content]
         /\ to # "end" => code = Running
         /\ to = "renaming" => content = edited(p)
  <2>1. exit = [exit EXCEPT ![p] = Running]
    BY DEF TypeOK, CliInv, Unreported
  <2>2. CASE OpenConfig(p)
    BY <2>1, <2>2
  <2>3. CASE FillConfig(p)
    BY <2>1, <2>3
  <2>4. CASE ConfigFails(p)
    BY <2>4
  <2>. QED
    BY <2>2, <2>3, <2>4
<1>. HIDE DEF OpenConfig, FillConfig, ConfigFails, editing
<1>2. PICK to \in {"filling", "renaming", "end"}, code \in {1, Running} :
         /\ pc' = [pc EXCEPT ![p] = to] /\ exit' = [exit EXCEPT ![p] = code]
         /\ temp' = [temp EXCEPT ![p] = content]
         /\ to # "end" => code = Running
         /\ to = "renaming" => content = edited(p)
  BY <1>0
<1>3. /\ pc'[p] = to /\ exit'[p] = code /\ temp'[p] = content
      /\ \A q \in Processes \ {p} : pc'[q] = pc[q] /\ exit'[q] = exit[q] /\ temp'[q] = temp[q]
  BY <1>2 DEF TypeOK
<1>4. TypeOK'
  <2>1. pc' \in [Processes -> Places] /\ exit' \in [Processes -> Int] /\ DOMAIN temp' = Processes
    BY <1>2 DEF TypeOK, Places, Running
  <2>. QED
    BY <1>1, <2>1 DEF TypeOK, Processes, stdinVars, poolVars
<1>5. \A q \in Processes \ {p} : Self(q)' = Self(q)
  BY <1>1, <1>3 DEF Self, stdinVars, poolVars
<1>6. \A k, v : Admissible(k, v) => Admissible(k, v)'
  <2>1. \A q \in Processes : pc[q] = "end" => exit'[q] = exit[q] /\ seen'[q] = seen[q]
    BY <1>1, <1>3
  <2>. QED
    BY <1>1, <2>1, AdmissibleKept
<1>7. Edits(p)'
  <2>1. Edits(p)
    BY DEF CliInv
  <2>2. ASSUME NEW k \in ConfigKeys PROVE Admissible(k, seen[p][k])'
    <3>1. PICK v : v = seen[p][k]
      OBVIOUS
    <3>2. Admissible(k, v)'
      BY <1>1, <1>6, <2>1, <3>1 DEF Edits
    <3>. QED
      BY <1>1, <3>1, <3>2 DEF Admissible
  <2>3. Key(p)' = Key(p) /\ edited(p)' = edited(p)
    BY <1>1, Fixed DEF edited
  <2>. QED
    BY <1>1, <1>2, <1>3, <2>1, <2>2, <2>3 DEF Edits
<1>8. (\A k, v : Admissible(k, v) => Admissible(k, v)') => ConfigSurvives'
  BY <1>1, ConfigKept DEF CliInv
<1>. QED
  BY <1>1, <1>2, <1>3, <1>4, <1>5, <1>7, <1>8, EarlyStep

(* The new configuration takes the place of the old one.                   *)
LEMMA RenameStep ==
    ASSUME TypeOK, CliInv, NEW p \in Processes, RenameConfig(p)
    PROVE  TypeOK' /\ CliInv'
<1>. USE DEF RenameConfig, editing, Exit
<1>1. /\ pc'[p] = "end" /\ exit'[p] = 0
      /\ \A q \in Processes \ {p} : pc'[q] = pc[q] /\ exit'[q] = exit[q] /\ temp'[q] = temp[q]
  BY DEF TypeOK
<1>2. /\ Edits(p) /\ config' = edited(p)
      /\ call[p].result = "invocation" /\ call[p].command = "config"
      /\ Subcommand(call[p]) \in {"set", "unset"} /\ Key(p) \in EditableKeys
  BY DEF CliInv, Edits
<1>3. TypeOK'
  <2>1. pc' \in [Processes -> Places] /\ exit' \in [Processes -> Int] /\ DOMAIN temp' = Processes
    BY DEF TypeOK, Places
  <2>2. DOMAIN config' = ConfigKeys
    BY <1>2 DEF edited, TypeOK
  <2>. QED
    BY <2>1, <2>2 DEF TypeOK, Processes, stdinVars, poolVars
<1>4. \A q \in Processes \ {p} : Self(q)' = Self(q)
  BY <1>1 DEF Self, stdinVars, poolVars
<1>5. \A k, v : Admissible(k, v) => Admissible(k, v)'
  <2>1. \A q \in Processes : pc[q] = "end" => exit'[q] = exit[q] /\ seen'[q] = seen[q]
    BY <1>1
  <2>. QED
    BY <2>1, AdmissibleKept
<1>6. ASSUME NEW k \in ConfigKeys PROVE Admissible(k, config[k])'
  <2>1. edited(p)' = edited(p) /\ Key(p)' = Key(p)
    BY Fixed DEF edited
  <2>2. CASE k = Key(p)
    <3>1. config'[k] = edited(p)'[k] /\ p \in Processes'
      BY <1>2, <2>1 DEF Processes
    <3>. QED
      BY <1>1, <1>2, <2>1, <2>2, <3>1 DEF Admissible
  <2>3. CASE k # Key(p)
    <3>1. config'[k] = seen[p][k]
      BY <1>2, <2>3 DEF edited, TypeOK
    <3>2. PICK v : v = seen[p][k]
      OBVIOUS
    <3>3. Admissible(k, v)'
      BY <1>2, <1>5, <3>2 DEF Edits
    <3>. QED
      BY <3>1, <3>2, <3>3 DEF Admissible
  <2>. QED
    BY <2>2, <2>3
<1>7. ConfigSurvives'
  BY <1>6 DEF ConfigSurvives
<1>8. Edits(p)'
  BY <1>1 DEF Edits
<1>. QED
  BY <1>1, <1>3, <1>4, <1>7, <1>8, EarlyStep

-----------------------------------------------------------------------------
(* Steps of a process that has a client: it has to see to what it reads,   *)
(* to what it stores and to the code it ends with.                         *)
LEMMA AskStep ==
    ASSUME TypeOK, CliInv, NEW p \in Processes, TypeOK',
           UNCHANGED <<script, call, configVars, poolVars>>,
           pc[p] \in {"client", "stdin", "request"},
           pc'[p] \in {"stdin", "request", "end"},
           pc'[p] # "end" => exit'[p] = Running /\ outcome'[p] = Nothing /\ file'[p] = Unwritten,
           \A q \in Processes \ {p} : Self(q)' = Self(q),
           op(p) = "addPoolCommitment" => exit'[p] # 0,
           Reads(p)', StoredWhole(p)', TellsTheTruth(p)'
    PROVE  CliInv'
<1>. USE DEF configVars, poolVars
<1>1. Unreported(p)' /\ Edits(p)'
  BY DEF Unreported, Edits
<1>2. /\ \A q \in Processes : Unreported(q)' /\ Edits(q)' /\ Reads(q)'
      /\ \A k, v : Admissible(k, v) => Admissible(k, v)'
  BY <1>1, OneMoves
<1>3. ConfigSurvives'
  BY <1>2, ConfigKept DEF CliInv
<1>4. AcknowledgedEditsAreKept' /\ \A q \in Processes : Commits(q)'
  <2>1. \A q \in Processes : (pc[q] = "end" => pc'[q] = "end") /\ (pc'[q] = "patch" => pc[q] = "patch")
    BY DEF Self
  <2>2. \A q \in Processes : op(q) = "addPoolCommitment" =>
            ((exit[q] = 0 /\ Asked(q))' => exit[q] = 0 /\ Asked(q))
    BY DEF Self, Asked
  <2>. QED
    BY <2>1, <2>2, PoolKept
<1>5. ASSUME NEW q \in Processes PROVE StoredWhole(q)' /\ TellsTheTruth(q)'
  <2>1. CASE q = p
    BY <2>1
  <2>2. CASE q # p
    <3>1. StoredWhole(q) /\ TellsTheTruth(q) /\ Self(q)' = Self(q)
      BY <2>2 DEF CliInv, PipedWriteIsWhole, ExitTellsTheTruth
    <3>. QED
      BY <3>1, Fixed DEF Self, StoredWhole, TellsTheTruth, Asked
  <2>. QED
    BY <2>1, <2>2
<1>. QED
  BY <1>2, <1>3, <1>4, <1>5 DEF CliInv, PipedWriteIsWhole, ExitTellsTheTruth, Processes

(* The client is made, and the request begins unless data is to be read.   *)
LEMMA ClientStep ==
    ASSUME TypeOK, CliInv, NEW p \in Processes, Client(p)
    PROVE  TypeOK' /\ CliInv'
<1>. USE DEF Client
<1>1. PICK to \in {"stdin", "request", "end"}, code \in {1, Running} :
         /\ pc' = [pc EXCEPT ![p] = to] /\ exit' = [exit EXCEPT ![p] = code]
         /\ DOMAIN target' = DOMAIN target /\ \A q \in Processes \ {p} : target'[q] = target[q]
         /\ to # "end" => code = Running
         /\ to = "end" => code = 1
         /\ to = "request" => ~readsStdin(p)
  <2>1. exit = [exit EXCEPT ![p] = Running] /\ DOMAIN target = Processes
    BY DEF TypeOK, CliInv, Unreported
  <2>2. CASE die(p) /\ UNCHANGED target
    BY <2>1, <2>2 DEF die, Exit
  <2>3. CASE /\ target' = [target EXCEPT ![p] = clientOf(p)]
             /\ Goto(p, IF readsStdin(p) THEN "stdin" ELSE "request")
    BY <2>1, <2>3 DEF Goto
  <2>. QED
    BY <2>2, <2>3
<1>2. UNCHANGED <<script, call, configVars, stdinVars, poolVars, file, outcome>> /\ pc[p] = "client"
  OBVIOUS
<1>. HIDE DEF Client
<1>3. /\ pc'[p] = to /\ exit'[p] = code
      /\ \A q \in Processes \ {p} : pc'[q] = pc[q] /\ exit'[q] = exit[q]
  BY <1>1 DEF TypeOK
<1>4. TypeOK'
  <2>1. pc' \in [Processes -> Places] /\ exit' \in [Processes -> Int] /\ DOMAIN target' = Processes
    BY <1>1 DEF TypeOK, Places, Running
  <2>. QED
    BY <1>2, <2>1 DEF TypeOK, Processes, configVars, stdinVars, poolVars
<1>5. \A q \in Processes \ {p} : Self(q)' = Self(q)
  BY <1>1, <1>2, <1>3 DEF Self, configVars, stdinVars, poolVars
<1>6. outcome'[p] = Nothing /\ file'[p] = Unwritten
  BY <1>2 DEF CliInv, Unreported
<1>7. Reads(p)'
  BY <1>1, <1>2, <1>3, Fixed DEF Reads
<1>8. StoredWhole(p)' /\ TellsTheTruth(p)'
  BY <1>3, <1>6 DEF StoredWhole, TellsTheTruth, Running
<1>. QED
  BY <1>1, <1>2, <1>3, <1>4, <1>5, <1>6, <1>7, <1>8, AskStep DEF Running

(* Data comes in.                                                          *)
LEMMA InputStep ==
    ASSUME TypeOK, CliInv, NEW p \in Processes, Produce(p) \/ CloseStdin(p) \/ Chunk(p)
    PROVE  TypeOK' /\ CliInv'
<1>. USE DEF Produce, CloseStdin, Chunk, elsewhere
<1>1. UNCHANGED <<script, call, configVars, target, poolVars, file, outcome, pc, exit>> /\ pc[p] = "stdin"
  OBVIOUS
<1>2. \A q \in Processes \ {p} : sent'[q] = sent[q] /\ open'[q] = open[q] /\ gathered'[q] = gathered[q]
  BY DEF TypeOK
<1>3. /\ sent' \in [Processes -> 0..MaxChunks] /\ gathered' \in [Processes -> 0..MaxChunks]
      /\ open' \in [Processes -> BOOLEAN]
  <2>1. /\ sent \in [Processes -> 0..MaxChunks] /\ gathered \in [Processes -> 0..MaxChunks]
        /\ open \in [Processes -> BOOLEAN] /\ MaxChunks \in Nat
    BY CliAssumption DEF TypeOK
  <2>2. CASE Produce(p)
    <3>1. sent[p] + 1 \in 0..MaxChunks
      BY <2>1, <2>2
    <3>. QED
      BY <2>1, <2>2, <3>1
  <2>3. CASE CloseStdin(p)
    BY <2>1, <2>3
  <2>4. CASE Chunk(p)
    <3>1. gathered[p] + 1 \in 0..MaxChunks
      BY <2>1, <2>4
    <3>. QED
      BY <2>1, <2>4, <3>1
  <2>. QED
    BY <2>2, <2>3, <2>4
<1>. HIDE DEF Produce, CloseStdin, Chunk, elsewhere
<1>4. TypeOK'
  BY <1>1, <1>3 DEF TypeOK, Processes, configVars, poolVars
<1>5. \A q \in Processes \ {p} : Self(q)' = Self(q)
  BY <1>1, <1>2 DEF Self, configVars, poolVars
<1>6. exit'[p] = Running /\ outcome'[p] = Nothing /\ file'[p] = Unwritten
  BY <1>1 DEF CliInv, Unreported
<1>7. Reads(p)' /\ StoredWhole(p)' /\ TellsTheTruth(p)'
  BY <1>1, <1>6 DEF Reads, StoredWhole, TellsTheTruth, Running
<1>. QED
  BY <1>1, <1>4, <1>5, <1>6, <1>7, AskStep DEF Running

(* A run is reported: the command ends as the run did.                     *)
LEMMA RunStep ==
    ASSUME TypeOK, CliInv, NEW p \in Processes, RunAnswered(p)
    PROVE  TypeOK' /\ CliInv'
<1>1. PICK run \in RunOutcomes \union {Unfinished} :
         outcome' = [outcome EXCEPT ![p] = run] /\ Exit(p, statusOf(run))
  BY DEF RunAnswered
<1>2. /\ UNCHANGED <<script, call, configVars, target, stdinVars, poolVars, file>>
      /\ pc[p] = "request" /\ op(p) \in {"createRun", "getRun"}
  BY DEF RunAnswered
<1>3. /\ pc' = [pc EXCEPT ![p] = "end"] /\ exit' = [exit EXCEPT ![p] = statusOf(run)]
      /\ statusOf(run) \in Int
  BY <1>1, ZeroIsSuccess DEF Exit
<1>4. /\ pc'[p] = "end" /\ exit'[p] = statusOf(run) /\ outcome'[p] = run
      /\ \A q \in Processes \ {p} : pc'[q] = pc[q] /\ exit'[q] = exit[q] /\ outcome'[q] = outcome[q]
  BY <1>1, <1>3 DEF TypeOK
<1>5. TypeOK'
  <2>1. pc' \in [Processes -> Places] /\ exit' \in [Processes -> Int] /\ DOMAIN outcome' = Processes
    BY <1>1, <1>3 DEF TypeOK, Places
  <2>. QED
    BY <1>2, <2>1 DEF TypeOK, Processes, configVars, stdinVars, poolVars
<1>6. \A q \in Processes \ {p} : Self(q)' = Self(q)
  BY <1>2, <1>4 DEF Self, configVars, stdinVars, poolVars
<1>7. StoredWhole(p)' /\ Reads(p)'
  BY <1>2, <1>4 DEF CliInv, Unreported, StoredWhole, Reads
<1>8. TellsTheTruth(p)'
  <2>1. ~readsStdin(p)'
    BY <1>2, Fixed DEF readsStdin
  <2>2. statusOf(run) = 0 => /\ run.performed /\ run.state # "failed"
                             /\ run.code = Null => run.state \in {"running", "completed"}
                             /\ run.code \in {0, Null}
    BY ZeroIsSuccess
  <2>. QED
    BY <1>4, <2>1, <2>2 DEF TellsTheTruth
<1>. QED
  BY <1>2, <1>4, <1>5, <1>6, <1>7, <1>8, AskStep

(* A signal, a deletion or any other request is answered.                  *)
LEMMA AnswerStep ==
    ASSUME TypeOK, CliInv, NEW p \in Processes,
           SignalAnswered(p) \/ DeletionAnswered(p) \/ Answered(p)
    PROVE  TypeOK' /\ CliInv'
<1>0. outcome[p] = Nothing /\ file[p] = Unwritten
  BY DEF CliInv, Unreported, SignalAnswered, DeletionAnswered, Answered
<1>. DEFINE Answers(code, what) ==
         /\ outcome' = [outcome EXCEPT ![p] = what] /\ Exit(p, code)
         /\ code = 0 => what.performed /\ what.state # "failed" /\ what.code # Null
         /\ code = 0 => what.code = 0 \/ (op(p) = "signal" /\ On(call[p], "json"))
<1>1. \E code \in Int : \E what : Answers(code, what)
  <2>1. CASE SignalAnswered(p)
    <3>1. PICK run \in Finished({"completed"}, {0, 7}) :
             outcome' = [outcome EXCEPT ![p] = run] /\ Exit(p, IF On(call[p], "json") THEN 0 ELSE run.code)
      BY <2>1 DEF SignalAnswered
    <3>2. run.performed /\ run.state = "completed" /\ run.code \in {0, 7}
      BY DEF Finished
    <3>4. op(p) = "signal" /\ run.code # Null
      BY <2>1, <3>2 DEF SignalAnswered, Null
    <3>5. CASE On(call[p], "json")
      <4>1. Answers(0, run)
        BY <3>1, <3>2, <3>4, <3>5
      <4>. HIDE DEF Answers
      <4>. QED
        BY <4>1
    <3>6. CASE ~On(call[p], "json")
      <4>1. Answers(run.code, run)
        BY <3>1, <3>2, <3>4, <3>6
      <4>2. run.code \in Int
        BY <3>2
      <4>. HIDE DEF Answers
      <4>. QED
        BY <4>1, <4>2
    <3>. QED
      BY <3>5, <3>6
  <2>2. CASE DeletionAnswered(p)
    <3>1. PICK performed \in BOOLEAN :
             /\ outcome' = [outcome EXCEPT ![p] = [Nothing EXCEPT !.performed = performed]]
             /\ Exit(p, IF performed THEN 0 ELSE 1)
      BY <1>0, <2>2 DEF DeletionAnswered
    <3>. DEFINE what == [Nothing EXCEPT !.performed = performed]
    <3>2. what.performed = performed /\ what.state = Absent /\ what.code = 0
      BY DEF Nothing
    <3>3. 0 # Null /\ Absent # "failed"
      BY DEF Null, Absent
    <3>4. (IF performed THEN 0 ELSE 1) \in Int
      OBVIOUS
    <3>5. Answers(IF performed THEN 0 ELSE 1, what)
      BY <3>1, <3>2, <3>3
    <3>. QED
      BY <3>4, <3>5
  <2>3. CASE Answered(p)
    <3>. DEFINE what == [Nothing EXCEPT !.performed = TRUE]
    <3>1. outcome' = [outcome EXCEPT ![p] = what] /\ Exit(p, 0)
      BY <1>0, <2>3 DEF Answered
    <3>2. what.performed = TRUE /\ what.state = Absent /\ what.code = 0
      BY DEF Nothing
    <3>3. 0 # Null /\ Absent # "failed"
      BY DEF Null, Absent
    <3>4. Answers(0, what)
      BY <3>1, <3>2, <3>3
    <3>. HIDE DEF Answers, what
    <3>. QED
      BY <3>4
  <2>. QED
    BY <2>1, <2>2, <2>3
<1>11. PICK code \in Int : \E what : Answers(code, what)
  <2>. HIDE DEF Answers
  <2>. QED
    BY <1>1
<1>10. PICK what : Answers(code, what)
  BY <1>11
<1>2. /\ UNCHANGED <<script, call, configVars, target, stdinVars, poolVars>>
      /\ pc[p] = "request" /\ op(p) # "addPoolCommitment"
  BY DEF SignalAnswered, DeletionAnswered, Answered, Deletions
<1>3. /\ DOMAIN file' = DOMAIN file /\ \A q \in Processes \ {p} : file'[q] = file[q]
      /\ file'[p] = IF readsStdin(p) THEN gathered[p] ELSE Unwritten
      /\ file' \in [Processes -> 0..MaxChunks \union {Unwritten}]
  <2>0. file \in [Processes -> 0..MaxChunks \union {Unwritten}] /\ gathered[p] \in 0..MaxChunks
    BY DEF TypeOK
  <2>1. CASE SignalAnswered(p) \/ DeletionAnswered(p)
    <3>1. file' = file /\ ~readsStdin(p)
      BY <2>1 DEF SignalAnswered, DeletionAnswered, Deletions, readsStdin
    <3>. QED
      BY <1>0, <2>0, <3>1
  <2>2. CASE Answered(p)
    <3>1. file' = IF readsStdin(p) THEN [file EXCEPT ![p] = gathered[p]] ELSE file
      BY <2>2 DEF Answered
    <3>. QED
      BY <1>0, <2>0, <3>1
  <2>. QED
    BY <2>1, <2>2
<1>4. /\ pc'[p] = "end" /\ exit'[p] = code /\ outcome'[p] = what
      /\ \A q \in Processes \ {p} : pc'[q] = pc[q] /\ exit'[q] = exit[q] /\ outcome'[q] = outcome[q]
  BY <1>10 DEF TypeOK, Exit
<1>5. TypeOK'
  <2>1. pc' \in [Processes -> Places] /\ exit' \in [Processes -> Int] /\ DOMAIN outcome' = Processes
    BY <1>10 DEF TypeOK, Places, Exit
  <2>. QED
    BY <1>2, <1>3, <2>1 DEF TypeOK, Processes, configVars, stdinVars, poolVars
<1>6. \A q \in Processes \ {p} : Self(q)' = Self(q)
  BY <1>2, <1>3, <1>4 DEF Self, configVars, stdinVars, poolVars
<1>7. readsStdin(p) => gathered[p] = sent[p] /\ ~open[p]
  BY <1>2 DEF CliInv, Reads
<1>8. StoredWhole(p)' /\ Reads(p)'
  BY <1>2, <1>3, <1>4, <1>7 DEF StoredWhole, Reads, stdinVars
<1>9. TellsTheTruth(p)'
  <2>1. readsStdin(p) => file'[p] # Unwritten
    BY <1>3 DEF TypeOK, Unwritten
  <2>2. (readsStdin(p)' <=> readsStdin(p)) /\ op(p)' = op(p) /\ call' = call
    BY <1>2, Fixed
  <2>. QED
    BY <1>10, <1>4, <2>1, <2>2 DEF TellsTheTruth
<1>. QED
  BY <1>2, <1>4, <1>5, <1>6, <1>8, <1>9, AskStep

-----------------------------------------------------------------------------
(* The pool of commitments.  Only who adds a commitment reads or replaces  *)
(* it, and who is in it, or was read in it, has ended.                     *)
LEMMA CommitStep ==
    ASSUME TypeOK, CliInv, NEW p \in Processes,
           UNCHANGED <<script, call, configVars, target, stdinVars, file>>,
           pc[p] \in {"request", "patch"}, op(p) = "addPoolCommitment",
           pc'[p] \in {"patch", "end"},
           pc'[p] # "end" => exit'[p] = Running /\ outcome'[p] = Nothing,
           \A q \in Processes \ {p} :
               pc'[q] = pc[q] /\ exit'[q] = exit[q] /\ outcome'[q] = outcome[q] /\ read'[q] = read[q],
           exit'[p] = 0 => outcome'[p] = [Nothing EXCEPT !.performed = TRUE],
           AcknowledgedEditsAreKept', \A q \in Processes : Commits(q)'
    PROVE  CliInv'
<1>. USE DEF configVars, stdinVars
<1>1. Unreported(p)' /\ Edits(p)' /\ Reads(p)'
  BY DEF CliInv, Unreported, Edits, Reads
<1>2. \A q \in Processes \ {p} : Self(q)' = Self(q)
  BY DEF Self
<1>3. /\ \A q \in Processes : Unreported(q)' /\ Edits(q)' /\ Reads(q)'
      /\ \A k, v : Admissible(k, v) => Admissible(k, v)'
  BY <1>1, <1>2, OneMoves
<1>4. ConfigSurvives'
  BY <1>3, ConfigKept DEF CliInv
<1>5. PipedWriteIsWhole'
  BY WholeKept
<1>6. ASSUME NEW q \in Processes PROVE TellsTheTruth(q)'
  <2>1. CASE q = p
    <3>1. ~readsStdin(p)'
      BY Fixed DEF readsStdin
    <3>2. exit'[p] = 0 => /\ outcome'[p].performed = TRUE
                          /\ outcome'[p].state = Absent /\ outcome'[p].code = 0
      BY DEF Nothing
    <3>. QED
      BY <2>1, <3>1, <3>2 DEF TellsTheTruth, Absent, Null
  <2>2. CASE q # p
    <3>1. TellsTheTruth(q)
      BY DEF CliInv, ExitTellsTheTruth
    <3>. QED
      BY <2>2, <3>1, Fixed DEF TellsTheTruth, Asked
  <2>. QED
    BY <2>1, <2>2
<1>. QED
  BY <1>3, <1>4, <1>5, <1>6 DEF CliInv, ExitTellsTheTruth, Processes

LEMMA ReadPoolStep ==
    ASSUME TypeOK, CliInv, NEW p \in Processes, ReadPool(p)
    PROVE  TypeOK' /\ CliInv'
<1>. USE DEF ReadPool, Goto
<1>1. /\ pc'[p] = "patch" /\ read'[p] = pool /\ exit' = exit /\ outcome' = outcome
      /\ exit[p] = Running /\ outcome[p] = Nothing
      /\ \A q \in Processes \ {p} : pc'[q] = pc[q] /\ read'[q] = read[q]
  BY DEF TypeOK, CliInv, Unreported
<1>2. TypeOK'
  <2>1. pc' \in [Processes -> Places] /\ read' \in [Processes -> SUBSET Processes]
    BY DEF TypeOK, Places
  <2>. QED
    BY <2>1 DEF TypeOK, Processes, configVars, stdinVars
<1>3. p \notin pool
  BY DEF CliInv, Commits
<1>4. AcknowledgedEditsAreKept'
  <2>1. ASSUME NEW r \in Processes, exit[r] = 0, Asked(r), op(r) = "addPoolCommitment", r \notin pool
        PROVE  \E q \in Processes \ {r} : op(q) = "addPoolCommitment" /\ r \notin read'[q] /\ q \in pool
    <3>1. PICK q \in Processes \ {r} : op(q) = "addPoolCommitment" /\ r \notin read[q] /\ q \in pool
      BY <2>1 DEF CliInv, AcknowledgedEditsAreKept
    <3>2. q # p
      BY <1>3, <3>1
    <3>. QED
      BY <1>1, <3>1, <3>2
  <2>. QED
    BY <1>1, <2>1, Fixed DEF AcknowledgedEditsAreKept, Asked, Processes
<1>5. ASSUME NEW q \in Processes PROVE Commits(q)'
  <2>1. Commits(q) /\ (q \in read'[p] => q \in pool)
    BY <1>1 DEF CliInv
  <2>2. q \in (pool \union late \union UNION {read[r] : r \in Processes})' =>
            q \in pool \union late \union UNION {read[r] : r \in Processes}
    BY <1>1, <2>1 DEF Processes
  <2>3. q \in pool \union late \union UNION {read[r] : r \in Processes} => pc'[q] = "end"
    BY <1>1, <2>1 DEF Commits
  <2>. QED
    BY <1>1, <2>1, <2>2, <2>3, Fixed DEF Commits
<1>. QED
  BY <1>1, <1>2, <1>4, <1>5, CommitStep DEF Running

(* The commitments that p read, and its own, take the place of the pool's. *)
LEMMA Replaced ==
    ASSUME TypeOK, CliInv, NEW p \in Processes, op(p) = "addPoolCommitment",
           UNCHANGED <<script, call, target, read>>, pool' = withCommitment(p), late' \subseteq late,
           pc'[p] = "end",
           \A q \in Processes \ {p} : pc'[q] = pc[q] /\ exit'[q] = exit[q]
    PROVE  AcknowledgedEditsAreKept' /\ \A q \in Processes : Commits(q)'
<1>. USE DEF withCommitment
<1>1. AcknowledgedEditsAreKept'
  BY Fixed DEF AcknowledgedEditsAreKept, Asked, Processes
<1>2. ASSUME NEW q \in Processes PROVE Commits(q)'
  <2>1. CASE q = p
    BY <2>1, Fixed DEF Commits
  <2>2. CASE q # p
    <3>1. q \in (pool \union late \union UNION {read[r] : r \in Processes})' =>
              q \in pool \union late \union UNION {read[r] : r \in Processes}
      BY <2>2 DEF Processes
    <3>. QED
      BY <2>2, <3>1, Fixed DEF CliInv, Commits
  <2>. QED
    BY <2>1, <2>2
<1>. QED
  BY <1>1, <1>2

LEMMA PatchStep ==
    ASSUME TypeOK, CliInv, NEW p \in Processes, PatchPool(p)
    PROVE  TypeOK' /\ CliInv'
<1>. USE DEF PatchPool, Exit
<1>1. /\ pc'[p] = "end" /\ exit'[p] = 0 /\ op(p) = "addPoolCommitment"
      /\ \A q \in Processes \ {p} : pc'[q] = pc[q] /\ exit'[q] = exit[q] /\ outcome'[q] = outcome[q]
  BY DEF TypeOK, CliInv, Commits
<1>2. outcome'[p] = [Nothing EXCEPT !.performed = TRUE]
  BY DEF TypeOK, CliInv, Unreported
<1>3. TypeOK'
  <2>1. pc' \in [Processes -> Places] /\ exit' \in [Processes -> Int] /\ DOMAIN outcome' = Processes
    BY DEF TypeOK, Places
  <2>2. pool' \subseteq Processes
    BY DEF TypeOK, withCommitment
  <2>. QED
    BY <2>1, <2>2 DEF TypeOK, Processes, configVars, stdinVars
<1>4. AcknowledgedEditsAreKept' /\ \A q \in Processes : Commits(q)'
  BY <1>1, Replaced
<1>. QED
  BY <1>1, <1>2, <1>3, <1>4, CommitStep

LEMMA PatchLostStep ==
    ASSUME TypeOK, CliInv, NEW p \in Processes, PatchLost(p)
    PROVE  TypeOK' /\ CliInv'
<1>. USE DEF PatchLost, Exit, die
<1>1. /\ pc'[p] = "end" /\ exit'[p] = 1 /\ op(p) = "addPoolCommitment"
      /\ \A q \in Processes \ {p} : pc'[q] = pc[q] /\ exit'[q] = exit[q]
  BY DEF TypeOK, CliInv, Commits
<1>2. TypeOK'
  <2>1. pc' \in [Processes -> Places] /\ exit' \in [Processes -> Int] /\ late' \subseteq Processes
    BY DEF TypeOK, Places
  <2>. QED
    BY <2>1 DEF TypeOK, Processes, configVars, stdinVars
<1>3. AcknowledgedEditsAreKept'
  BY <1>1, Fixed DEF CliInv, AcknowledgedEditsAreKept, Asked, Processes
<1>4. \A q \in Processes : Commits(q)'
  BY <1>1, Fixed DEF CliInv, Commits, Processes
<1>. QED
  BY <1>1, <1>2, <1>3, <1>4, CommitStep

(* The server replaces the commitments after the client gave up.           *)
LEMMA LatePatchStep ==
    ASSUME TypeOK, CliInv, NEW p \in Processes, LatePatch(p)
    PROVE  TypeOK' /\ CliInv'
<1>. USE DEF LatePatch
<1>1. pc[p] = "end" /\ op(p) = "addPoolCommitment"
  BY DEF CliInv, Commits
<1>2. UNCHANGED <<script, pc, call, configVars, target, stdinVars, read, file, outcome, exit>>
  OBVIOUS
<1>3. TypeOK'
  <2>1. pool' \subseteq Processes /\ late' \subseteq Processes
    BY DEF TypeOK, withCommitment
  <2>. QED
    BY <1>2, <2>1 DEF TypeOK, Processes, configVars, stdinVars
<1>4. AcknowledgedEditsAreKept' /\ \A q \in Processes : Commits(q)'
  BY <1>1, Replaced
<1>. HIDE DEF LatePatch
<1>5. \A k, v : Admissible(k, v) => Admissible(k, v)'
  BY <1>2, AdmissibleKept DEF configVars
<1>6. ConfigSurvives'
  BY <1>2, <1>5, ConfigKept DEF CliInv, configVars
<1>7. PipedWriteIsWhole' /\ ExitTellsTheTruth'
  BY <1>2, WholeKept, TruthKept DEF stdinVars, Asked
<1>8. ASSUME NEW q \in Processes PROVE Unreported(q)' /\ Edits(q)' /\ Reads(q)'
  <2>1. Unreported(q) /\ Edits(q) /\ Reads(q)
    BY DEF CliInv
  <2>2. Unreported(q)' /\ Reads(q)'
    BY <1>2, <2>1, Fixed DEF Unreported, Reads, Asked, stdinVars
  <2>3. ASSUME NEW k, Admissible(k, seen[q][k]) PROVE Admissible(k, seen[q][k])'
    BY <1>2, <2>3, <1>5 DEF configVars, Admissible
  <2>4. edited(q)' = edited(q) /\ Key(q)' = Key(q)
    BY <1>2, Fixed DEF edited, configVars
  <2>5. Edits(q)'
    BY <1>2, <2>1, <2>3, <2>4 DEF Edits, configVars
  <2>. QED
    BY <2>2, <2>5
<1>. QED
  BY <1>2, <1>3, <1>4, <1>6, <1>7, <1>8 DEF CliInv, Processes

-----------------------------------------------------------------------------
LEMMA StutterStep ==
    ASSUME TypeOK, CliInv, UNCHANGED vars
    PROVE  TypeOK' /\ CliInv'
<1>1. UNCHANGED <<script, pc, call, config, seen, temp, target, sent, open, gathered, pool, read,
                  late, file, outcome, exit>>
  BY DEF vars, configVars, stdinVars, poolVars
<1>2. TypeOK'
  BY <1>1 DEF TypeOK, Processes
<1>3. \A k, v : Admissible(k, v) => Admissible(k, v)'
  BY <1>1, AdmissibleKept
<1>4. ConfigSurvives'
  BY <1>1, <1>3, ConfigKept DEF CliInv
<1>5. PipedWriteIsWhole' /\ ExitTellsTheTruth'
  BY <1>1, WholeKept, TruthKept DEF Asked
<1>6. AcknowledgedEditsAreKept' /\ \A q \in Processes : Commits(q)'
  BY <1>1, PoolKept DEF Asked, poolVars
<1>7. ASSUME NEW q \in Processes PROVE Unreported(q)' /\ Edits(q)' /\ Reads(q)'
  <2>1. Unreported(q) /\ Edits(q) /\ Reads(q)
    BY DEF CliInv
  <2>2. Unreported(q)' /\ Reads(q)'
    BY <1>1, <2>1, Fixed DEF Unreported, Reads, Asked
  <2>3. ASSUME NEW k, Admissible(k, seen[q][k]) PROVE Admissible(k, seen[q][k])'
    BY <1>1, <1>3, <2>3 DEF Admissible
  <2>4. edited(q)' = edited(q) /\ Key(q)' = Key(q)
    BY <1>1, Fixed DEF edited
  <2>5. Edits(q)'
    BY <1>1, <2>1, <2>3, <2>4 DEF Edits
  <2>. QED
    BY <2>2, <2>5
<1>. QED
  BY <1>1, <1>2, <1>4, <1>5, <1>6, <1>7 DEF CliInv, Processes

LEMMA NextStep ==
    ASSUME TypeOK, CliInv, [Next]_vars
    PROVE  TypeOK' /\ CliInv'
<1>1. CASE Next
  <2>1. PICK p \in Processes : Step(p) \/ Produce(p) \/ CloseStdin(p) \/ LatePatch(p) \/ Kill(p)
    BY <1>1 DEF Next
  <2>2. CASE Dispatch(p)
    BY <2>2, DispatchStep
  <2>3. CASE cmdConfig(p)
    BY <2>3, ConfigStep
  <2>4. CASE OpenConfig(p) \/ FillConfig(p) \/ ConfigFails(p)
    BY <2>4, WriteStep
  <2>5. CASE RenameConfig(p)
    BY <2>5, RenameStep
  <2>6. CASE Client(p)
    BY <2>6, ClientStep
  <2>7. CASE Produce(p) \/ CloseStdin(p) \/ Chunk(p)
    BY <2>7, InputStep
  <2>8. CASE RunAnswered(p)
    BY <2>8, RunStep
  <2>9. CASE SignalAnswered(p) \/ DeletionAnswered(p) \/ Answered(p)
    BY <2>9, AnswerStep
  <2>10. CASE ReadPool(p)
    BY <2>10, ReadPoolStep
  <2>11. CASE PatchPool(p)
    BY <2>11, PatchStep
  <2>12. CASE PatchLost(p)
    BY <2>12, PatchLostStep
  <2>13. CASE LatePatch(p)
    BY <2>13, LatePatchStep
  <2>14. CASE Drained(p) \/ Deadline(p) \/ RequestFails(p) \/ NotFound(p) \/ Hint(p) \/ Kill(p)
    BY <2>14, MovesStep DEF Moves
  <2>. QED
    BY <2>1, <2>2, <2>3, <2>4, <2>5, <2>6, <2>7, <2>8, <2>9, <2>10, <2>11, <2>12, <2>13, <2>14
       DEF Step
<1>2. CASE UNCHANGED vars
  BY <1>2, StutterStep
<1>. QED
  BY <1>1, <1>2

-----------------------------------------------------------------------------
(* The invariant holds of every behaviour, however the processes           *)
(* interleave and wherever they are killed.                                *)
THEOREM Inductive == Spec => [](TypeOK /\ CliInv)
<1>1. Init => TypeOK /\ CliInv
  BY InitInv
<1>2. TypeOK /\ CliInv /\ [Next]_vars => (TypeOK /\ CliInv)'
  BY NextStep
<1>. QED
  BY <1>1, <1>2, PTL DEF Spec

(* A process is always at one of its places, and reads and stores no more  *)
(* than was written to its standard input.                                 *)
THEOREM TypeCorrect == Spec => []TypeOK
BY Inductive, PTL

(* Concurrent edits, failures and kills leave a readable configuration,    *)
(* in which every key holds its first value or one that a finished edit    *)
(* of it gave (writeFileConfig).                                           *)
THEOREM ConfigKeeps == Spec => []ConfigSurvives
<1>1. CliInv => ConfigSurvives
  BY DEF CliInv
<1>. QED
  BY <1>1, Inductive, PTL

(* A commitment whose command exited with 0 is in the pool, unless an edit *)
(* that had not seen it replaced the pool (addPoolCommitment).             *)
THEOREM EditsKept == Spec => []AcknowledgedEditsAreKept
<1>1. CliInv => AcknowledgedEditsAreKept
  BY DEF CliInv
<1>. QED
  BY <1>1, Inductive, PTL

(* What comes through a pipe is stored whole or not at all (cmdSync,       *)
(* readAllStdin and the deadline of the first byte).                       *)
THEOREM PipedWhole == Spec => []PipedWriteIsWhole
<1>1. CliInv => PipedWriteIsWhole
  BY DEF CliInv
<1>. QED
  BY <1>1, Inductive, PTL

(* Exit code 0 means that nothing the command reports went wrong: no run   *)
(* failed, was cancelled without a code or has another code than 0, the    *)
(* deletion was performed, the data is stored.  (runExitCode,              *)
(* printMutationResult, cmdSignal.)                                        *)
THEOREM ExitIsTrue == Spec => []ExitTellsTheTruth
<1>1. CliInv => ExitTellsTheTruth
  BY DEF CliInv
<1>. QED
  BY <1>1, Inductive, PTL

-----------------------------------------------------------------------------
(* Induction, from the least element of a set of numbers.                  *)

LEMMA Least ==
  ASSUME NEW T, T \subseteq Nat, T # {}
  PROVE  \E n \in T : \A m \in T : n <= m
<1>1. PICK n \in T : \A m \in T : ~ (<<m, n>> \in OpToRel(<, Nat))
  BY WFMin, NatLessThanWellFounded
<1>2. \A m, k \in Nat : <<m, k>> \in OpToRel(<, Nat) <=> m < k
  BY DEF OpToRel
<1>3. \A m \in T : ~(m < n)
  BY <1>1, <1>2
<1>4. \A m \in T : n <= m
  BY <1>3
<1>. QED
  BY <1>4

LEMMA Induct ==
  ASSUME NEW S, 0 \in S, \A n \in Nat : n \in S => n + 1 \in S
  PROVE  Nat \subseteq S
<1>. DEFINE T == {n \in Nat : n \notin S}
<1>1. SUFFICES ASSUME T # {} PROVE FALSE
  OBVIOUS
<1>2. PICK n \in T : \A m \in T : n <= m
  <2>1. T \subseteq Nat
    OBVIOUS
  <2>. HIDE DEF T
  <2>. QED
    BY <1>1, <2>1, Least
<1>3. n # 0 /\ n - 1 \in Nat
  OBVIOUS
<1>4. n - 1 \in S
  BY <1>2, <1>3
<1>. QED
  BY <1>3, <1>4

-----------------------------------------------------------------------------
(* How the arguments are read.                                             *)

Verbatim(s, argv, n, b) ==
    /\ ~s.active /\ s.pending = Absent
    /\ Len(s.positional) - b <= n
    /\ \A i \in b + 1..Len(s.positional) : s.positional[i] = argv[n - Len(s.positional) + i]

(* After the first n arguments: where a remote command has begun, it is    *)
(* what has been read last, and nothing can stop it any more.              *)
ReadInv(s, argv, n) ==
    /\ DOMAIN s = DOMAIN Start
    /\ s.positional \in Seq(Tokens)
    /\ s.command \in Commands \union {Absent}
    /\ s.command = Absent => s.positional = <<>>
    /\ s.result # "invocation"
    /\ s.result = "more" =>
         /\ s.command = "run" /\ Len(s.positional) > 1 => Verbatim(s, argv, n, 1)
         /\ s.command = "vms" /\ Len(s.positional) > 2 /\ s.positional[1].name = "run" =>
              Verbatim(s, argv, n, 2)

(* What one argument may change.                                           *)
Same(t, s) == t.positional = s.positional /\ t.command = s.command
ReadEffect(t, s, token) ==
    /\ DOMAIN t = DOMAIN Start
    /\ t.result = s.result \/ t.result \in {"die", "help", "version"}
    /\ \/ t = s /\ s.result # "more"
       \/ Same(t, s) /\ t.result # "more"
       \/ Same(t, s) /\ s.result = "more" /\ (s.pending # Absent \/ s.active)
       \/ /\ s.command = Absent /\ t.command \in Commands
          /\ t.positional = s.positional
       \/ /\ s.result = "more" /\ s.pending = Absent /\ s.command # Absent
          /\ t = takePositional(s, token)

LEMMA ReadToken ==
    ASSUME NEW s, DOMAIN s = DOMAIN Start, NEW token
    PROVE  ReadEffect(readToken(s, token), s, token)
<1>. DEFINE t == readToken(s, token)
<1>1. DOMAIN Start = {"command", "positional", "flags", "active", "pending", "result"}
  BY DEF Start
<1>2. DOMAIN Die(s) = DOMAIN Start /\ Same(Die(s), s) /\ Die(s).result = "die"
  BY <1>1 DEF Die, Same
<1>3. \A name, value : LET r == setFlag(s, name, value)
                       IN  /\ DOMAIN r = DOMAIN Start /\ Same(r, s)
                           /\ r.result \in {s.result, "die"}
  BY <1>1, <1>2 DEF setFlag, Same
<1>4. LET r == parseOption(s, token)
      IN  DOMAIN r = DOMAIN Start /\ Same(r, s) /\ r.result \in {s.result, "die"}
  <2>1. CASE parseOption(s, token) = Die(s)
    BY <1>2, <2>1
  <2>2. CASE parseOption(s, token) = setFlag(s, token.name, token.value)
    BY <1>3, <2>2
  <2>3. CASE \E v : parseOption(s, token) = [s EXCEPT !.flags = v]
    BY <1>1, <2>3 DEF Same
  <2>4. CASE \E v : parseOption(s, token) = [s EXCEPT !.pending = v]
    BY <1>1, <2>4 DEF Same
  <2>. QED
    BY <2>1, <2>2, <2>3, <2>4 DEF parseOption
<1>5. CASE s.result # "more"
  BY <1>5 DEF readToken, ReadEffect
<1>6. CASE s.result = "more" /\ s.pending # Absent
  BY <1>3, <1>6 DEF readToken, ReadEffect
<1>7. CASE s.result = "more" /\ s.pending = Absent
  <2>1. CASE s.command = Absent /\ token \in {Option("help"), Option("version")}
    <3>1. t = [s EXCEPT !.result = token.name]
      BY <1>7, <2>1 DEF readToken
    <3>2. token.name \in {"help", "version"}
      BY <2>1 DEF Option, Token
    <3>. QED
      BY <1>1, <3>1, <3>2 DEF ReadEffect, Same
  <2>2. CASE ~(s.command = Absent /\ token \in {Option("help"), Option("version")})
    <3>1. CASE s.active /\ token.kind = "option"
      BY <1>4, <1>7, <2>2, <3>1 DEF readToken, ReadEffect
    <3>2. CASE ~(s.active /\ token.kind = "option") /\ s.command = Absent
      <4>1. t = takeCommand(s, token)
        BY <1>7, <2>2, <3>2 DEF readToken
      <4>2. CASE token.name \in Commands
        BY <1>1, <3>2, <4>1, <4>2 DEF takeCommand, ReadEffect
      <4>3. CASE token.name \notin Commands
        BY <1>2, <4>1, <4>3 DEF takeCommand, ReadEffect
      <4>. QED
        BY <4>2, <4>3
    <3>3. CASE ~(s.active /\ token.kind = "option") /\ s.command # Absent
      <4>1. CASE s.active /\ token.kind = "dashes"
        <5>1. t = [s EXCEPT !.active = FALSE]
          BY <1>7, <2>2, <3>3, <4>1 DEF readToken
        <5>. QED
          BY <1>1, <4>1, <5>1 DEF ReadEffect, Same
      <4>2. CASE ~(s.active /\ token.kind = "dashes")
        <5>1. t = takePositional(s, token)
          BY <1>7, <2>2, <3>3, <4>2 DEF readToken
        <5>2. DOMAIN t = DOMAIN Start /\ t.result = s.result
          BY <1>1, <5>1 DEF takePositional
        <5>. QED
          BY <1>7, <3>3, <5>1, <5>2 DEF ReadEffect
      <4>. QED
        BY <4>1, <4>2
    <3>. QED
      BY <3>1, <3>2, <3>3
  <2>. QED
    BY <2>1, <2>2
<1>. QED
  BY <1>5, <1>6, <1>7

(* One more argument read.                                                 *)
LEMMA LongerVerbatim ==
    ASSUME NEW argv, NEW n \in Nat, NEW s, NEW b \in {1, 2},
           s.positional \in Seq(Tokens), argv[n + 1] \in Tokens,
           Len(s.positional) = b \/ (Len(s.positional) > b /\ Verbatim(s, argv, n, b)),
           NEW t, ~t.active, t.pending = Absent,
           t.positional = Append(s.positional, argv[n + 1])
    PROVE  Verbatim(t, argv, n + 1, b)
<1>. DEFINE L == Len(s.positional)
<1>1. L \in Nat /\ Len(t.positional) = L + 1
  BY AppendProperties
<1>2. /\ t.positional[L + 1] = argv[n + 1]
      /\ \A i \in 1..L : t.positional[i] = s.positional[i]
  BY AppendProperties
<1>. HIDE DEF L
<1>3. (L + 1) - b <= n + 1
  <2>1. CASE L = b
    BY <2>1
  <2>2. CASE L > b /\ L - b <= n
    BY <1>1, <2>2
  <2>. QED
    BY <2>1, <2>2 DEF Verbatim, L
<1>4. ASSUME NEW i \in b + 1..L + 1
      PROVE  t.positional[i] = argv[((n + 1) - Len(t.positional)) + i]
  <2>1. CASE i = L + 1
    <3>1. ((n + 1) - Len(t.positional)) + i = n + 1
      BY <1>1, <2>1
    <3>. QED
      BY <1>2, <2>1, <3>1
  <2>2. CASE i # L + 1
    <3>1. i \in 1..L /\ i \in b + 1..L /\ L # b
      BY <1>1, <1>4, <2>2
    <3>2. s.positional[i] = argv[n - L + i]
      BY <3>1 DEF Verbatim, L
    <3>3. ((n + 1) - Len(t.positional)) + i = n - L + i
      BY <1>1, <3>1
    <3>. QED
      BY <1>2, <3>1, <3>2, <3>3
  <2>. QED
    BY <2>1, <2>2
<1>. QED
  <2>1. Len(t.positional) - b <= n + 1
    BY <1>1, <1>3
  <2>2. \A i \in b + 1..Len(t.positional) :
            t.positional[i] = argv[((n + 1) - Len(t.positional)) + i]
    BY <1>1, <1>4
  <2>. QED
    BY <2>1, <2>2 DEF Verbatim

LEMMA ReadStep ==
    ASSUME NEW argv, NEW n \in Nat, argv[n + 1] \in Tokens,
           NEW s, ReadInv(s, argv, n), NEW t, ReadEffect(t, s, argv[n + 1])
    PROVE  ReadInv(t, argv, n + 1)
<1>. DEFINE token == argv[n + 1]
            L == Len(s.positional)
<1>1. /\ DOMAIN s = DOMAIN Start
      /\ DOMAIN t = DOMAIN Start
      /\ s.positional \in Seq(Tokens)
      /\ s.command \in Commands \union {Absent}
      /\ s.command = Absent => s.positional = <<>>
      /\ t.result # "invocation"
  BY DEF ReadInv, ReadEffect
<1>2. L \in Nat /\ (s.positional = <<>> => L = 0)
  BY <1>1
<1>3. CASE t = s /\ s.result # "more"
  BY <1>1, <1>3 DEF ReadInv
<1>4. CASE Same(t, s) /\ t.result # "more"
  BY <1>1, <1>4 DEF ReadInv, Same
<1>5. CASE Same(t, s) /\ s.result = "more" /\ (s.pending # Absent \/ s.active)
  <2>1. /\ ~(s.command = "run" /\ L > 1)
        /\ ~(s.command = "vms" /\ L > 2 /\ s.positional[1].name = "run")
    BY <1>5 DEF ReadInv, Verbatim
  <2>. QED
    BY <1>1, <1>5, <2>1 DEF ReadInv, Same
<1>6. CASE s.command = Absent /\ t.command \in Commands /\ t.positional = s.positional
  <2>1. Len(t.positional) = 0 /\ t.positional \in Seq(Tokens)
    BY <1>1, <1>2, <1>6
  <2>2. t.command # Absent \/ t.positional = <<>>
    BY <1>1, <1>6
  <2>. QED
    BY <1>1, <1>6, <2>1, <2>2 DEF ReadInv
<1>7. CASE /\ s.result = "more" /\ s.pending = Absent /\ s.command # Absent
           /\ t = takePositional(s, token)
  <2>1. DOMAIN Start = {"command", "positional", "flags", "active", "pending", "result"}
    BY DEF Start
  <2>. DEFINE positional == Append(s.positional, token)
  <2>2. /\ t.positional = positional /\ t.command = s.command
        /\ t.result = s.result /\ t.pending = s.pending
        /\ t.active = (s.active /\ ~remoteBoundary(s.command, positional))
    BY <1>1, <1>7, <2>1 DEF takePositional
  <2>3. /\ positional \in Seq(Tokens) /\ Len(positional) = L + 1
        /\ L > 0 => positional[1] = s.positional[1]
    BY <1>1, <1>2, AppendProperties
  <2>. HIDE DEF positional, L, token
  <2>4. ASSUME s.command = "run", L + 1 > 1
        PROVE  Verbatim(t, argv, n + 1, 1)
    <3>1. L = 1 \/ (L > 1 /\ Verbatim(s, argv, n, 1))
      <4>1. L = 1 \/ L > 1
        BY <1>2, <2>4
      <4>2. L > 1 => Verbatim(s, argv, n, 1)
        BY <1>7, <2>4 DEF ReadInv, L
      <4>. QED
        BY <4>1, <4>2
    <3>2. remoteBoundary(s.command, positional)
      BY <1>2, <2>3, <2>4 DEF remoteBoundary
    <3>3. ~t.active /\ t.pending = Absent
      BY <1>7, <2>2, <3>2
    <3>. QED
      BY <1>1, <2>2, <3>1, <3>3, LongerVerbatim DEF L, positional, token
  <2>5. ASSUME s.command = "vms", L + 1 > 2, positional[1].name = "run"
        PROVE  Verbatim(t, argv, n + 1, 2)
    <3>1. L = 2 \/ (L > 2 /\ Verbatim(s, argv, n, 2))
      <4>1. L = 2 \/ L > 2
        BY <1>2, <2>5
      <4>2. s.positional[1].name = "run"
        <5>1. L > 0
          BY <1>2, <4>1
        <5>. QED
          BY <2>3, <2>5, <5>1
      <4>3. L > 2 => Verbatim(s, argv, n, 2)
        BY <1>7, <2>5, <4>2 DEF ReadInv, L
      <4>. QED
        BY <4>1, <4>3
    <3>2. remoteBoundary(s.command, positional)
      BY <1>2, <2>3, <2>5 DEF remoteBoundary
    <3>3. ~t.active /\ t.pending = Absent
      BY <1>7, <2>2, <3>2
    <3>. QED
      BY <1>1, <2>2, <3>1, <3>3, LongerVerbatim DEF L, positional, token
  <2>. QED
    BY <1>1, <1>7, <2>2, <2>3, <2>4, <2>5 DEF ReadInv
<1>. QED
  BY <1>3, <1>4, <1>5, <1>6, <1>7 DEF ReadEffect

(* The loop of the reader: what is known after each argument.              *)
Reading(h, argv, n) ==
    \A k \in 0..n : h[k] = IF k = 0 THEN Start ELSE readToken(h[k - 1], argv[k])
ReadsUpTo(argv, n) == \E h : h = [k \in 0..n |-> h[k]] /\ Reading(h, argv, n)

LEMMA ReadLoop ==
    ASSUME NEW argv, NEW N \in Nat
    PROVE  ReadsUpTo(argv, N)
<1>. DEFINE S == {n \in Nat : ReadsUpTo(argv, n)}
<1>1. 0 \in S
  <2>. DEFINE h == [k \in 0..0 |-> Start]
  <2>1. h = [k \in 0..0 |-> h[k]] /\ Reading(h, argv, 0)
    BY DEF Reading
  <2>. HIDE DEF h
  <2>. QED
    BY <2>1 DEF ReadsUpTo
<1>2. ASSUME NEW n \in Nat, n \in S
      PROVE  n + 1 \in S
  <2>1. PICK h : h = [k \in 0..n |-> h[k]] /\ Reading(h, argv, n)
    BY <1>2 DEF ReadsUpTo
  <2>. DEFINE next == readToken(h[n], argv[n + 1])
              g == [k \in 0..n + 1 |-> IF k = n + 1 THEN next ELSE h[k]]
  <2>2. g = [k \in 0..n + 1 |-> g[k]]
    OBVIOUS
  <2>3. g[n + 1] = next /\ \A k \in 0..n : g[k] = h[k]
    <3>1. n + 1 \in 0..n + 1 /\ \A k \in 0..n : k \in 0..n + 1 /\ k # n + 1
      OBVIOUS
    <3>. HIDE DEF next
    <3>. QED
      BY <3>1
  <2>. HIDE DEF g
  <2>4. Reading(g, argv, n + 1)
    <3>1. SUFFICES ASSUME NEW k \in 0..n + 1
                   PROVE  g[k] = IF k = 0 THEN Start ELSE readToken(g[k - 1], argv[k])
      BY DEF Reading
    <3>2. CASE k = n + 1
      <4>1. n \in 0..n /\ (n + 1) - 1 = n /\ n + 1 # 0
        OBVIOUS
      <4>. QED
        BY <2>3, <3>2, <4>1
    <3>3. CASE k \in 0..n
      <4>1. g[k] = h[k] /\ (k # 0 => g[k - 1] = h[k - 1])
        BY <2>3, <3>3
      <4>. QED
        BY <2>1, <3>3, <4>1 DEF Reading
    <3>. QED
      BY <3>2, <3>3
  <2>. QED
    BY <2>2, <2>4 DEF ReadsUpTo
<1>3. Nat \subseteq S
  <2>. HIDE DEF S
  <2>. QED
    BY <1>1, <1>2, Induct
<1>. QED
  BY <1>3

LEMMA ParseLoop ==
    ASSUME NEW argv, Len(argv) \in Nat
    PROVE  \E f : /\ Reading(f, argv, Len(argv))
                  /\ parseInvocation(argv) = Invocation(f[Len(argv)])
<1>. DEFINE N == Len(argv)
            IsLoop(h) == h = [k \in 0..N |-> IF k = 0 THEN Start ELSE readToken(h[k - 1], argv[k])]
            f == CHOOSE h : IsLoop(h)
<1>1. \E h : IsLoop(h)
  <2>1. PICK h : h = [k \in 0..N |-> h[k]] /\ Reading(h, argv, N)
    BY ReadLoop DEF ReadsUpTo
  <2>2. IsLoop(h)
    BY <2>1 DEF Reading
  <2>. QED
    BY <2>2
<1>2. \A k \in 0..N : f[k] = IF k = 0 THEN Start ELSE readToken(f[k - 1], argv[k])
  BY <1>1
<1>3. parseInvocation(argv) = Invocation(f[N])
  BY DEF parseInvocation
<1>. HIDE DEF f
<1>. QED
  BY <1>2, <1>3 DEF Reading

-----------------------------------------------------------------------------
(* Tables: which names they have, and what they map them to.               *)

LEMMA JoinNames ==
    ASSUME NEW f, NEW g, NEW x
    PROVE  x \in DOMAIN (f @@ g) <=> x \in DOMAIN f \/ x \in DOMAIN g
<1>1. DOMAIN Join(f, g) = DOMAIN f \union DOMAIN g
  BY DEF Join
<1>. QED
  BY <1>1 DEF @@

LEMMA OfNames ==
    ASSUME NEW names, NEW v, NEW x
    PROVE  x \in DOMAIN Of(names, v) <=> x \in names
  BY DEF Of

LEMMA EntryNames ==
    ASSUME NEW k, NEW v, NEW x
    PROVE  x \in DOMAIN (k :> v) <=> x = k
  BY DEF :>

Maps(f, x, v) == x \in DOMAIN f /\ f[x] = v

LEMMA JoinMaps ==
    ASSUME NEW f, NEW g, NEW x, NEW v
    PROVE  Maps(f @@ g, x, v) <=> Maps(f, x, v) \/ (x \notin DOMAIN f /\ Maps(g, x, v))
<1>1. x \in DOMAIN (f @@ g) <=> x \in DOMAIN f \/ x \in DOMAIN g
  BY JoinNames
<1>2. x \in DOMAIN f \/ x \in DOMAIN g => Join(f, g)[x] = IF x \in DOMAIN f THEN f[x] ELSE g[x]
  BY DEF Join
<1>3. x \in DOMAIN f \/ x \in DOMAIN g => (f @@ g)[x] = IF x \in DOMAIN f THEN f[x] ELSE g[x]
  BY <1>2 DEF @@
<1>. QED
  BY <1>1, <1>3 DEF Maps

LEMMA OfMaps ==
    ASSUME NEW names, NEW w, NEW x, NEW v
    PROVE  Maps(Of(names, w), x, v) <=> x \in names /\ v = w
  BY DEF Maps, Of

LEMMA EntryMaps ==
    ASSUME NEW k, NEW w, NEW x, NEW v
    PROVE  Maps(k :> w, x, v) <=> x = k /\ v = w
  BY DEF Maps, :>

-----------------------------------------------------------------------------
(* What has been read as a flag is an option of the command, with a value  *)
(* that the option accepts, or one of the options of every command.        *)
Taken(s, f) ==
    \/ f \in DOMAIN GlobalOptions
    \/ /\ s.command # Absent /\ f \in DOMAIN Specs(s)
       /\ Specs(s)[f].takes = "boolean" \/ Accepts(Specs(s)[f], s.flags[f])
FlagsInv(s) ==
    /\ s.pending # Absent => s.pending \in DOMAIN Specs(s)
    /\ \A f \in DOMAIN s.flags : Taken(s, f)

LEMMA FlagsKept ==
    ASSUME NEW s, NEW t, FlagsInv(s), t.command = s.command, t.flags = s.flags,
           t.pending = s.pending \/ t.pending \in DOMAIN Specs(s)
    PROVE  FlagsInv(t)
<1>1. Specs(t) = Specs(s)
  BY DEF Specs
<1>2. \A f : Taken(t, f) <=> Taken(s, f)
  BY <1>1 DEF Taken
<1>. QED
  BY <1>1, <1>2 DEF FlagsInv

(* One more flag.                                                          *)
LEMMA FlagTaken ==
    ASSUME NEW s, NEW t, FlagsInv(s), NEW name \in DOMAIN Specs(s), NEW value,
           t.command = s.command, t.flags = name :> value @@ s.flags,
           t.pending \in {Absent, s.pending},
           Specs(s)[name].takes = "boolean" \/ Accepts(Specs(s)[name], value)
    PROVE  FlagsInv(t)
<1>1. Specs(t) = Specs(s)
  BY DEF Specs
<1>2. /\ \A f : f \in DOMAIN t.flags <=> f = name \/ f \in DOMAIN s.flags
      /\ t.flags[name] = value
      /\ \A f \in DOMAIN s.flags : f # name => t.flags[f] = s.flags[f]
  <2>. DEFINE entry == name :> value
  <2>1. \A f : f \in DOMAIN entry <=> f = name
    BY EntryNames
  <2>2. Maps(entry, name, value)
    BY EntryMaps
  <2>3. t.flags = entry @@ s.flags
    OBVIOUS
  <2>. HIDE DEF entry
  <2>4. Maps(t.flags, name, value)
    BY <2>2, <2>3, JoinMaps
  <2>5. \A f \in DOMAIN s.flags : f # name => Maps(t.flags, f, s.flags[f])
    <3>1. ASSUME NEW f \in DOMAIN s.flags, f # name PROVE Maps(entry @@ s.flags, f, s.flags[f])
      <4>1. f \notin DOMAIN entry /\ Maps(s.flags, f, s.flags[f])
        BY <2>1, <3>1 DEF Maps
      <4>. QED
        BY <4>1, JoinMaps
    <3>. QED
      BY <2>3, <3>1
  <2>6. \A f : f \in DOMAIN t.flags <=> f = name \/ f \in DOMAIN s.flags
    BY <2>1, <2>3, JoinNames
  <2>. QED
    BY <2>4, <2>5, <2>6 DEF Maps
<1>3. ASSUME NEW f \in DOMAIN t.flags PROVE Taken(t, f)
  <2>1. CASE f = name
    <3>1. s.command = Absent => name \in DOMAIN GlobalOptions
      BY DEF Specs
    <3>. QED
      BY <1>1, <1>2, <2>1, <3>1 DEF Taken
  <2>2. CASE f # name
    <3>1. Taken(s, f) /\ t.flags[f] = s.flags[f]
      BY <1>2, <1>3, <2>2 DEF FlagsInv
    <3>. QED
      BY <1>1, <3>1 DEF Taken
  <2>. QED
    BY <2>1, <2>2
<1>4. t.pending # Absent => t.pending \in DOMAIN Specs(t)
  BY <1>1 DEF FlagsInv
<1>. QED
  BY <1>3, <1>4 DEF FlagsInv

(* What parseOption and readToken do keeps the flags sound.                *)
LEMMA SetFlagTaken ==
    ASSUME NEW s, DOMAIN s = DOMAIN Start, FlagsInv(s), NEW name \in DOMAIN Specs(s), NEW value
    PROVE  FlagsInv(setFlag(s, name, value))
<1>1. DOMAIN s = {"command", "positional", "flags", "active", "pending", "result"}
  BY DEF Start
<1>2. CASE Accepts(Specs(s)[name], value)
  <2>. DEFINE flags == name :> value @@ s.flags
              t == [s EXCEPT !.flags = flags, !.pending = Absent]
  <2>1. t.command = s.command /\ t.flags = flags /\ t.pending = Absent
    BY <1>1
  <2>2. setFlag(s, name, value) = t
    BY <1>2 DEF setFlag
  <2>. HIDE DEF t
  <2>3. FlagsInv(t)
    BY <1>2, <2>1, FlagTaken
  <2>. QED
    BY <2>2, <2>3
<1>3. CASE ~Accepts(Specs(s)[name], value)
  <2>1. setFlag(s, name, value) = Die(s)
    BY <1>3 DEF setFlag
  <2>2. Die(s).command = s.command /\ Die(s).flags = s.flags /\ Die(s).pending = s.pending
    BY <1>1 DEF Die
  <2>. QED
    BY <2>1, <2>2, FlagsKept
<1>. QED
  BY <1>2, <1>3

LEMMA OptionTaken ==
    ASSUME NEW s, DOMAIN s = DOMAIN Start, FlagsInv(s), NEW token
    PROVE  FlagsInv(parseOption(s, token))
<1>. SUFFICES ASSUME NEW t, t = parseOption(s, token) PROVE FlagsInv(t)
  OBVIOUS
<1>. DEFINE name == token.name
            value == booleanValue(token.value)
            flags == name :> value @@ s.flags
<1>1. DOMAIN s = {"command", "positional", "flags", "active", "pending", "result"}
  BY DEF Start
<1>2. CASE t = Die(s)
  <2>1. Die(s).command = s.command /\ Die(s).flags = s.flags /\ Die(s).pending = s.pending
    BY <1>1 DEF Die
  <2>. QED
    BY <1>2, <2>1, FlagsKept
<1>3. CASE name \in DOMAIN Specs(s) /\ t # Die(s)
  <2>1. CASE Specs(s)[name].takes = "boolean"
    <3>1. t = [s EXCEPT !.flags = flags]
      BY <1>3, <2>1 DEF parseOption
    <3>2. t.command = s.command /\ t.flags = flags /\ t.pending = s.pending
      BY <1>1, <3>1
    <3>. HIDE DEF value
    <3>. QED
      BY <1>3, <2>1, <3>2, FlagTaken
  <2>2. CASE Specs(s)[name].takes # "boolean" /\ token.value # Absent
    <3>1. t = setFlag(s, name, token.value)
      BY <1>3, <2>2 DEF parseOption
    <3>. QED
      BY <1>3, <3>1, SetFlagTaken
  <2>3. CASE Specs(s)[name].takes # "boolean" /\ token.value = Absent
    <3>1. t = [s EXCEPT !.pending = name]
      BY <1>3, <2>3 DEF parseOption
    <3>2. t.command = s.command /\ t.flags = s.flags /\ t.pending = name
      BY <1>1, <3>1
    <3>. QED
      BY <1>3, <3>2, FlagsKept
  <2>. QED
    BY <2>1, <2>2, <2>3
<1>4. name \notin DOMAIN Specs(s) => t = Die(s)
  BY DEF parseOption
<1>. QED
  BY <1>2, <1>3, <1>4

LEMMA FlagsStep ==
    ASSUME NEW s, DOMAIN s = DOMAIN Start, FlagsInv(s), NEW token
    PROVE  FlagsInv(readToken(s, token))
<1>. SUFFICES ASSUME NEW t, t = readToken(s, token) PROVE FlagsInv(t)
  OBVIOUS
<1>1. DOMAIN s = {"command", "positional", "flags", "active", "pending", "result"}
  BY DEF Start
<1>2. CASE t = s
  BY <1>2
<1>3. CASE s.pending # Absent /\ t = setFlag(s, s.pending, token.name)
  <2>1. s.pending \in DOMAIN Specs(s)
    BY <1>3 DEF FlagsInv
  <2>. QED
    BY <1>3, <2>1, SetFlagTaken
<1>4. CASE t = parseOption(s, token)
  BY <1>4, OptionTaken
<1>5. CASE \/ t = [s EXCEPT !.result = token.name]
           \/ t = [s EXCEPT !.active = FALSE]
           \/ t = takePositional(s, token)
  <2>1. t.command = s.command /\ t.flags = s.flags /\ t.pending = s.pending
    BY <1>1, <1>5 DEF takePositional
  <2>. QED
    BY <2>1, FlagsKept
<1>6. CASE s.pending = Absent /\ s.command = Absent /\ t = takeCommand(s, token)
  <2>1. CASE token.name \in Commands
    <3>1. t = [s EXCEPT !.command = token.name]
      BY <1>6, <2>1 DEF takeCommand
    <3>2. t.flags = s.flags /\ t.pending = s.pending
      BY <1>1, <3>1
    <3>3. \A f \in DOMAIN s.flags : f \in DOMAIN GlobalOptions
      BY <1>6 DEF FlagsInv, Taken
    <3>. QED
      BY <1>6, <3>2, <3>3 DEF FlagsInv, Taken
  <2>2. CASE token.name \notin Commands
    <3>1. t = Die(s)
      BY <1>6, <2>2 DEF takeCommand
    <3>2. Die(s).command = s.command /\ Die(s).flags = s.flags /\ Die(s).pending = s.pending
      BY <1>1 DEF Die
    <3>. QED
      BY <3>1, <3>2, FlagsKept
  <2>. QED
    BY <2>1, <2>2
<1>. QED
  BY <1>2, <1>3, <1>4, <1>5, <1>6 DEF readToken

(* The arguments, read to their end.                                       *)
LEMMA AllRead ==
    ASSUME NEW argv \in Seq(Tokens)
    PROVE  \E s : /\ ReadInv(s, argv, Len(argv)) /\ FlagsInv(s)
                  /\ parseInvocation(argv) = Invocation(s)
<1>. DEFINE N == Len(argv)
<1>1. N \in Nat /\ \A k \in 1..N : argv[k] \in Tokens
  BY LenProperties, ElementOfSeq
<1>2. PICK f : Reading(f, argv, N) /\ parseInvocation(argv) = Invocation(f[N])
  BY <1>1, ParseLoop
<1>. DEFINE S == {n \in Nat : n \in 0..N => ReadInv(f[n], argv, n) /\ FlagsInv(f[n])}
<1>3. 0 \in S
  <2>1. f[0] = Start
    BY <1>1, <1>2 DEF Reading
  <2>2. ReadInv(Start, argv, 0)
    BY DEF ReadInv, Start
  <2>3. FlagsInv(Start)
    BY DEF FlagsInv, Start
  <2>. QED
    BY <2>1, <2>2, <2>3
<1>4. ASSUME NEW n \in Nat, n \in S
      PROVE  n + 1 \in S
  <2>1. SUFFICES ASSUME n + 1 \in 0..N PROVE ReadInv(f[n + 1], argv, n + 1) /\ FlagsInv(f[n + 1])
    OBVIOUS
  <2>2. n \in 0..N /\ n + 1 # 0 /\ (n + 1) - 1 = n /\ n + 1 \in 1..N
    BY <1>1, <2>1
  <2>3. f[n + 1] = readToken(f[n], argv[n + 1])
    BY <1>2, <2>1, <2>2 DEF Reading
  <2>4. ReadInv(f[n], argv, n) /\ FlagsInv(f[n])
    BY <1>4, <2>2
  <2>5. DOMAIN f[n] = DOMAIN Start
    BY <2>4 DEF ReadInv
  <2>6. ReadEffect(f[n + 1], f[n], argv[n + 1])
    BY <2>3, <2>5, ReadToken
  <2>7. argv[n + 1] \in Tokens
    BY <1>1, <2>2
  <2>8. ReadInv(f[n + 1], argv, n + 1)
    BY <2>4, <2>6, <2>7, ReadStep
  <2>9. FlagsInv(f[n + 1])
    BY <2>3, <2>4, <2>5, FlagsStep
  <2>. QED
    BY <2>8, <2>9
<1>5. Nat \subseteq S
  <2>. HIDE DEF S
  <2>. QED
    BY <1>3, <1>4, Induct
<1>6. ReadInv(f[N], argv, N) /\ FlagsInv(f[N])
  BY <1>1, <1>5
<1>. QED
  BY <1>2, <1>6

-----------------------------------------------------------------------------
(* The options of the commands.                                            *)
Everywhere == {"help", "json", "provider", "region"}

LEMMA GlobalNames == \A x : x \in DOMAIN GlobalOptions <=> x \in Everywhere
  BY JoinNames, OfNames, SMT DEF GlobalOptions, Everywhere

LEMMA PaginationNames == \A x : x \in DOMAIN PaginationOptions <=> x \in {"cursor", "limit"}
  BY JoinNames, EntryNames, SMT DEF PaginationOptions

LEMMA ResourceNames ==
    \A x : x \in DOMAIN ForkResourceOptions <=> x \in {"disk-mib", "memory-mib", "vcpu", "vgpu"}
  BY JoinNames, OfNames, EntryNames, SMT DEF ForkResourceOptions

LEMMA ForkNames ==
    \A x : x \in DOMAIN ForkOptions <=> x \in Everywhere \union
      {"disk-mib", "memory-mib", "vcpu", "vgpu", "description", "queueing-timeout", "disk",
       "durable", "nestedvirt", "no-disk", "public", "context", "dockerfile", "image", "layers",
       "name", "platform", "policies-file", "pool", "pool-id", "registry-auth-file",
       "source-org-id", "source-org-name", "source-vm-id", "source-vm-name", "ssh-public-key",
       "ssh-public-keys-file"}
  BY GlobalNames, ResourceNames, JoinNames, OfNames, EntryNames, SMT DEF ForkOptions

LEMMA RunNames ==
    \A x : x \in DOMAIN RunOptions <=> x \in Everywhere \union
      {"end-symbol", "idempotency-key", "policies-file", "session-id", "queueing-timeout",
       "session-idx", "timeout", "time-to-background"}
  BY GlobalNames, JoinNames, OfNames, SMT DEF RunOptions

LEMMA VmListNames ==
    \A x : x \in DOMAIN VmListOptions <=> x \in Everywhere \union
      {"cursor", "limit", "public", "state", "created-after", "created-before", "platform",
       "source-org-id"}
  BY GlobalNames, PaginationNames, JoinNames, OfNames, EntryNames, SMT DEF VmListOptions

LEMMA RunListNames ==
    \A x : x \in DOMAIN RunListOptions <=> x \in Everywhere \union
      {"lite", "limit", "dir", "endpoint", "sort", "state", "offset", "since", "status-max",
       "status-min", "until", "actions", "completed-after", "cursor", "runtime", "search",
       "started-after", "started-before", "status", "vm", "vms"}
  BY GlobalNames, JoinNames, OfNames, EntryNames, SMT DEF RunListOptions

LEMMA PoolNames ==
    \A x :
      /\ x \in DOMAIN PoolListOptions <=> x \in Everywhere \union {"cursor", "limit"}
      /\ x \in DOMAIN PoolCreateOptions <=> x \in Everywhere \union
           {"disk-mib", "memory-mib", "vcpu", "isolation", "type", "platform", "name", "file",
            "account-id", "subnet-id", "security-group-id", "instance-type"}
      /\ x \in DOMAIN (GlobalOptions @@ "file" :> Text) <=> x \in Everywhere \union {"file"}
      /\ x \in DOMAIN (GlobalOptions @@ "clear" :> Boolean) <=> x \in Everywhere \union {"clear"}
      /\ x \in DOMAIN (GlobalOptions @@ Of({"starts-at", "ends-at"}, Text))
           <=> x \in Everywhere \union {"starts-at", "ends-at"}
  BY GlobalNames, JoinNames, OfNames, EntryNames, SMT DEF PoolListOptions, PoolCreateOptions

LEMMA OtherNames ==
    \A x :
      /\ x \in DOMAIN ApiKeyOptions <=> x \in Everywhere \union {"name", "pool-id", "vm-id"}
      /\ x \in DOMAIN UpdateOptions <=> x \in Everywhere \union
           {"disk-mib", "memory-mib", "vcpu", "vgpu", "description", "immutable", "policies-file",
            "ssh-public-key", "ssh-public-keys-file"}
      /\ x \in DOMAIN FilesystemOptions <=>
           x \in Everywhere \union {"cursor", "limit", "name", "name-prefix"}
      /\ x \in DOMAIN MountOptions <=>
           x \in Everywhere \union {"cursor", "limit", "filesystem-id", "path"}
      /\ x \in DOMAIN ShellOptions <=> x \in Everywhere \union
           {"cancel-ttl", "cols", "rows", "no-persist", "persist", "command", "cwd", "session-id",
            "source-org-id", "source-org-name", "source-vm-name", "vm-id"}
      /\ x \in DOMAIN SignalOptions <=> x \in Everywhere \union {"session-id", "session-idx"}
<1>. USE GlobalNames, PaginationNames, ResourceNames, JoinNames, OfNames, EntryNames
<1>1. \A x : x \in DOMAIN ApiKeyOptions <=> x \in Everywhere \union {"name", "pool-id", "vm-id"}
  BY SMT DEF ApiKeyOptions
<1>2. \A x : x \in DOMAIN UpdateOptions <=> x \in Everywhere \union
           {"disk-mib", "memory-mib", "vcpu", "vgpu", "description", "immutable", "policies-file",
            "ssh-public-key", "ssh-public-keys-file"}
  BY SMT DEF UpdateOptions
<1>3. \A x : x \in DOMAIN FilesystemOptions <=>
           x \in Everywhere \union {"cursor", "limit", "name", "name-prefix"}
  BY SMT DEF FilesystemOptions
<1>4. \A x : x \in DOMAIN MountOptions <=>
           x \in Everywhere \union {"cursor", "limit", "filesystem-id", "path"}
  BY SMT DEF MountOptions
<1>5. \A x : x \in DOMAIN ShellOptions <=> x \in Everywhere \union
           {"cancel-ttl", "cols", "rows", "no-persist", "persist", "command", "cwd", "session-id",
            "source-org-id", "source-org-name", "source-vm-name", "vm-id"}
  BY SMT DEF ShellOptions
<1>6. \A x : x \in DOMAIN SignalOptions <=> x \in Everywhere \union {"session-id", "session-idx"}
  BY SMT DEF SignalOptions
<1>. QED
  BY <1>1, <1>2, <1>3, <1>4, <1>5, <1>6

LEMMA SessionNames ==
    \A x :
      /\ x \in DOMAIN SessionCreateOptions <=> x \in Everywhere \union
           {"cols", "rows", "pty", "command", "cwd", "env", "env-file"}
      /\ x \in DOMAIN SessionListOptions <=> x \in Everywhere \union {"cursor", "limit", "state"}
      /\ x \in DOMAIN SessionUpdateOptions <=>
           x \in Everywhere \union {"cols", "rows", "timeout-secs"}
  BY GlobalNames, PaginationNames, JoinNames, OfNames, EntryNames, SMT
     DEF SessionCreateOptions, SessionListOptions, SessionUpdateOptions

LEMMA CommandNames ==
    \A x : x \in Commands <=> x \in
      {"delete", "rm", "whoami", "config", "regions", "list", "ls", "filesystems", "fs",
       "api-keys", "fork", "run", "runs", "mounts", "shell", "sessions", "policies", "signal",
       "pools", "sync", "sync-dir", "update", "vms"}
  BY JoinNames, OfNames, EntryNames, SMT DEF Commands, CommandOptions

LEMMA OptionsOfCommands ==
    /\ \A x \in {"delete", "rm", "whoami"} : Maps(CommandOptions, x, GlobalOptions)
    /\ \A x \in {"list", "ls"} : Maps(CommandOptions, x, VmListOptions)
    /\ Maps(CommandOptions, "regions", Of({"help", "json"}, Boolean))
    /\ Maps(CommandOptions, "fork", ForkOptions) /\ Maps(CommandOptions, "run", RunOptions)
    /\ Maps(CommandOptions, "runs", RunListOptions) /\ Maps(CommandOptions, "shell", ShellOptions)
    /\ Maps(CommandOptions, "signal", SignalOptions)
    /\ Maps(CommandOptions, "update", UpdateOptions)
    /\ Maps(CommandOptions, "sync", GlobalOptions @@ "read" :> Boolean)
    /\ Maps(CommandOptions, "sync-dir", GlobalOptions @@ "assume-empty" :> Boolean)
    /\ Maps(CommandOptions, "pools",
            PoolCreateOptions @@ PoolListOptions @@ PoolOptions("update") @@ PoolOptions("rename")
            @@ PoolOptions("add-commitment"))
  BY JoinNames, OfNames, EntryNames, JoinMaps, OfMaps, EntryMaps, SMT DEF CommandOptions

-----------------------------------------------------------------------------
(* Which command runs another.                                             *)
LEMMA NoSuchCommand ==
    "createRun" \notin Commands
  BY CommandNames

LEMMA OperationIsRun ==
    ASSUME NEW s, s.command \in Commands, Operation(s) = "createRun"
    PROVE  s.command = "run" \/ (s.command = "vms" /\ Subcommand(s) = "run")
<1>1. /\ \A sub : vmsOperation(sub) = "createRun" => sub = "run"
      /\ \A sub, n : runsOperation(sub, n) # "createRun"
      /\ \A sub : sessionsOperation(sub) # "createRun"
      /\ \A sub : mountsOperation(sub) # "createRun"
  BY DEF vmsOperation, runsOperation, sessionsOperation, mountsOperation,
         Absent, ListVmsBy, Listing, Removing
<1>2. /\ \A sub : filesystemsOperation(sub) # "createRun"
      /\ \A sub : poolsOperation(sub) # "createRun"
      /\ \A sub : apiKeysOperation(sub) # "createRun"
      /\ \A sub : policiesOperation(sub) # "createRun"
  BY DEF filesystemsOperation, poolsOperation, apiKeysOperation, policiesOperation,
         Absent, ListVmsBy, Listing, Removing
<1>. QED
  BY <1>1, <1>2, NoSuchCommand DEF Operation

-----------------------------------------------------------------------------
(* What is handed to the machine.                                          *)

(* An invocation is what its arguments were read as.                       *)
LEMMA InvocationIsRead ==
    ASSUME NEW s, DOMAIN s = DOMAIN Start, s.result # "invocation",
           Invocation(s).result = "invocation"
    PROVE  /\ s.result = "more" /\ s.command # Absent
           /\ Same(Invocation(s), s)
<1>1. DOMAIN s = {"command", "positional", "flags", "active", "pending", "result"}
  BY DEF Start
<1>. QED
  BY <1>1 DEF Invocation, Die, Same

(* The last words of two sequences.                                        *)
LEMMA SameEnd ==
    ASSUME NEW words \in Seq(Tokens), NEW argv \in Seq(Tokens), NEW b \in {1, 2},
           Len(words) <= b \/ (/\ Len(words) - b <= Len(argv)
                               /\ \A i \in b + 1..Len(words) :
                                    words[i] = argv[(Len(argv) - Len(words)) + i]),
           NEW command, command = SubSeq(words, b + 1, Len(words))
    PROVE  command = SubSeq(argv, (Len(argv) - Len(command)) + 1, Len(argv))
<1>. DEFINE L == Len(words)
            N == Len(argv)
            m == (N - (L - b)) + 1
<1>1. L \in Nat /\ N \in Nat /\ m \in Int /\ b + 1 \in Int
  BY LenProperties
<1>2. CASE L <= b
  <2>1. command = <<>> /\ Len(command) = 0
    BY <1>1, <1>2, SubSeqEmpty
  <2>2. SubSeq(argv, (N - 0) + 1, N) = <<>>
    BY <1>1, SubSeqEmpty
  <2>. QED
    BY <2>1, <2>2
<1>3. CASE L > b
  <2>1. L - b <= N /\ \A i \in b + 1..L : words[i] = argv[(N - L) + i]
    BY <1>1, <1>3
  <2>. HIDE DEF L, N
  <2>2. m \in 1..N /\ b + 1 \in 1..L
    BY <1>1, <1>3, <2>1
  <2>3. /\ \A i \in b + 1..L : words[i] \in Tokens
        /\ \A i \in m..N : argv[i] \in Tokens
    <3>1. b + 1..L \subseteq 1..Len(words) /\ m..N \subseteq 1..Len(argv)
      BY <1>1, <2>2 DEF L, N
    <3>. QED
      BY <3>1, ElementOfSeq
  <2>. HIDE DEF m
  <2>4. /\ command \in Seq(Tokens) /\ Len(command) = L - b
        /\ \A i \in 1..L - b : command[i] = words[b + i]
    <3>1. command = SubSeq(words, b + 1, L)
      BY DEF L
    <3>2. /\ command \in Seq(Tokens)
          /\ Len(command) = IF b + 1 <= L THEN L - (b + 1) + 1 ELSE 0
          /\ \A i \in 1..(L - (b + 1)) + 1 : command[i] = words[((b + 1) + i) - 1]
      BY <1>1, <2>3, <3>1, SubSeqProperties
    <3>3. L - (b + 1) + 1 = L - b /\ b + 1 <= L
      BY <1>1, <2>2
    <3>4. \A i \in 1..L - b : ((b + 1) + i) - 1 = b + i
      BY <1>1
    <3>. QED
      BY <3>2, <3>3, <3>4
  <2>. DEFINE end == SubSeq(argv, m, N)
  <2>5. /\ end \in Seq(Tokens) /\ Len(end) = L - b
        /\ \A i \in 1..L - b : end[i] = argv[(m + i) - 1]
    <3>1. /\ end \in Seq(Tokens)
          /\ Len(end) = IF m <= N THEN N - m + 1 ELSE 0
          /\ \A i \in 1..(N - m) + 1 : end[i] = argv[(m + i) - 1]
      BY <1>1, <2>3, SubSeqProperties
    <3>2. N - m + 1 = L - b /\ m <= N
      BY <1>1, <2>2 DEF m
    <3>. HIDE DEF end
    <3>. QED
      BY <3>1, <3>2
  <2>6. \A i \in 1..L - b : command[i] = end[i]
    <3>1. SUFFICES ASSUME NEW i \in 1..L - b PROVE words[b + i] = argv[(m + i) - 1]
      BY <2>4, <2>5
    <3>2. b + i \in b + 1..L /\ (N - L) + (b + i) = (m + i) - 1
      BY <1>1 DEF m
    <3>. QED
      BY <2>1, <3>2
  <2>7. command = end
    <3>. HIDE DEF end
    <3>. QED
      BY <2>4, <2>5, <2>6, SeqEqual
  <2>8. m = (N - Len(command)) + 1
    BY <2>4 DEF m
  <2>. QED
    BY <2>7, <2>8 DEF N
<1>4. L <= b \/ L > b
  BY <1>1
<1>. HIDE DEF L
<1>. QED
  BY <1>2, <1>3, <1>4

(* A remote command, and how many arguments come before it.                *)
LEMMA RemoteWords ==
    ASSUME NEW argv \in Seq(Tokens), NEW c, c = parseInvocation(argv),
           c.result = "invocation", Operation(c) = "createRun"
    PROVE  \E b \in {1, 2} :
             /\ c.positional \in Seq(Tokens)
             /\ Len(c.positional) - Arguments(c) + 2 = b + 1
             /\ Len(c.positional) > b => Verbatim(c, argv, Len(argv), b)
<1>1. PICK s : ReadInv(s, argv, Len(argv)) /\ c = Invocation(s)
  BY AllRead
<1>2. DOMAIN s = DOMAIN Start /\ s.result # "invocation"
  BY <1>1 DEF ReadInv
<1>3. s.result = "more" /\ s.command # Absent /\ Same(c, s)
  BY <1>1, <1>2, InvocationIsRead
<1>4. c = [s EXCEPT !.result = "invocation"]
  BY <1>1, <1>2, <1>3 DEF Invocation, Die, Start
<1>5. /\ c.active = s.active /\ c.pending = s.pending
      /\ c.positional = s.positional /\ c.command = s.command
  BY <1>2, <1>4 DEF Start
<1>6. c.positional \in Seq(Tokens) /\ c.command \in Commands
  BY <1>1, <1>3, <1>5 DEF ReadInv
<1>7. \A b : Verbatim(s, argv, Len(argv), b) => Verbatim(c, argv, Len(argv), b)
  BY <1>5 DEF Verbatim
<1>8. Len(c.positional) \in Nat
  BY <1>6, LenProperties
<1>9. CASE c.command = "run"
  <2>1. Arguments(c) = Len(c.positional)
    BY <1>8, <1>9 DEF Arguments, Nested
  <2>2. Len(c.positional) - Arguments(c) + 2 = 1 + 1
    BY <1>8, <2>1
  <2>3. Len(c.positional) > 1 => Verbatim(s, argv, Len(argv), 1)
    BY <1>1, <1>3, <1>5, <1>9 DEF ReadInv
  <2>. QED
    BY <1>6, <1>7, <2>2, <2>3
<1>10. CASE c.command = "vms" /\ Subcommand(c) = "run"
  <2>1. c.positional # <<>> /\ c.positional[1].name = "run"
    BY <1>10 DEF Subcommand, Absent
  <2>2. Arguments(c) = Len(c.positional) - 1
    BY <1>8, <1>10, <2>1 DEF Arguments, Nested
  <2>3. Len(c.positional) - Arguments(c) + 2 = 2 + 1
    BY <1>8, <2>2
  <2>4. Len(c.positional) > 2 => Verbatim(s, argv, Len(argv), 2)
    BY <1>1, <1>3, <1>5, <1>10, <2>1 DEF ReadInv
  <2>. QED
    BY <1>6, <1>7, <2>3, <2>4
<1>. QED
  BY <1>6, <1>9, <1>10, OperationIsRun

(* A process never changes, nor does how it was called.                    *)
Called == \A p \in Processes : call[p] = parseInvocation(script[p].argv)

LEMMA NeverRecalled ==
    ASSUME [Next]_vars
    PROVE  UNCHANGED <<script, call>>
<1>1. CASE Next
  <2>1. PICK p \in Processes : Step(p) \/ Produce(p) \/ CloseStdin(p) \/ LatePatch(p) \/ Kill(p)
    BY <1>1 DEF Next
  <2>2. CASE Dispatch(p) \/ cmdConfig(p) \/ Client(p)
    BY <2>2 DEF Dispatch, cmdConfig, Client
  <2>3. CASE OpenConfig(p) \/ FillConfig(p) \/ RenameConfig(p) \/ ConfigFails(p)
    BY <2>3 DEF OpenConfig, FillConfig, RenameConfig, ConfigFails, editing
  <2>4. CASE Produce(p) \/ CloseStdin(p) \/ Chunk(p) \/ Drained(p) \/ Deadline(p)
    BY <2>4 DEF Produce, CloseStdin, Chunk, Drained, Deadline, elsewhere
  <2>5. CASE RunAnswered(p) \/ SignalAnswered(p) \/ DeletionAnswered(p) \/ Answered(p)
    BY <2>5 DEF RunAnswered, SignalAnswered, DeletionAnswered, Answered
  <2>6. CASE ReadPool(p) \/ PatchPool(p) \/ PatchLost(p) \/ LatePatch(p)
    BY <2>6 DEF ReadPool, PatchPool, PatchLost, LatePatch
  <2>7. CASE RequestFails(p) \/ NotFound(p) \/ Hint(p) \/ Kill(p)
    BY <2>7 DEF RequestFails, NotFound, Hint, Kill, elsewhere
  <2>. QED
    BY <2>1, <2>2, <2>3, <2>4, <2>5, <2>6, <2>7 DEF Step
<1>2. CASE UNCHANGED vars
  BY <1>2 DEF vars
<1>. QED
  BY <1>1, <1>2

LEMMA CalledIsVerbatim ==
    ASSUME script \in Scripts, Called
    PROVE  RemoteCommandIsVerbatim
<1>. SUFFICES ASSUME NEW p \in Processes, call[p].result = "invocation", op(p) = "createRun"
              PROVE  LET words == call[p].positional
                         command == SubSeq(words, Len(words) - Arguments(call[p]) + 2, Len(words))
                         argv == script[p].argv
                     IN  command = SubSeq(argv, Len(argv) - Len(command) + 1, Len(argv))
  BY Zenon DEF RemoteCommandIsVerbatim
<1>. DEFINE words == call[p].positional
            command == SubSeq(words, Len(words) - Arguments(call[p]) + 2, Len(words))
            argv == script[p].argv
<1>1. argv \in Seq(Tokens)
  BY CliAssumption DEF Processes
<1>2. call[p] = parseInvocation(argv) /\ Operation(call[p]) = "createRun"
  BY DEF Called, op
<1>3. PICK b \in {1, 2} :
        /\ words \in Seq(Tokens)
        /\ Len(words) - Arguments(call[p]) + 2 = b + 1
        /\ Len(words) > b => Verbatim(call[p], argv, Len(argv), b)
  <2>. HIDE DEF argv
  <2>. QED
    BY <1>1, <1>2, RemoteWords
<1>4. command = SubSeq(words, b + 1, Len(words))
  BY <1>3
<1>5. Len(words) <= b \/ (/\ Len(words) - b <= Len(argv)
                         /\ \A i \in b + 1..Len(words) :
                              words[i] = argv[(Len(argv) - Len(words)) + i])
  <2>1. CASE Len(words) > b
    BY <1>3, <2>1 DEF Verbatim
  <2>2. CASE ~(Len(words) > b)
    <3>1. Len(words) \in Nat
      BY <1>3, LenProperties
    <3>. HIDE DEF words
    <3>2. Len(words) <= b
      BY <2>2, <3>1
    <3>. QED
      BY <3>2
  <2>. QED
    BY <2>1, <2>2
<1>6. command = SubSeq(argv, Len(argv) - Len(command) + 1, Len(argv))
  <2>. HIDE DEF words, command, argv
  <2>. QED
    BY <1>1, <1>3, <1>4, <1>5, SameEnd
<1>. QED
  BY <1>6, Zenon

(* `run` hands the machine the words from the command on exactly as they   *)
(* were written, whatever stands before and among them (parseArgs,         *)
(* remoteBoundary, joinRemoteCommand).                                     *)
THEOREM RemoteVerbatim == Spec => []RemoteCommandIsVerbatim
<1>1. Init => script \in Scripts /\ Called
  BY DEF Init, Called, Processes
<1>2. script \in Scripts /\ Called /\ [Next]_vars => (script \in Scripts /\ Called)'
  <2>1. [Next]_vars => UNCHANGED <<script, call>>
    BY NeverRecalled
  <2>. QED
    BY <2>1 DEF Called, Processes
<1>3. script \in Scripts /\ Called => RemoteCommandIsVerbatim
  BY CalledIsVerbatim
<1>. QED
  BY <1>1, <1>2, <1>3, PTL DEF Spec

-----------------------------------------------------------------------------
(* The flags that a request is made of, by its operation.                  *)
Sizes == {"disk-mib", "memory-mib", "vcpu", "vgpu"}
Sent(operation) ==
    CASE operation = "fork" -> Sizes \union
           {"description", "queueing-timeout", "disk", "durable", "nestedvirt", "no-disk", "public",
            "dockerfile", "image", "layers", "name", "platform", "policies-file", "pool", "pool-id",
            "registry-auth-file", "source-org-id", "source-org-name", "source-vm-id",
            "source-vm-name", "ssh-public-key", "ssh-public-keys-file"}
      [] operation = "createRun" ->
           {"end-symbol", "idempotency-key", "policies-file", "session-id", "queueing-timeout",
            "session-idx", "timeout", "time-to-background"}
      [] operation = "patchVm" -> Sizes \union
           {"description", "immutable", "policies-file", "ssh-public-key", "ssh-public-keys-file"}
      [] operation = "listVms" ->
           {"provider", "region", "cursor", "limit", "public", "state", "created-after",
            "created-before", "platform", "source-org-id"}
      [] operation = "listOrgRuns" ->
           {"lite", "limit", "dir", "endpoint", "sort", "offset", "since", "status-max",
            "status-min", "until", "actions", "runtime", "search", "status", "vm", "vms"}
      [] operation = "listRuns" ->
           {"limit", "state", "completed-after", "cursor", "started-after", "started-before"}
      [] operation = "createSession" -> {"cols", "rows", "pty", "command", "cwd", "env", "env-file"}
      [] operation = "listSessions" -> {"cursor", "limit", "state"}
      [] operation = "patchSession" -> {"cols", "rows", "timeout-secs"}
      [] operation = "listMounts" -> {"cursor", "limit", "filesystem-id"}
      [] operation = "createMount" -> {"filesystem-id", "path"}
      [] operation = "listFilesystems" -> {"cursor", "limit", "name-prefix"}
      [] operation = "createFilesystem" -> {"name"}
      [] operation = "listPools" -> {"cursor", "limit"}
      [] operation = "createPool" ->
           {"disk-mib", "memory-mib", "vcpu", "isolation", "type", "platform", "name",
            "account-id", "subnet-id", "security-group-id", "instance-type"}
      [] operation = "addPoolCommitment" -> {"starts-at", "ends-at"}
      [] operation = "createApiKey" -> {"name", "pool-id", "vm-id"}
      [] operation = "shell" -> {"cancel-ttl", "cols", "rows", "no-persist", "persist", "command"}
      [] operation = "signal" -> {"session-id", "session-idx"}
      [] OTHER -> {}

LEMMA KeptLocal ==
    ASSUME NEW s
    PROVE  /\ {"help", "json", "context", "read", "assume-empty", "clear", "file"}
                \subseteq Local(s)
           /\ Operation(s) # "listVms" => {"provider", "region"} \subseteq Local(s)
           /\ Operation(s) = "shell" =>
                {"cwd", "session-id", "source-org-id", "source-org-name", "source-vm-name", "vm-id"}
                  \subseteq Local(s)
  BY DEF Local

(* An invocation that was let pass has the flags of its subcommand.        *)
Validated(s) ==
    /\ s.command \in Commands \ {"config"}
    /\ s.positional \in Seq(Tokens)
    /\ DOMAIN s.flags \subseteq invocationOptions(s.command, Subcommand(s), Len(s.positional))
    /\ Operation(s) # Absent

(* Each command, subcommand by subcommand.                                 *)
LEMMA SentByVms ==
    ASSUME NEW s, Validated(s), s.command = "vms"
    PROVE  DOMAIN s.flags \ Local(s) \subseteq Sent(Operation(s))
<1>. DEFINE sub == Subcommand(s)
<1>1. Operation(s) = vmsOperation(sub)
  BY DEF Operation, Listing, Removing
<1>2. CASE sub \in ListVmsBy
  <2>1. Operation(s) = "listVms"
    BY <1>1, <1>2 DEF vmsOperation, ListVmsBy, Removing, Absent
  <2>2. DOMAIN s.flags \subseteq DOMAIN VmListOptions
    BY <1>2 DEF Validated, invocationOptions, ListVmsBy, Listing, Absent
  <2>. QED
    BY <2>1, <2>2, VmListNames, KeptLocal DEF Sent, Everywhere
<1>3. CASE sub = "fork"
  <2>1. Operation(s) = "fork"
    BY <1>1, <1>3 DEF vmsOperation, ListVmsBy, Removing, Absent
  <2>2. DOMAIN s.flags \subseteq DOMAIN ForkOptions
    BY <1>3 DEF Validated, invocationOptions, Absent, Listing
  <2>. QED
    BY <2>1, <2>2, ForkNames, KeptLocal DEF Sent, Everywhere, Sizes
<1>4. CASE sub = "run"
  <2>1. Operation(s) = "createRun"
    BY <1>1, <1>4 DEF vmsOperation, ListVmsBy, Removing, Absent
  <2>2. DOMAIN s.flags \subseteq DOMAIN RunOptions
    BY <1>4 DEF Validated, invocationOptions, Absent, Listing
  <2>. QED
    BY <2>1, <2>2, RunNames, KeptLocal DEF Sent, Everywhere
<1>5. CASE sub = "update"
  <2>1. Operation(s) = "patchVm"
    BY <1>1, <1>5 DEF vmsOperation, ListVmsBy, Removing, Absent
  <2>2. DOMAIN s.flags \subseteq DOMAIN UpdateOptions
    BY <1>5 DEF Validated, invocationOptions, Absent, Listing
  <2>. QED
    BY <2>1, <2>2, OtherNames, KeptLocal DEF Sent, Everywhere, Sizes
<1>6. CASE sub \in {"get"} \union Removing
  <2>1. Operation(s) # "listVms"
    BY <1>1, <1>6 DEF vmsOperation, ListVmsBy, Removing, Absent
  <2>2. DOMAIN s.flags \subseteq DOMAIN GlobalOptions
    BY <1>6 DEF Validated, invocationOptions, Absent, Listing, Removing
  <2>. QED
    BY <2>1, <2>2, GlobalNames, KeptLocal DEF Everywhere
<1>. QED
  BY <1>1, <1>2, <1>3, <1>4, <1>5, <1>6 DEF Validated, vmsOperation

LEMMA SentByRuns ==
    ASSUME NEW s, Validated(s), s.command = "runs"
    PROVE  DOMAIN s.flags \ Local(s) \subseteq Sent(Operation(s))
<1>. DEFINE sub == Subcommand(s)
<1>1. Operation(s) = runsOperation(sub, Arguments(s))
  BY DEF Operation, Listing, Removing
<1>2. CASE sub \in Listing
  <2>1. s.positional # <<>> /\ Len(s.positional) \in Nat \ {0}
    BY <1>2, EmptySeq, LenProperties DEF Subcommand, Listing, Absent, Validated
  <2>2. PICK length \in Nat \ {0} : length = Len(s.positional) /\ Arguments(s) = length - 1
    BY <2>1 DEF Arguments, Nested
  <2>. DEFINE arguments == Arguments(s)
  <2>3. DOMAIN s.flags \subseteq runsListOptions(Len(s.positional) > 1)
    BY <1>2 DEF Validated, invocationOptions, Absent, Listing
  <2>4. CASE Len(s.positional) > 1
    <3>1. Operation(s) = "listRuns"
      <4>1. arguments # 0
        <5>1. length > 1
          BY <2>2, <2>4
        <5>2. length - 1 # 0
          BY <5>1
        <5>. QED
          BY <2>2, <5>2
      <4>. HIDE DEF arguments, sub
      <4>2. runsOperation(sub, arguments) = "listRuns"
        BY <1>2, <4>1 DEF runsOperation, Listing
      <4>. QED
        BY <1>1, <4>2 DEF arguments, sub
    <3>2. DOMAIN s.flags \subseteq runsListOptions(TRUE)
      BY <2>3, <2>4
    <3>. QED
      BY <3>1, <3>2, RunListNames, KeptLocal DEF Sent, Everywhere, runsListOptions
  <2>5. CASE ~(Len(s.positional) > 1)
    <3>1. Operation(s) = "listOrgRuns"
      <4>1. arguments = 0
        <5>1. ~(length > 1)
          BY <2>2, <2>5
        <5>2. length - 1 = 0
          BY <5>1
        <5>. QED
          BY <2>2, <5>2
      <4>. HIDE DEF arguments, sub
      <4>2. runsOperation(sub, arguments) = "listOrgRuns"
        BY <1>2, <4>1 DEF runsOperation, Listing
      <4>. QED
        BY <1>1, <4>2 DEF arguments, sub
    <3>2. DOMAIN s.flags \subseteq DOMAIN RunListOptions
            \ {"completed-after", "cursor", "started-after", "started-before", "state"}
      BY <2>3, <2>5 DEF runsListOptions
    <3>. QED
      BY <3>1, <3>2, RunListNames, KeptLocal DEF Sent, Everywhere
  <2>. QED
    BY <2>4, <2>5
<1>3. CASE sub \in {"get", "rm", "cancel"}
  <2>1. Operation(s) # "listVms"
    BY <1>1, <1>3 DEF runsOperation, Listing
  <2>2. DOMAIN s.flags \subseteq DOMAIN GlobalOptions
    BY <1>3 DEF Validated, invocationOptions, Absent, Listing, Removing
  <2>. QED
    BY <2>1, <2>2, GlobalNames, KeptLocal DEF Everywhere
<1>. QED
  BY <1>1, <1>2, <1>3 DEF Validated, runsOperation

LEMMA SentBySessions ==
    ASSUME NEW s, Validated(s), s.command = "sessions"
    PROVE  DOMAIN s.flags \ Local(s) \subseteq Sent(Operation(s))
<1>. DEFINE sub == Subcommand(s)
<1>1. Operation(s) = sessionsOperation(sub)
  BY DEF Operation, Listing, Removing
<1>2. CASE sub \in Listing
  <2>1. Operation(s) = "listSessions"
    BY <1>1, <1>2 DEF sessionsOperation, ListVmsBy, Listing, Removing, Absent
  <2>2. DOMAIN s.flags \subseteq DOMAIN SessionListOptions
    BY <1>2 DEF Validated, invocationOptions, ListVmsBy, Listing, Removing, Absent
  <2>. QED
    BY <2>1, <2>2, SessionNames, KeptLocal DEF Sent, Everywhere
<1>3. CASE sub = "create"
  <2>1. Operation(s) = "createSession"
    BY <1>1, <1>3 DEF sessionsOperation, ListVmsBy, Listing, Removing, Absent
  <2>2. DOMAIN s.flags \subseteq DOMAIN SessionCreateOptions
    BY <1>3 DEF Validated, invocationOptions, ListVmsBy, Listing, Removing, Absent
  <2>. QED
    BY <2>1, <2>2, SessionNames, KeptLocal DEF Sent, Everywhere
<1>4. CASE sub = "update"
  <2>1. Operation(s) = "patchSession"
    BY <1>1, <1>4 DEF sessionsOperation, ListVmsBy, Listing, Removing, Absent
  <2>2. DOMAIN s.flags \subseteq DOMAIN SessionUpdateOptions
    BY <1>4 DEF Validated, invocationOptions, ListVmsBy, Listing, Removing, Absent
  <2>. QED
    BY <2>1, <2>2, SessionNames, KeptLocal DEF Sent, Everywhere
<1>5. CASE sub \in {"get"} \union Removing
  <2>1. Operation(s) # "listVms"
    BY <1>1, <1>5 DEF sessionsOperation, ListVmsBy, Listing, Removing, Absent
  <2>2. DOMAIN s.flags \subseteq DOMAIN GlobalOptions
    BY <1>5 DEF Validated, invocationOptions, ListVmsBy, Listing, Removing, Absent
  <2>. QED
    BY <2>1, <2>2, GlobalNames, KeptLocal DEF Everywhere
<1>. QED
  BY <1>1, <1>2, <1>3, <1>4, <1>5
     DEF Validated, sessionsOperation, ListVmsBy, Listing, Removing, Absent

LEMMA SentByMounts ==
    ASSUME NEW s, Validated(s), s.command = "mounts"
    PROVE  DOMAIN s.flags \ Local(s) \subseteq Sent(Operation(s))
<1>. DEFINE sub == Subcommand(s)
<1>1. Operation(s) = mountsOperation(sub)
  BY DEF Operation, Listing, Removing
<1>2. CASE sub \in Listing
  <2>1. Operation(s) = "listMounts"
    BY <1>1, <1>2 DEF mountsOperation, ListVmsBy, Listing, Removing, Absent
  <2>2. DOMAIN s.flags \subseteq DOMAIN MountOptions \ {"path"}
    BY <1>2 DEF Validated, invocationOptions, ListVmsBy, Listing, Removing, Absent
  <2>. QED
    BY <2>1, <2>2, OtherNames, KeptLocal DEF Sent, Everywhere
<1>3. CASE sub = "create"
  <2>1. Operation(s) = "createMount"
    BY <1>1, <1>3 DEF mountsOperation, ListVmsBy, Listing, Removing, Absent
  <2>2. DOMAIN s.flags \subseteq DOMAIN MountOptions \ DOMAIN PaginationOptions
    BY <1>3 DEF Validated, invocationOptions, ListVmsBy, Listing, Removing, Absent
  <2>. QED
    BY <2>1, <2>2, OtherNames, PaginationNames, KeptLocal DEF Sent, Everywhere
<1>4. CASE sub \in Removing
  <2>1. Operation(s) # "listVms"
    BY <1>1, <1>4 DEF mountsOperation, ListVmsBy, Listing, Removing, Absent
  <2>2. DOMAIN s.flags \subseteq DOMAIN GlobalOptions
    BY <1>4 DEF Validated, invocationOptions, ListVmsBy, Listing, Removing, Absent
  <2>. QED
    BY <2>1, <2>2, GlobalNames, KeptLocal DEF Everywhere
<1>. QED
  BY <1>1, <1>2, <1>3, <1>4
     DEF Validated, mountsOperation, ListVmsBy, Listing, Removing, Absent

LEMMA SentByFilesystems ==
    ASSUME NEW s, Validated(s), s.command \in {"filesystems", "fs"}
    PROVE  DOMAIN s.flags \ Local(s) \subseteq Sent(Operation(s))
<1>. DEFINE sub == Subcommand(s)
<1>1. Operation(s) = filesystemsOperation(sub)
  BY DEF Operation, Listing, Removing
<1>2. CASE sub \in ListVmsBy
  <2>1. Operation(s) = "listFilesystems"
    BY <1>1, <1>2 DEF filesystemsOperation, ListVmsBy, Listing, Removing, Absent
  <2>2. DOMAIN s.flags \subseteq DOMAIN FilesystemOptions \ {"name"}
    BY <1>2 DEF Validated, invocationOptions, ListVmsBy, Listing, Removing, Absent
  <2>. QED
    BY <2>1, <2>2, OtherNames, KeptLocal DEF Sent, Everywhere
<1>3. CASE sub = "create"
  <2>1. Operation(s) = "createFilesystem"
    BY <1>1, <1>3 DEF filesystemsOperation, ListVmsBy, Listing, Removing, Absent
  <2>2. DOMAIN s.flags \subseteq DOMAIN GlobalOptions \union {"name"}
    BY <1>3 DEF Validated, invocationOptions, ListVmsBy, Listing, Removing, Absent
  <2>. QED
    BY <2>1, <2>2, GlobalNames, KeptLocal DEF Sent, Everywhere
<1>4. CASE sub \in {"get"} \union Removing
  <2>1. Operation(s) # "listVms"
    BY <1>1, <1>4 DEF filesystemsOperation, ListVmsBy, Listing, Removing, Absent
  <2>2. DOMAIN s.flags \subseteq DOMAIN GlobalOptions
    BY <1>4 DEF Validated, invocationOptions, ListVmsBy, Listing, Removing, Absent
  <2>. QED
    BY <2>1, <2>2, GlobalNames, KeptLocal DEF Everywhere
<1>. QED
  BY <1>1, <1>2, <1>3, <1>4
     DEF Validated, filesystemsOperation, ListVmsBy, Listing, Removing, Absent

LEMMA SentByPools ==
    ASSUME NEW s, Validated(s), s.command = "pools"
    PROVE  DOMAIN s.flags \ Local(s) \subseteq Sent(Operation(s))
<1>. DEFINE sub == Subcommand(s)
<1>1. Operation(s) = poolsOperation(sub)
  BY DEF Operation, Listing, Removing
<1>2. CASE sub \in ListVmsBy
  <2>1. Operation(s) = "listPools"
    BY <1>1, <1>2 DEF poolsOperation, ListVmsBy, Listing, Removing, Absent
  <2>2. DOMAIN s.flags \subseteq DOMAIN PoolListOptions
    BY <1>2 DEF Validated, invocationOptions, ListVmsBy, Listing, Removing, Absent, PoolOptions
  <2>. QED
    BY <2>1, <2>2, PoolNames, KeptLocal DEF Sent, Everywhere
<1>3. CASE sub = "create"
  <2>1. Operation(s) = "createPool"
    BY <1>1, <1>3 DEF poolsOperation, ListVmsBy, Listing, Removing, Absent
  <2>2. DOMAIN s.flags \subseteq DOMAIN PoolCreateOptions
    BY <1>3 DEF Validated, invocationOptions, ListVmsBy, Listing, Removing, Absent, PoolOptions
  <2>. QED
    BY <2>1, <2>2, PoolNames, KeptLocal DEF Sent, Everywhere
<1>4. CASE sub = "update"
  <2>1. Operation(s) # "listVms"
    BY <1>1, <1>4 DEF poolsOperation, ListVmsBy, Listing, Removing, Absent
  <2>2. DOMAIN s.flags \subseteq DOMAIN (GlobalOptions @@ "file" :> Text)
    BY <1>4 DEF Validated, invocationOptions, ListVmsBy, Listing, Removing, Absent, PoolOptions
  <2>. QED
    BY <2>1, <2>2, PoolNames, KeptLocal DEF Everywhere
<1>5. CASE sub = "rename"
  <2>1. Operation(s) # "listVms"
    BY <1>1, <1>5 DEF poolsOperation, ListVmsBy, Listing, Removing, Absent
  <2>2. DOMAIN s.flags \subseteq DOMAIN (GlobalOptions @@ "clear" :> Boolean)
    BY <1>5 DEF Validated, invocationOptions, ListVmsBy, Listing, Removing, Absent, PoolOptions
  <2>. QED
    BY <2>1, <2>2, PoolNames, KeptLocal DEF Everywhere
<1>6. CASE sub = "add-commitment"
  <2>1. Operation(s) = "addPoolCommitment"
    BY <1>1, <1>6 DEF poolsOperation, ListVmsBy, Listing, Removing, Absent
  <2>2. DOMAIN s.flags \subseteq DOMAIN (GlobalOptions @@ Of({"starts-at", "ends-at"}, Text))
    BY <1>6 DEF Validated, invocationOptions, ListVmsBy, Listing, Removing, Absent, PoolOptions
  <2>. QED
    BY <2>1, <2>2, PoolNames, KeptLocal DEF Sent, Everywhere
<1>7. CASE sub \in {"get", "workers"} \union Removing
  <2>1. Operation(s) # "listVms"
    BY <1>1, <1>7 DEF poolsOperation, ListVmsBy, Listing, Removing, Absent
  <2>2. DOMAIN s.flags \subseteq DOMAIN GlobalOptions
    BY <1>7 DEF Validated, invocationOptions, ListVmsBy, Listing, Removing, Absent, PoolOptions
  <2>. QED
    BY <2>1, <2>2, GlobalNames, KeptLocal DEF Everywhere
<1>. QED
  BY <1>1, <1>2, <1>3, <1>4, <1>5, <1>6, <1>7
     DEF Validated, poolsOperation, ListVmsBy, Listing, Removing, Absent

LEMMA SentByApiKeys ==
    ASSUME NEW s, Validated(s), s.command = "api-keys"
    PROVE  DOMAIN s.flags \ Local(s) \subseteq Sent(Operation(s))
<1>. DEFINE sub == Subcommand(s)
<1>1. Operation(s) = apiKeysOperation(sub)
  BY DEF Operation, Listing, Removing
<1>2. CASE sub = "create"
  <2>1. Operation(s) = "createApiKey"
    BY <1>1, <1>2 DEF apiKeysOperation, ListVmsBy, Listing, Removing, Absent
  <2>2. DOMAIN s.flags \subseteq DOMAIN ApiKeyOptions
    BY <1>2 DEF Validated, invocationOptions, ListVmsBy, Listing, Removing, Absent
  <2>. QED
    BY <2>1, <2>2, OtherNames, KeptLocal DEF Sent, Everywhere
<1>3. CASE sub \in ListVmsBy \union Removing
  <2>1. Operation(s) # "listVms"
    BY <1>1, <1>3 DEF apiKeysOperation, ListVmsBy, Listing, Removing, Absent
  <2>2. DOMAIN s.flags \subseteq DOMAIN GlobalOptions
    BY <1>3 DEF Validated, invocationOptions, ListVmsBy, Listing, Removing, Absent
  <2>. QED
    BY <2>1, <2>2, GlobalNames, KeptLocal DEF Everywhere
<1>. QED
  BY <1>1, <1>2, <1>3
     DEF Validated, apiKeysOperation, ListVmsBy, Listing, Removing, Absent

LEMMA SentByPolicies ==
    ASSUME NEW s, Validated(s), s.command = "policies"
    PROVE  DOMAIN s.flags \ Local(s) \subseteq Sent(Operation(s))
<1>. DEFINE sub == Subcommand(s)
<1>1. Operation(s) = policiesOperation(sub)
  BY DEF Operation, Listing, Removing
<1>2. CASE sub = "set"
  <2>1. Operation(s) # "listVms"
    BY <1>1, <1>2 DEF policiesOperation, ListVmsBy, Listing, Removing, Absent
  <2>2. DOMAIN s.flags \subseteq DOMAIN GlobalOptions \union {"file"}
    BY <1>2 DEF Validated, invocationOptions, ListVmsBy, Listing, Removing, Absent
  <2>. QED
    BY <2>1, <2>2, GlobalNames, KeptLocal DEF Everywhere
<1>3. CASE sub \in {Absent, "get"}
  <2>1. Operation(s) # "listVms"
    BY <1>1, <1>3 DEF policiesOperation, ListVmsBy, Listing, Removing, Absent
  <2>2. DOMAIN s.flags \subseteq DOMAIN GlobalOptions
    BY <1>3 DEF Validated, invocationOptions, ListVmsBy, Listing, Removing, Absent
  <2>. QED
    BY <2>1, <2>2, GlobalNames, KeptLocal DEF Everywhere
<1>. QED
  BY <1>1, <1>2, <1>3
     DEF Validated, policiesOperation, ListVmsBy, Listing, Removing, Absent

LEMMA SentByFlat ==
    ASSUME NEW s, Validated(s),
           s.command \notin {"vms", "runs", "sessions", "mounts", "filesystems", "fs", "pools",
                                "api-keys", "policies"}
    PROVE  DOMAIN s.flags \ Local(s) \subseteq Sent(Operation(s))
<1>1. /\ DOMAIN s.flags \subseteq DOMAIN CommandOptions[s.command]
      /\ s.command \in Commands \ {"config"}
  BY DEF Validated, invocationOptions
<1>2. CASE s.command \in Listing
  <2>1. Operation(s) = "listVms"
    BY <1>2 DEF Operation, Listing, Removing
  <2>2. CommandOptions[s.command] = VmListOptions
    BY <1>2, OptionsOfCommands DEF Maps, Listing, Removing
  <2>. QED
    BY <1>1, <2>1, <2>2, VmListNames, KeptLocal DEF Sent, Everywhere
<1>3. CASE s.command \in {"whoami"} \union Removing
  <2>1. Operation(s) # "listVms"
    BY <1>3 DEF Operation, Listing, Removing
  <2>2. CommandOptions[s.command] = GlobalOptions
    BY <1>3, OptionsOfCommands DEF Maps, Listing, Removing
  <2>. QED
    BY <1>1, <2>1, <2>2, GlobalNames, KeptLocal DEF Everywhere
<1>4. CASE s.command = "regions"
  <2>1. Operation(s) # "listVms"
    BY <1>4 DEF Operation, Listing, Removing
  <2>2. CommandOptions[s.command] = Of({"help", "json"}, Boolean)
    BY <1>4, OptionsOfCommands DEF Maps, Listing, Removing
  <2>. QED
    BY <1>1, <2>1, <2>2, OfNames, KeptLocal DEF Everywhere
<1>5. CASE s.command = "fork"
  <2>1. Operation(s) = "fork"
    BY <1>5 DEF Operation, Listing, Removing
  <2>2. CommandOptions[s.command] = ForkOptions
    BY <1>5, OptionsOfCommands DEF Maps, Listing, Removing
  <2>. QED
    BY <1>1, <2>1, <2>2, ForkNames, KeptLocal DEF Sent, Everywhere, Sizes
<1>6. CASE s.command = "run"
  <2>1. Operation(s) = "createRun"
    BY <1>6 DEF Operation, Listing, Removing
  <2>2. CommandOptions[s.command] = RunOptions
    BY <1>6, OptionsOfCommands DEF Maps, Listing, Removing
  <2>. QED
    BY <1>1, <2>1, <2>2, RunNames, KeptLocal DEF Sent, Everywhere
<1>7. CASE s.command = "shell"
  <2>1. Operation(s) = "shell"
    BY <1>7 DEF Operation, Listing, Removing
  <2>2. CommandOptions[s.command] = ShellOptions
    BY <1>7, OptionsOfCommands DEF Maps, Listing, Removing
  <2>. QED
    BY <1>1, <2>1, <2>2, OtherNames, KeptLocal DEF Sent, Everywhere
<1>8. CASE s.command = "signal"
  <2>1. Operation(s) = "signal"
    BY <1>8 DEF Operation, Listing, Removing
  <2>2. CommandOptions[s.command] = SignalOptions
    BY <1>8, OptionsOfCommands DEF Maps, Listing, Removing
  <2>. QED
    BY <1>1, <2>1, <2>2, OtherNames, KeptLocal DEF Sent, Everywhere
<1>9. CASE s.command = "update"
  <2>1. Operation(s) = "patchVm"
    BY <1>9 DEF Operation, Listing, Removing
  <2>2. CommandOptions[s.command] = UpdateOptions
    BY <1>9, OptionsOfCommands DEF Maps, Listing, Removing
  <2>. QED
    BY <1>1, <2>1, <2>2, OtherNames, KeptLocal DEF Sent, Everywhere, Sizes
<1>10. CASE s.command = "sync"
  <2>1. Operation(s) # "listVms"
    BY <1>10 DEF Operation, Listing, Removing
  <2>2. CommandOptions[s.command] = GlobalOptions @@ "read" :> Boolean
    BY <1>10, OptionsOfCommands DEF Maps, Listing, Removing
  <2>. QED
    BY <1>1, <2>1, <2>2, GlobalNames, JoinNames, EntryNames, KeptLocal DEF Everywhere
<1>11. CASE s.command = "sync-dir"
  <2>1. Operation(s) # "listVms"
    BY <1>11 DEF Operation, Listing, Removing
  <2>2. CommandOptions[s.command] = GlobalOptions @@ "assume-empty" :> Boolean
    BY <1>11, OptionsOfCommands DEF Maps, Listing, Removing
  <2>. QED
    BY <1>1, <2>1, <2>2, GlobalNames, JoinNames, EntryNames, KeptLocal DEF Everywhere
<1>. QED
  BY <1>1, <1>2, <1>3, <1>4, <1>5, <1>6, <1>7, <1>8, <1>9, <1>10, <1>11, CommandNames
     DEF Listing, Removing

(* What an invocation sends, its operation may send.                       *)
LEMMA SentFlags ==
    ASSUME NEW s, Validated(s)
    PROVE  DOMAIN s.flags \ Local(s) \subseteq Sent(Operation(s))
  BY SentByVms, SentByRuns, SentBySessions, SentByMounts, SentByFilesystems, SentByPools,
     SentByApiKeys, SentByPolicies, SentByFlat

-----------------------------------------------------------------------------
(* The fields that the flags become.                                       *)
CommonFlags ==
    {"ssh-public-key", "ssh-public-keys-file", "policies-file", "env", "env-file",
     "registry-auth-file"}
SnakeFlags ==
    {"source-vm-id", "source-vm-name", "pool-id", "source-org-id", "source-org-name",
     "queueing-timeout", "session-id", "session-idx", "end-symbol", "time-to-background",
     "created-after", "created-before", "started-after", "started-before", "completed-after",
     "status-min", "status-max", "timeout-secs", "filesystem-id", "name-prefix",
     "idempotency-key"}

LEMMA CommonNames == \A x : x \in DOMAIN Common <=> x \in CommonFlags
  BY JoinNames, OfNames, EntryNames, SMT DEF Common, Keys, CommonFlags

LEMMA SnakeNames == \A x : x \in DOMAIN Snake <=> x \in SnakeFlags
  BY JoinNames, EntryNames, SMT DEF Snake, SnakeFlags

LEMMA CommonFields ==
    /\ Maps(Common, "ssh-public-key", "ssh_public_keys")
    /\ Maps(Common, "ssh-public-keys-file", "ssh_public_keys")
    /\ Maps(Common, "policies-file", "policies")
    /\ Maps(Common, "env", "env")
    /\ Maps(Common, "env-file", "env")
    /\ Maps(Common, "registry-auth-file", "registry_auth")
  BY JoinNames, OfNames, EntryNames, JoinMaps, OfMaps, EntryMaps, SMT DEF Common, Keys

LEMMA SnakeFields ==
    /\ Maps(Snake, "source-vm-id", "source_vm_id")
    /\ Maps(Snake, "source-vm-name", "source_vm_name")
    /\ Maps(Snake, "pool-id", "pool_id")
    /\ Maps(Snake, "source-org-id", "source_org_id")
    /\ Maps(Snake, "source-org-name", "source_org_name")
    /\ Maps(Snake, "queueing-timeout", "queueing_timeout")
    /\ Maps(Snake, "session-id", "session_id")
    /\ Maps(Snake, "session-idx", "session_idx")
    /\ Maps(Snake, "end-symbol", "end_symbol")
    /\ Maps(Snake, "time-to-background", "time_to_background")
    /\ Maps(Snake, "created-after", "created_after")
    /\ Maps(Snake, "created-before", "created_before")
    /\ Maps(Snake, "started-after", "started_after")
    /\ Maps(Snake, "started-before", "started_before")
    /\ Maps(Snake, "completed-after", "completed_after")
    /\ Maps(Snake, "status-min", "status_min")
    /\ Maps(Snake, "status-max", "status_max")
    /\ Maps(Snake, "timeout-secs", "timeout_secs")
    /\ Maps(Snake, "filesystem-id", "filesystem_id")
    /\ Maps(Snake, "name-prefix", "name_prefix")
    /\ Maps(Snake, "idempotency-key", "Idempotency-Key")
<1>. USE JoinNames, EntryNames, JoinMaps, EntryMaps DEF Snake
<1>1. /\ Maps(Snake, "source-vm-id", "source_vm_id")
      /\ Maps(Snake, "source-vm-name", "source_vm_name")
      /\ Maps(Snake, "pool-id", "pool_id")
      /\ Maps(Snake, "source-org-id", "source_org_id")
  BY SMT
<1>2. /\ Maps(Snake, "source-org-name", "source_org_name")
      /\ Maps(Snake, "queueing-timeout", "queueing_timeout")
      /\ Maps(Snake, "session-id", "session_id")
      /\ Maps(Snake, "session-idx", "session_idx")
  BY SMT
<1>3. /\ Maps(Snake, "end-symbol", "end_symbol")
      /\ Maps(Snake, "time-to-background", "time_to_background")
      /\ Maps(Snake, "created-after", "created_after")
      /\ Maps(Snake, "created-before", "created_before")
  BY SMT
<1>4. /\ Maps(Snake, "started-after", "started_after")
      /\ Maps(Snake, "started-before", "started_before")
      /\ Maps(Snake, "completed-after", "completed_after")
      /\ Maps(Snake, "status-min", "status_min")
  BY SMT
<1>5. /\ Maps(Snake, "status-max", "status_max")
      /\ Maps(Snake, "timeout-secs", "timeout_secs")
      /\ Maps(Snake, "filesystem-id", "filesystem_id")
      /\ Maps(Snake, "name-prefix", "name_prefix")
  BY SMT
<1>6. /\ Maps(Snake, "idempotency-key", "Idempotency-Key")
  BY SMT
<1>. QED
  BY ONLY <1>1, <1>2, <1>3, <1>4, <1>5, <1>6

(* A flag whose operation has no exception for it becomes the field that   *)
(* the common names give it, or keeps its own name.                        *)
Plain(operation, flag) ==
    /\ \A name : Maps(Common, flag, name) => fieldOf(operation, flag) = name
    /\ \A name : Maps(Snake, flag, name) /\ flag \notin DOMAIN Common =>
           fieldOf(operation, flag) = name
    /\ flag \notin CommonFlags \union SnakeFlags => fieldOf(operation, flag) = flag

LEMMA PlainField ==
    ASSUME NEW operation, NEW flag,
           operation \notin DOMAIN Renamed \/ flag \notin DOMAIN Renamed[operation]
    PROVE  Plain(operation, flag)
<1>1. fieldOf(operation, flag) =
        IF flag \in DOMAIN (Common @@ Snake) THEN (Common @@ Snake)[flag] ELSE flag
  BY DEF fieldOf
<1>2. \A name : Maps(Common @@ Snake, flag, name) => fieldOf(operation, flag) = name
  BY <1>1 DEF Maps
<1>3. \A name : Maps(Common, flag, name) => Maps(Common @@ Snake, flag, name)
  BY JoinMaps
<1>4. \A name : Maps(Snake, flag, name) /\ flag \notin DOMAIN Common =>
           Maps(Common @@ Snake, flag, name)
  BY JoinMaps
<1>5. flag \notin CommonFlags \union SnakeFlags => flag \notin DOMAIN (Common @@ Snake)
  BY CommonNames, SnakeNames, JoinNames
<1>. QED
  BY <1>1, <1>2, <1>3, <1>4, <1>5 DEF Plain

(* The exceptions that an operation makes.                                 *)
LEMMA RenamedNames ==
    \A x : x \in DOMAIN Renamed <=> x \in
      {"listVms", "patchVm", "fork", "createPool", "createApiKey", "addPoolCommitment", "shell"}
  BY JoinNames, EntryNames, SMT DEF Renamed

LEMMA ExceptField ==
    ASSUME NEW operation, NEW table, Maps(Renamed, operation, table), NEW flag, NEW name
    PROVE  /\ Maps(table, flag, name) => fieldOf(operation, flag) = name
           /\ flag \notin DOMAIN table => flag \notin DOMAIN Renamed[operation]
  BY DEF Maps, fieldOf

LEMMA RenamedTables ==
    /\ Maps(Renamed, "listVms", "source-org-id" :> "org_id")
    /\ Maps(Renamed, "patchVm", Of(Resources \union {"vgpu"}, "resources"))
    /\ Maps(Renamed, "fork",
            Of(Resources \union {"vgpu"}, "resources") @@ Of({"disk", "no-disk"}, "disk")
            @@ "pool" :> "pool_name" @@ "platform" :> "platforms" @@ "dockerfile" :> "image")
    /\ Maps(Renamed, "createPool",
            Of(Resources, "resources") @@ Of(ByocFlags \ {"isolation"}, "byoc"))
    /\ Maps(Renamed, "createApiKey", Of({"pool-id", "vm-id"}, "scopes"))
    /\ Maps(Renamed, "addPoolCommitment", Of({"starts-at", "ends-at"}, "commitments"))
    /\ Maps(Renamed, "shell", "cancel-ttl" :> "cancel_ttl_secs" @@ "no-persist" :> "persist")
  BY JoinNames, EntryNames, JoinMaps, EntryMaps, SMT DEF Renamed

(* The fields of a fork.                                                   *)
LEMMA ForkField ==
    /\ \A f \in Sizes : fieldOf("fork", f) = "resources"
    /\ \A f \in {"disk", "no-disk"} : fieldOf("fork", f) = "disk"
    /\ fieldOf("fork", "pool") = "pool_name" /\ fieldOf("fork", "platform") = "platforms"
    /\ fieldOf("fork", "dockerfile") = "image"
    /\ \A f \in {"description", "durable", "nestedvirt", "public", "image", "layers", "name"} :
         fieldOf("fork", f) = f
    /\ fieldOf("fork", "queueing-timeout") = "queueing_timeout"
    /\ fieldOf("fork", "policies-file") = "policies"
    /\ fieldOf("fork", "pool-id") = "pool_id"
    /\ fieldOf("fork", "registry-auth-file") = "registry_auth"
    /\ \A f \in Keys : fieldOf("fork", f) = "ssh_public_keys"
    /\ fieldOf("fork", "source-vm-id") = "source_vm_id"
    /\ fieldOf("fork", "source-vm-name") = "source_vm_name"
    /\ fieldOf("fork", "source-org-id") = "source_org_id"
    /\ fieldOf("fork", "source-org-name") = "source_org_name"
<1>. DEFINE table ==
       Of(Resources \union {"vgpu"}, "resources") @@ Of({"disk", "no-disk"}, "disk")
       @@ "pool" :> "pool_name" @@ "platform" :> "platforms" @@ "dockerfile" :> "image"
<1>1. Maps(Renamed, "fork", table)
  BY RenamedTables
<1>2. /\ \A f \in Sizes : Maps(table, f, "resources")
      /\ \A f \in {"disk", "no-disk"} : Maps(table, f, "disk")
      /\ Maps(table, "pool", "pool_name") /\ Maps(table, "platform", "platforms")
      /\ Maps(table, "dockerfile", "image")
  BY JoinNames, OfNames, EntryNames, JoinMaps, OfMaps, EntryMaps, SMT DEF Sizes, Resources
<1>3. \A f : f \notin Sizes \union {"disk", "no-disk", "pool", "platform", "dockerfile"} =>
           f \notin DOMAIN table
  BY JoinNames, OfNames, EntryNames, SMT DEF Sizes, Resources
<1>. HIDE DEF table
<1>4. \A f, name : Maps(table, f, name) => fieldOf("fork", f) = name
  BY <1>1, ExceptField
<1>5. \A f : f \notin DOMAIN table => f \notin DOMAIN Renamed["fork"]
  BY <1>1, ExceptField
<1>6. \A f : f \notin DOMAIN table => Plain("fork", f)
  BY <1>5, PlainField
<1>. QED
  BY <1>2, <1>3, <1>4, <1>6, CommonNames, CommonFields, SnakeFields
     DEF Plain, CommonFlags, SnakeFlags, Sizes, Keys

-----------------------------------------------------------------------------
(* The published operation of each command that sends something.           *)
AcceptedBy(operation) == (RequestOf @@ Operations)[operation].accepts

LEMMA Accepting ==
    /\ AcceptedBy("createRun") = createRun.accepts
    /\ AcceptedBy("listOrgRuns") = listOrgRuns.accepts
    /\ AcceptedBy("listRuns") = listRuns.accepts
    /\ AcceptedBy("createSession") = createSession.accepts
    /\ AcceptedBy("listSessions") = listSessions.accepts
    /\ AcceptedBy("patchSession") = patchSession.accepts
    /\ AcceptedBy("listMounts") = listMounts.accepts
    /\ AcceptedBy("createMount") = createMount.accepts
    /\ AcceptedBy("listFilesystems") = listFilesystems.accepts
    /\ AcceptedBy("createFilesystem") = createFilesystem.accepts
    /\ AcceptedBy("listPools") = listPools.accepts
    /\ AcceptedBy("signal") = controlRun.accepts
    /\ AcceptedBy("listVms") = listVms.accepts
    /\ AcceptedBy("patchVm") = patchVm.accepts
    /\ AcceptedBy("createPool") = createPool.accepts
    /\ AcceptedBy("createApiKey") = createApiKey.accepts
    /\ AcceptedBy("addPoolCommitment") = updatePool.accepts
    /\ AcceptedBy("shell") = attachSessionPty.accepts
    /\ AcceptedBy("fork") = fork.accepts
    /\ AcceptedBy("renamePool") = updatePool.accepts
<1>1. \A x : x \in DOMAIN RequestOf
              <=> x \in {"renamePool", "addPoolCommitment", "signal", "shell", "sync-dir"}
  BY JoinNames, OfNames, EntryNames, SMT DEF RequestOf
<1>2. /\ Maps(RequestOf, "renamePool", updatePool)
      /\ Maps(RequestOf, "addPoolCommitment", updatePool)
      /\ Maps(RequestOf, "signal", controlRun) /\ Maps(RequestOf, "shell", attachSessionPty)
  BY JoinNames, OfNames, EntryNames, JoinMaps, OfMaps, EntryMaps, SMT DEF RequestOf
<1>3. \A x, v : (Maps(RequestOf, x, v) \/ (x \notin DOMAIN RequestOf /\ Maps(Operations, x, v)))
           => AcceptedBy(x) = v.accepts
  <2>1. SUFFICES ASSUME NEW x, NEW v,
                        Maps(RequestOf, x, v) \/ (x \notin DOMAIN RequestOf /\ Maps(Operations, x, v))
                 PROVE  AcceptedBy(x) = v.accepts
    OBVIOUS
  <2>2. Maps(RequestOf @@ Operations, x, v)
    BY <2>1, JoinMaps
  <2>. QED
    BY <2>2 DEF AcceptedBy, Maps
<1>4. \A x, v : Maps(RequestOf, x, v) => AcceptedBy(x) = v.accepts
  BY <1>3
<1>5. \A x : x \notin DOMAIN RequestOf /\ x \in DOMAIN Operations
              => AcceptedBy(x) = Operations[x].accepts
  BY <1>3 DEF Maps
<1>6. /\ {"createRun", "listOrgRuns", "listRuns", "createSession", "listSessions",
         "patchSession", "listMounts", "createMount", "listFilesystems", "createFilesystem",
         "listPools", "listVms", "patchVm", "createPool", "createApiKey",
         "fork"}
           \subseteq DOMAIN Operations
      /\ Operations["createRun"] = createRun
      /\ Operations["listOrgRuns"] = listOrgRuns
      /\ Operations["listRuns"] = listRuns
      /\ Operations["createSession"] = createSession
      /\ Operations["listSessions"] = listSessions
      /\ Operations["patchSession"] = patchSession
      /\ Operations["listMounts"] = listMounts
      /\ Operations["createMount"] = createMount
      /\ Operations["listFilesystems"] = listFilesystems
      /\ Operations["createFilesystem"] = createFilesystem
      /\ Operations["listPools"] = listPools
      /\ Operations["listVms"] = listVms
      /\ Operations["patchVm"] = patchVm
      /\ Operations["createPool"] = createPool
      /\ Operations["createApiKey"] = createApiKey
      /\ Operations["fork"] = fork
  BY DEF Operations
<1>7. /\ AcceptedBy("renamePool") = updatePool.accepts
      /\ AcceptedBy("addPoolCommitment") = updatePool.accepts
      /\ AcceptedBy("signal") = controlRun.accepts
      /\ AcceptedBy("shell") = attachSessionPty.accepts
  BY <1>2, <1>4
<1>8. /\ AcceptedBy("createRun") = createRun.accepts
      /\ AcceptedBy("listOrgRuns") = listOrgRuns.accepts
      /\ AcceptedBy("listRuns") = listRuns.accepts
      /\ AcceptedBy("createSession") = createSession.accepts
      /\ AcceptedBy("listSessions") = listSessions.accepts
      /\ AcceptedBy("patchSession") = patchSession.accepts
      /\ AcceptedBy("listMounts") = listMounts.accepts
      /\ AcceptedBy("createMount") = createMount.accepts
      /\ AcceptedBy("listFilesystems") = listFilesystems.accepts
      /\ AcceptedBy("createFilesystem") = createFilesystem.accepts
      /\ AcceptedBy("listPools") = listPools.accepts
      /\ AcceptedBy("listVms") = listVms.accepts
      /\ AcceptedBy("patchVm") = patchVm.accepts
      /\ AcceptedBy("createPool") = createPool.accepts
      /\ AcceptedBy("createApiKey") = createApiKey.accepts
      /\ AcceptedBy("fork") = fork.accepts
  BY <1>1, <1>5, <1>6
<1>. QED
  BY <1>7, <1>8

(* Every field that a flag becomes is one that the operation accepts.      *)
PlainOperations ==
    {"createRun", "listOrgRuns", "listRuns", "createSession", "listSessions", "patchSession",
     "listMounts", "createMount", "listFilesystems", "createFilesystem", "listPools", "signal"}

LEMMA PlainAccepted ==
    ASSUME NEW operation \in PlainOperations, NEW f \in Sent(operation)
    PROVE  fieldOf(operation, f) \in AcceptedBy(operation)
<1>1. operation \notin DOMAIN Renamed
  BY RenamedNames DEF PlainOperations
<1>2. Plain(operation, f)
  BY <1>1, PlainField
<1>. USE <1>2, Accepting, CommonNames, CommonFields, SnakeFields
         DEF Plain, Sent, CommonFlags, SnakeFlags, Published
<1>3. CASE operation = "createRun"
  BY <1>3 DEF createRun, RunRequest
<1>4. CASE operation = "listOrgRuns"
  BY <1>4 DEF listOrgRuns
<1>5. CASE operation = "listRuns"
  BY <1>5 DEF listRuns, Page
<1>6. CASE operation = "createSession"
  BY <1>6 DEF createSession, CreateSessionRequest
<1>7. CASE operation = "listSessions"
  BY <1>7 DEF listSessions, Page
<1>8. CASE operation = "patchSession"
  BY <1>8 DEF patchSession, PatchSessionRequest
<1>9. CASE operation = "listMounts"
  BY <1>9 DEF listMounts, Page
<1>10. CASE operation = "createMount"
  BY <1>10 DEF createMount, MountCreateRequest
<1>11. CASE operation = "listFilesystems"
  BY <1>11 DEF listFilesystems, Page
<1>12. CASE operation = "createFilesystem"
  BY <1>12 DEF createFilesystem, FilesystemCreateRequest
<1>13. CASE operation = "listPools"
  BY <1>13 DEF listPools, Page
<1>14. CASE operation = "signal"
  BY <1>14 DEF controlRun, createRun, RunRequest
<1>. QED
  BY ONLY operation \in PlainOperations, <1>3, <1>4, <1>5, <1>6, <1>7, <1>8, <1>9, <1>10, <1>11,
          <1>12, <1>13, <1>14 DEF PlainOperations

(* The three kinds of pools.                                               *)
LEMMA PoolVariantsAre ==
    /\ \A x : x \in DOMAIN PoolVariants <=> x \in {"managed", "byoc", "self_hosted"}
    /\ PoolVariants["managed"] = CreateManagedPoolRequest
    /\ PoolVariants["byoc"] = CreateByocPoolRequest
    /\ PoolVariants["self_hosted"] = CreateSelfHostedPoolRequest
<1>1. \A x : x \in DOMAIN PoolVariants <=> x \in {"managed", "byoc", "self_hosted"}
  BY JoinNames, EntryNames, SMT DEF PoolVariants
<1>2. /\ Maps(PoolVariants, "managed", CreateManagedPoolRequest)
      /\ Maps(PoolVariants, "byoc", CreateByocPoolRequest)
      /\ Maps(PoolVariants, "self_hosted", CreateSelfHostedPoolRequest)
  BY JoinNames, EntryNames, JoinMaps, EntryMaps, SMT DEF PoolVariants
<1>. QED
  BY <1>1, <1>2 DEF Maps

LEMMA PoolRequestFields ==
    \A x : x \in CreatePoolRequest <=> x \in
      {"type", "platform", "resources", "name", "commitments", "provider", "byoc", "isolation"}
<1>1. \A x : x \in CreatePoolRequest <=>
              \E t \in DOMAIN PoolVariants :
                 x \in PoolVariants[t].requires \union PoolVariants[t].optional
  BY DEF CreatePoolRequest
<1>2. /\ CreateManagedPoolRequest.requires \union CreateManagedPoolRequest.optional
           = {"type", "platform", "resources", "name", "commitments"}
      /\ CreateByocPoolRequest.requires \union CreateByocPoolRequest.optional
           = {"type", "provider", "platform", "resources", "byoc", "name", "isolation"}
      /\ CreateSelfHostedPoolRequest.requires \union CreateSelfHostedPoolRequest.optional
           = {"type", "name", "resources"}
  BY DEF CreateManagedPoolRequest, CreateByocPoolRequest, CreateSelfHostedPoolRequest
<1>3. \A x : x \in CreatePoolRequest <=>
         \/ x \in CreateManagedPoolRequest.requires \union CreateManagedPoolRequest.optional
         \/ x \in CreateByocPoolRequest.requires \union CreateByocPoolRequest.optional
         \/ x \in CreateSelfHostedPoolRequest.requires \union CreateSelfHostedPoolRequest.optional
  BY <1>1, PoolVariantsAre
<1>. QED
  BY <1>2, <1>3

(* Operations with exceptions, one by one.                                 *)
LEMMA ListVmsAccepted ==
    ASSUME NEW f \in Sent("listVms")
    PROVE  fieldOf("listVms", f) \in AcceptedBy("listVms")
<1>. DEFINE table == "source-org-id" :> "org_id"
<1>1. Maps(Renamed, "listVms", table)
  BY RenamedTables
<1>2. \A name : Maps(table, f, name) => fieldOf("listVms", f) = name
  BY <1>1, ExceptField
<1>3. f \notin DOMAIN table => Plain("listVms", f)
  BY <1>1, ExceptField, PlainField
<1>4. AcceptedBy("listVms") = listVms.accepts
  BY Accepting
<1>5. /\ \A x \in {"source-org-id"} : Maps(table, x, "org_id")
  BY JoinNames, OfNames, EntryNames, JoinMaps, OfMaps, EntryMaps, SMT
<1>6. f \notin {"source-org-id"} => f \notin DOMAIN table
  BY JoinNames, OfNames, EntryNames, SMT
<1>. HIDE DEF table
<1>. QED
  BY <1>2, <1>3, <1>4, <1>5, <1>6, CommonNames, CommonFields, SnakeFields
     DEF Plain, Sent, CommonFlags, SnakeFlags, Published, listVms, Page

LEMMA PatchVmAccepted ==
    ASSUME NEW f \in Sent("patchVm")
    PROVE  fieldOf("patchVm", f) \in AcceptedBy("patchVm")
<1>. DEFINE table == Of(Resources \union {"vgpu"}, "resources")
<1>1. Maps(Renamed, "patchVm", table)
  BY RenamedTables
<1>2. \A name : Maps(table, f, name) => fieldOf("patchVm", f) = name
  BY <1>1, ExceptField
<1>3. f \notin DOMAIN table => Plain("patchVm", f)
  BY <1>1, ExceptField, PlainField
<1>4. AcceptedBy("patchVm") = patchVm.accepts
  BY Accepting
<1>5. /\ \A x \in {"vcpu", "memory-mib", "disk-mib", "vgpu"} : Maps(table, x, "resources")
  BY JoinNames, OfNames, EntryNames, JoinMaps, OfMaps, EntryMaps, SMT DEF Resources
<1>6. f \notin {"vcpu", "memory-mib", "disk-mib", "vgpu"} => f \notin DOMAIN table
  BY JoinNames, OfNames, EntryNames, SMT DEF Resources
<1>. HIDE DEF table
<1>. QED
  BY <1>2, <1>3, <1>4, <1>5, <1>6, CommonNames, CommonFields, SnakeFields
     DEF Plain, Sent, CommonFlags, SnakeFlags, Published, patchVm, PatchVmRequest, Sizes

LEMMA CreatePoolAccepted ==
    ASSUME NEW f \in Sent("createPool")
    PROVE  fieldOf("createPool", f) \in AcceptedBy("createPool")
<1>. DEFINE table == Of(Resources, "resources") @@ Of(ByocFlags \ {"isolation"}, "byoc")
<1>1. Maps(Renamed, "createPool", table)
  BY RenamedTables
<1>2. \A name : Maps(table, f, name) => fieldOf("createPool", f) = name
  BY <1>1, ExceptField
<1>3. f \notin DOMAIN table => Plain("createPool", f)
  BY <1>1, ExceptField, PlainField
<1>4. AcceptedBy("createPool") = createPool.accepts
  BY Accepting
<1>5. /\ \A x \in {"vcpu", "memory-mib", "disk-mib"} : Maps(table, x, "resources")
      /\ \A x \in {"account-id", "subnet-id", "security-group-id", "instance-type"} :
            Maps(table, x, "byoc")
  BY JoinNames, OfNames, EntryNames, JoinMaps, OfMaps, EntryMaps, SMT DEF Resources, ByocFlags
<1>6. f \notin {"vcpu", "memory-mib", "disk-mib", "account-id", "subnet-id", "security-group-id",
               "instance-type"} => f \notin DOMAIN table
  BY JoinNames, OfNames, EntryNames, SMT DEF Resources, ByocFlags
<1>. HIDE DEF table
<1>. QED
  BY <1>2, <1>3, <1>4, <1>5, <1>6, CommonNames, CommonFields, SnakeFields, PoolRequestFields
     DEF Plain, Sent, CommonFlags, SnakeFlags, Published, createPool

LEMMA CreateApiKeyAccepted ==
    ASSUME NEW f \in Sent("createApiKey")
    PROVE  fieldOf("createApiKey", f) \in AcceptedBy("createApiKey")
<1>. DEFINE table == Of({"pool-id", "vm-id"}, "scopes")
<1>1. Maps(Renamed, "createApiKey", table)
  BY RenamedTables
<1>2. \A name : Maps(table, f, name) => fieldOf("createApiKey", f) = name
  BY <1>1, ExceptField
<1>3. f \notin DOMAIN table => Plain("createApiKey", f)
  BY <1>1, ExceptField, PlainField
<1>4. AcceptedBy("createApiKey") = createApiKey.accepts
  BY Accepting
<1>5. /\ \A x \in {"pool-id", "vm-id"} : Maps(table, x, "scopes")
  BY JoinNames, OfNames, EntryNames, JoinMaps, OfMaps, EntryMaps, SMT
<1>6. f \notin {"pool-id", "vm-id"} => f \notin DOMAIN table
  BY JoinNames, OfNames, EntryNames, SMT
<1>. HIDE DEF table
<1>. QED
  BY <1>2, <1>3, <1>4, <1>5, <1>6, CommonNames, CommonFields, SnakeFields
     DEF Plain, Sent, CommonFlags, SnakeFlags, Published, createApiKey, CreateApiKeyRequest

LEMMA AddPoolCommitmentAccepted ==
    ASSUME NEW f \in Sent("addPoolCommitment")
    PROVE  fieldOf("addPoolCommitment", f) \in AcceptedBy("addPoolCommitment")
<1>. DEFINE table == Of({"starts-at", "ends-at"}, "commitments")
<1>1. Maps(Renamed, "addPoolCommitment", table)
  BY RenamedTables
<1>2. \A name : Maps(table, f, name) => fieldOf("addPoolCommitment", f) = name
  BY <1>1, ExceptField
<1>3. f \notin DOMAIN table => Plain("addPoolCommitment", f)
  BY <1>1, ExceptField, PlainField
<1>4. AcceptedBy("addPoolCommitment") = updatePool.accepts
  BY Accepting
<1>5. /\ \A x \in {"starts-at", "ends-at"} : Maps(table, x, "commitments")
  BY JoinNames, OfNames, EntryNames, JoinMaps, OfMaps, EntryMaps, SMT
<1>6. f \notin {"starts-at", "ends-at"} => f \notin DOMAIN table
  BY JoinNames, OfNames, EntryNames, SMT
<1>. HIDE DEF table
<1>. QED
  BY <1>2, <1>3, <1>4, <1>5, <1>6, CommonNames, CommonFields, SnakeFields
     DEF Plain, Sent, CommonFlags, SnakeFlags, Published, updatePool, UpdatePoolRequest

LEMMA ShellAccepted ==
    ASSUME NEW f \in Sent("shell")
    PROVE  fieldOf("shell", f) \in AcceptedBy("shell")
<1>. DEFINE table == "cancel-ttl" :> "cancel_ttl_secs" @@ "no-persist" :> "persist"
<1>1. Maps(Renamed, "shell", table)
  BY RenamedTables
<1>2. \A name : Maps(table, f, name) => fieldOf("shell", f) = name
  BY <1>1, ExceptField
<1>3. f \notin DOMAIN table => Plain("shell", f)
  BY <1>1, ExceptField, PlainField
<1>4. AcceptedBy("shell") = attachSessionPty.accepts
  BY Accepting
<1>5. /\ \A x \in {"cancel-ttl"} : Maps(table, x, "cancel_ttl_secs")
      /\ \A x \in {"no-persist"} : Maps(table, x, "persist")
  BY JoinNames, OfNames, EntryNames, JoinMaps, OfMaps, EntryMaps, SMT
<1>6. f \notin {"cancel-ttl", "no-persist"} => f \notin DOMAIN table
  BY JoinNames, OfNames, EntryNames, SMT
<1>. HIDE DEF table
<1>. QED
  BY <1>2, <1>3, <1>4, <1>5, <1>6, CommonNames, CommonFields, SnakeFields
     DEF Plain, Sent, CommonFlags, SnakeFlags, Published, attachSessionPty

LEMMA ForkAccepted ==
    ASSUME NEW f \in Sent("fork")
    PROVE  fieldOf("fork", f) \in AcceptedBy("fork")
<1>1. AcceptedBy("fork") = {"Idempotency-Key"} \union ForkRequest
  BY Accepting DEF fork, Published
<1>. QED
  BY <1>1, ForkField DEF Sent, ForkRequest, Sizes, Keys

LEMMA FlagsAccepted ==
    ASSUME NEW operation, NEW f \in Sent(operation)
    PROVE  fieldOf(operation, f) \in AcceptedBy(operation)
<1>1. operation \in {"fork", "createRun", "patchVm", "listVms", "listOrgRuns", "listRuns",
         "createSession", "listSessions", "patchSession", "listMounts", "createMount",
         "listFilesystems", "createFilesystem", "listPools", "createPool", "addPoolCommitment",
         "createApiKey", "shell", "signal"}
  BY SMT DEF Sent
<1>. QED
  BY <1>1, ForkAccepted, PlainAccepted, ListVmsAccepted, PatchVmAccepted, CreatePoolAccepted,
     CreateApiKeyAccepted, AddPoolCommitmentAccepted, ShellAccepted DEF PlainOperations

(* The fields that a handler sends whatever the flags.                     *)
LEMMA AlwaysAccepted ==
    ASSUME NEW s
    PROVE  Always(s) \subseteq AcceptedBy(Operation(s))
<1>1. CASE Operation(s) \in {"createRun", "signal"}
  <2>1. CASE Operation(s) = "createRun"
    BY <2>1, Accepting DEF createRun, Published, Always, RunRequest
  <2>2. CASE Operation(s) = "signal"
    BY <2>2, Accepting DEF controlRun, createRun, Published, Always, RunRequest
  <2>. QED
    BY <1>1, <2>1, <2>2
<1>2. CASE Operation(s) = "fork"
  <2>1. AcceptedBy(Operation(s)) = {"Idempotency-Key"} \union ForkRequest
    BY <1>2, Accepting DEF fork, Published
  <2>. QED
    BY <1>2, <2>1 DEF Always, ForkRequest
<1>3. CASE Operation(s) = "createFilesystem"
  <2>1. AcceptedBy(Operation(s)) = FilesystemCreateRequest
    BY <1>3, Accepting DEF createFilesystem, Published
  <2>. QED
    BY <1>3, <2>1 DEF Always, FilesystemCreateRequest
<1>4. CASE Operation(s) = "createPool"
  <2>1. AcceptedBy(Operation(s)) = CreatePoolRequest
    BY <1>4, Accepting DEF createPool, Published
  <2>. QED
    BY <1>4, <2>1, PoolRequestFields DEF Always
<1>5. CASE Operation(s) = "renamePool"
  <2>1. AcceptedBy(Operation(s)) = UpdatePoolRequest
    BY <1>5, Accepting DEF updatePool, Published
  <2>. QED
    BY <1>5, <2>1 DEF Always, UpdatePoolRequest
<1>6. CASE Operation(s) \notin
             {"createRun", "signal", "fork", "createFilesystem", "createPool", "renamePool"}
  BY <1>6 DEF Always
<1>. QED
  BY <1>1, <1>2, <1>3, <1>4, <1>5, <1>6

(* A command sends no field that its operation does not accept.            *)
LEMMA FieldsAccepted ==
    ASSUME NEW s, Validated(s)
    PROVE  fields(s) \subseteq Contract(s).accepts
<1>1. Contract(s).accepts = AcceptedBy(Operation(s))
  BY DEF Contract, AcceptedBy
<1>2. ASSUME NEW f \in DOMAIN s.flags \ Local(s)
      PROVE  fieldOf(Operation(s), f) \in AcceptedBy(Operation(s))
  <2>1. f \in Sent(Operation(s))
    BY <1>2, SentFlags
  <2>. QED
    BY <2>1, FlagsAccepted
<1>. QED
  BY <1>1, <1>2, AlwaysAccepted DEF fields

-----------------------------------------------------------------------------
(* The guards of the handlers.                                             *)

(* Of flags that exclude each other, at most one is given.                 *)
LEMMA Exclusive ==
    ASSUME NEW s, NEW a, NEW b, a # b, exclusive(s, {a, b})
    PROVE  ~(a \in DOMAIN s.flags /\ b \in DOMAIN s.flags)
<1>1. SUFFICES ASSUME a \in DOMAIN s.flags, b \in DOMAIN s.flags PROVE FALSE
  OBVIOUS
<1>2. Given(s, {a, b}) = {a} \union {b}
  BY <1>1 DEF Given
<1>3. IsFiniteSet({a}) /\ Cardinality({a}) = 1
  BY FS_Singleton
<1>4. Cardinality({a} \union {b}) = 2
  BY <1>3, FS_AddElement
<1>. QED
  BY <1>2, <1>4 DEF exclusive

(* Where the fields of a fork come from.                                   *)
LEMMA ForkFields ==
    ASSUME NEW s, Validated(s), Operation(s) = "fork"
    PROVE  /\ "source_vm_id" \in fields(s) <=> "source-vm-id" \in DOMAIN s.flags
           /\ "source_vm_name" \in fields(s) <=>
                Arguments(s) > 0 \/ "source-vm-name" \in DOMAIN s.flags
           /\ "source_org_id" \in fields(s) <=> "source-org-id" \in DOMAIN s.flags
           /\ "source_org_name" \in fields(s) <=> "source-org-name" \in DOMAIN s.flags
           /\ "image" \in fields(s) <=>
                "image" \in DOMAIN s.flags \/ "dockerfile" \in DOMAIN s.flags
           /\ "dockerfile" \notin fields(s)
           /\ "pool_id" \in fields(s) <=> "pool-id" \in DOMAIN s.flags
           /\ "pool_name" \in fields(s) <=> "pool" \in DOMAIN s.flags
           /\ "nestedvirt" \in fields(s) <=> "nestedvirt" \in DOMAIN s.flags
<1>. DEFINE D == DOMAIN s.flags
            L == Local(s)
            Makes(x) == \E f \in D \ L : fieldOf("fork", f) = x
<1>1. \A x : x \in fields(s) <=> Makes(x) \/ x \in Always(s)
  BY DEF fields
<1>2. \A x : x \in Always(s) <=> x = "source_vm_name" /\ Arguments(s) > 0
  BY DEF Always
<1>3. D \ L \subseteq Sent("fork")
  BY SentFlags
<1>4. \A f : f \notin {"help", "json", "context", "read", "assume-empty", "clear", "file",
                       "provider", "region", "no-disk"} => f \notin L
  BY DEF Local
<1>. HIDE DEF L, D
<1>5. \A f \in D \ L : f \in Sizes \union {"disk", "no-disk", "pool", "platform", "dockerfile",
        "description", "durable", "nestedvirt", "public", "image", "layers", "name",
        "queueing-timeout", "policies-file", "pool-id", "registry-auth-file", "source-vm-id",
        "source-vm-name", "source-org-id", "source-org-name"} \union Keys
  BY <1>3 DEF Sent, Sizes, Keys
<1>6. /\ Makes("source_vm_id") <=> "source-vm-id" \in D
      /\ Makes("source_vm_name") <=> "source-vm-name" \in D
      /\ Makes("source_org_id") <=> "source-org-id" \in D
      /\ Makes("source_org_name") <=> "source-org-name" \in D
  BY <1>4, <1>5, ForkField, SMT
<1>7. /\ Makes("image") <=> "image" \in D \/ "dockerfile" \in D
      /\ ~Makes("dockerfile")
  BY <1>4, <1>5, ForkField, SMT
<1>8. /\ Makes("pool_id") <=> "pool-id" \in D
      /\ Makes("pool_name") <=> "pool" \in D
      /\ Makes("nestedvirt") <=> "nestedvirt" \in D
  BY <1>4, <1>5, ForkField, SMT
<1>. HIDE DEF Makes
<1>. QED
  BY <1>1, <1>2, <1>6, <1>7, <1>8 DEF D

(* A fork has one source, and what goes with it.                           *)
LEMMA ForkFits ==
    ASSUME NEW s, Validated(s), Operation(s) = "fork", forkUsage(s)
    PROVE  fitsFork(fields(s))
<1>. DEFINE D == DOMAIN s.flags
            body == fields(s)
            sources == {"source_vm_id", "source_vm_name", "source_org_id", "source_org_name",
                        "image", "dockerfile"}
<1>1. UNION (ForkVariants \union {{"dockerfile"}}) = sources
  BY DEF ForkVariants
<1>2. PICK source : forkSources(s) = {source}
  <2>1. IsFiniteSet(forkSources(s))
    <3>1. forkSources(s) \subseteq {"source-vm-id", "source-vm-name", "image", "dockerfile"}
      BY DEF forkSources, Given
    <3>2. IsFiniteSet({"source-vm-id"} \union {"source-vm-name"})
      BY FS_Singleton, FS_AddElement
    <3>3. IsFiniteSet({"source-vm-id"} \union {"source-vm-name"} \union {"image"})
      BY <3>2, FS_AddElement
    <3>4. IsFiniteSet({"source-vm-id"} \union {"source-vm-name"} \union {"image"}
                        \union {"dockerfile"})
      BY <3>3, FS_AddElement
    <3>5. forkSources(s) \subseteq
            {"source-vm-id"} \union {"source-vm-name"} \union {"image"} \union {"dockerfile"}
      BY <3>1
    <3>. QED
      BY <3>4, <3>5, FS_Subset
  <2>. QED
    BY <2>1, FS_Singleton DEF forkUsage
<1>3. /\ source = "source-vm-id" <=> "source-vm-id" \in D
      /\ source = "image" <=> "image" \in D
      /\ source = "dockerfile" <=> "dockerfile" \in D
      /\ source = "source-vm-name" <=> "source-vm-name" \in D \/ Arguments(s) > 0
      /\ source \in {"source-vm-id", "image", "dockerfile", "source-vm-name"}
  <2>1. \A x : x \in forkSources(s) <=> x = source
    BY <1>2
  <2>2. \A x : x \in forkSources(s) <=>
            \/ x \in {"source-vm-id", "source-vm-name", "image", "dockerfile"} /\ x \in D
            \/ x = "source-vm-name" /\ Arguments(s) > 0
    BY DEF forkSources, Given
  <2>. QED
    BY <2>1, <2>2
<1>4. ~("source-org-id" \in D /\ "source-org-name" \in D) /\ ~("pool" \in D /\ "pool-id" \in D)
  BY Exclusive DEF forkUsage, poolFlags
<1>5. /\ "source-org-id" \in D \/ "source-org-name" \in D => source = "source-vm-name"
      /\ "nestedvirt" \in D => source \in {"image", "dockerfile"}
  BY <1>2 DEF forkUsage, Given
<1>6. body \intersect sources \in ForkVariants
  <2>. HIDE DEF D
  <2>1. /\ "source_vm_id" \in body <=> source = "source-vm-id"
        /\ "source_vm_name" \in body <=> source = "source-vm-name"
        /\ "image" \in body <=> source \in {"image", "dockerfile"}
        /\ "dockerfile" \notin body
        /\ "source_org_id" \in body <=> "source-org-id" \in D
        /\ "source_org_name" \in body <=> "source-org-name" \in D
    BY <1>3, ForkFields DEF D
  <2>. HIDE DEF body
  <2>2. CASE source = "source-vm-id"
    <3>1. body \intersect sources = {"source_vm_id"}
      BY <1>5, <2>1, <2>2
    <3>. QED
      BY <3>1 DEF ForkVariants
  <2>3. CASE source \in {"image", "dockerfile"}
    <3>1. body \intersect sources = {"image"}
      BY <1>5, <2>1, <2>3
    <3>. QED
      BY <3>1 DEF ForkVariants
  <2>4. CASE source = "source-vm-name"
    <3>1. body \intersect sources \in {{"source_vm_name"}, {"source_vm_name", "source_org_id"},
             {"source_vm_name", "source_org_name"}}
      <4>1. CASE "source-org-id" \in D
        <5>1. body \intersect sources = {"source_vm_name", "source_org_id"}
          BY <1>4, <2>1, <2>4, <4>1
        <5>. QED
          BY <5>1
      <4>2. CASE "source-org-name" \in D
        <5>1. body \intersect sources = {"source_vm_name", "source_org_name"}
          BY <1>4, <2>1, <2>4, <4>2
        <5>. QED
          BY <5>1
      <4>3. CASE "source-org-id" \notin D /\ "source-org-name" \notin D
        <5>1. body \intersect sources = {"source_vm_name"}
          BY <2>1, <2>4, <4>3
        <5>. QED
          BY <5>1
      <4>. QED
        BY <4>1, <4>2, <4>3
    <3>. QED
      BY <3>1 DEF ForkVariants
  <2>. QED
    BY <1>3, <2>2, <2>3, <2>4
<1>7. ~{"pool_id", "pool_name"} \subseteq body
  BY <1>4, ForkFields
<1>8. "nestedvirt" \in body => "image" \in body
  BY <1>3, <1>5, ForkFields
<1>. QED
  BY <1>1, <1>6, <1>7, <1>8 DEF fitsFork

(* Where the fields of a new pool come from, and that they fit its kind.   *)
LEMMA PoolFields ==
    ASSUME NEW s, Validated(s), Operation(s) = "createPool"
    PROVE  /\ "type" \in fields(s) <=> "type" \in DOMAIN s.flags
           /\ "platform" \in fields(s) <=> "platform" \in DOMAIN s.flags
           /\ "resources" \in fields(s) <=> Resources \intersect DOMAIN s.flags # {}
           /\ "isolation" \in fields(s) <=> "isolation" \in DOMAIN s.flags
           /\ "byoc" \in fields(s) <=> (ByocFlags \ {"isolation"}) \intersect DOMAIN s.flags # {}
           /\ "provider" \in fields(s) <=> Value(s, "type") = "byoc"
           /\ fields(s) \subseteq
                {"type", "platform", "resources", "isolation", "byoc", "provider", "name"}
<1>. DEFINE D == DOMAIN s.flags
            L == Local(s)
            Makes(x) == \E f \in D \ L : fieldOf("createPool", f) = x
            table == Of(Resources, "resources") @@ Of(ByocFlags \ {"isolation"}, "byoc")
<1>1. \A x : x \in fields(s) <=> Makes(x) \/ x \in Always(s)
  BY DEF fields
<1>2. \A x : x \in Always(s) <=> x = "provider" /\ Value(s, "type") = "byoc"
  BY DEF Always
<1>3. D \ L \subseteq Sent("createPool")
  BY SentFlags
<1>4. \A f : f \notin {"help", "json", "context", "read", "assume-empty", "clear", "file",
                       "provider", "region", "no-disk"} => f \notin L
  BY DEF Local
<1>5. /\ \A f \in Resources : fieldOf("createPool", f) = "resources"
      /\ \A f \in ByocFlags \ {"isolation"} : fieldOf("createPool", f) = "byoc"
      /\ \A f \in {"isolation", "type", "platform", "name"} : fieldOf("createPool", f) = f
  <2>1. Maps(Renamed, "createPool", table)
    BY RenamedTables
  <2>2. /\ \A f \in Resources : Maps(table, f, "resources")
        /\ \A f \in ByocFlags \ {"isolation"} : Maps(table, f, "byoc")
        /\ \A f \in {"isolation", "type", "platform", "name"} : f \notin DOMAIN table
    BY JoinNames, OfNames, JoinMaps, OfMaps, SMT DEF Resources, ByocFlags
  <2>. HIDE DEF table
  <2>3. \A f, name : Maps(table, f, name) => fieldOf("createPool", f) = name
    BY <2>1, ExceptField
  <2>4. \A f \in {"isolation", "type", "platform", "name"} : f \notin DOMAIN Renamed["createPool"]
    BY <2>1, <2>2, ExceptField
  <2>5. \A f \in {"isolation", "type", "platform", "name"} : fieldOf("createPool", f) = f
    BY <2>4, PlainField DEF Plain, CommonFlags, SnakeFlags
  <2>. QED
    BY <2>2, <2>3, <2>5
<1>. HIDE DEF L, D
<1>6. \A f \in D \ L : f \in Resources \union ByocFlags \union {"type", "platform", "name"}
  BY <1>3 DEF Sent, Resources, ByocFlags
<1>7. /\ Makes("type") <=> "type" \in D
      /\ Makes("platform") <=> "platform" \in D
      /\ Makes("isolation") <=> "isolation" \in D
      /\ ~Makes("provider")
      /\ \A x : Makes(x) => x \in {"type", "platform", "resources", "isolation", "byoc", "name"}
  BY <1>4, <1>5, <1>6, SMT DEF ByocFlags, Resources
<1>8. /\ Makes("resources") <=> Resources \intersect D # {}
      /\ Makes("byoc") <=> (ByocFlags \ {"isolation"}) \intersect D # {}
  BY <1>4, <1>5, <1>6, SMT DEF ByocFlags, Resources
<1>. HIDE DEF Makes
<1>. QED
  BY <1>1, <1>2, <1>7, <1>8 DEF D

LEMMA PoolFits ==
    ASSUME NEW s, Validated(s), Operation(s) = "createPool", poolUsage(s),
           "type" \in DOMAIN s.flags, s.flags["type"] \in {"managed", "byoc", "self_hosted"}
    PROVE  fitsPool(s.flags["type"], fields(s))
<1>. DEFINE D == DOMAIN s.flags
            body == fields(s)
            type == s.flags["type"]
            variant == PoolVariants[type]
<1>1. type = Value(s, "type") /\ "file" \notin D
  BY DEF Value, poolUsage, Given
<1>2. /\ type # "byoc" => ByocFlags \intersect D = {}
      /\ type = "self_hosted" => "platform" \notin D
      /\ type # "self_hosted" => Resources \subseteq D /\ "platform" \in D
      /\ type = "byoc" => "account-id" \in D
  BY <1>1 DEF poolUsage, Given
<1>3. /\ "type" \in body
      /\ "platform" \in body <=> "platform" \in D
      /\ "resources" \in body <=> Resources \intersect D # {}
      /\ "isolation" \in body => type = "byoc"
      /\ "byoc" \in body <=> (ByocFlags \ {"isolation"}) \intersect D # {}
      /\ "provider" \in body <=> type = "byoc"
      /\ body \subseteq {"type", "platform", "resources", "isolation", "byoc", "provider", "name"}
  BY <1>1, <1>2, PoolFields DEF ByocFlags
<1>. HIDE DEF body
<1>4. CASE type = "managed"
  <2>1. variant = CreateManagedPoolRequest
    BY <1>4, PoolVariantsAre
  <2>2. "platform" \in body /\ "resources" \in body /\ "byoc" \notin body
    BY <1>2, <1>3, <1>4 DEF Resources
  <2>. QED
    BY <1>3, <1>4, <2>1, <2>2 DEF fitsPool, CreateManagedPoolRequest, body
<1>5. CASE type = "byoc"
  <2>1. variant = CreateByocPoolRequest
    BY <1>5, PoolVariantsAre
  <2>2. "platform" \in body /\ "resources" \in body /\ "byoc" \in body
    BY <1>2, <1>3, <1>5 DEF Resources, ByocFlags
  <2>. QED
    BY <1>3, <1>5, <2>1, <2>2 DEF fitsPool, CreateByocPoolRequest, body
<1>6. CASE type = "self_hosted"
  <2>1. variant = CreateSelfHostedPoolRequest
    BY <1>6, PoolVariantsAre
  <2>2. "platform" \notin body /\ "byoc" \notin body
    BY <1>2, <1>3, <1>6 DEF ByocFlags
  <2>. QED
    BY <1>3, <1>6, <2>1, <2>2 DEF fitsPool, CreateSelfHostedPoolRequest, body
<1>. QED
  BY <1>4, <1>5, <1>6

-----------------------------------------------------------------------------
(* What the options of a pool and of a list of runs admit.                 *)
LEMMA NumeralsAreNumbers == \A n \in DOMAIN Numerals : Numerals[n] \in Int
<1>1. \A x : x \in DOMAIN Numerals <=> x \in {"0", "1", "300", "3000", "70000"}
  BY JoinNames, EntryNames, SMT DEF Numerals
<1>2. /\ Maps(Numerals, "0", 0) /\ Maps(Numerals, "1", 1) /\ Maps(Numerals, "300", 300)
      /\ Maps(Numerals, "3000", 3000) /\ Maps(Numerals, "70000", 70000)
  BY JoinNames, EntryNames, JoinMaps, EntryMaps, SMT DEF Numerals
<1>. QED
  BY <1>1, <1>2 DEF Maps

LEMMA TypeOfPool ==
    ASSUME NEW s, FlagsInv(s), s.command = "pools", "type" \in DOMAIN s.flags
    PROVE  s.flags["type"] \in {"managed", "byoc", "self_hosted"}
<1>1. Maps(PoolCreateOptions, "type", OneOf({"managed", "byoc", "self_hosted"}))
  BY GlobalNames, JoinNames, OfNames, EntryNames, JoinMaps, OfMaps, EntryMaps, SMT
     DEF PoolCreateOptions, Everywhere
<1>2. Maps(CommandOptions["pools"], "type", OneOf({"managed", "byoc", "self_hosted"}))
  <2>1. CommandOptions["pools"] = PoolCreateOptions @@ PoolListOptions @@ PoolOptions("update")
                                  @@ PoolOptions("rename") @@ PoolOptions("add-commitment")
    BY OptionsOfCommands DEF Maps
  <2>. QED
    BY <1>1, <2>1, JoinMaps
<1>3. Specs(s)["type"] = OneOf({"managed", "byoc", "self_hosted"})
  BY <1>2 DEF Specs, Maps, Absent
<1>4. Taken(s, "type") /\ "type" \notin DOMAIN GlobalOptions
  BY GlobalNames DEF FlagsInv, Everywhere
<1>. QED
  BY <1>3, <1>4 DEF Taken, Accepts, OneOf

LEMMA LimitOfRuns ==
    ASSUME NEW s, FlagsInv(s), s.command = "runs", "limit" \in DOMAIN s.flags
    PROVE  Numerals[s.flags["limit"]] \in Int /\ Numerals[s.flags["limit"]] <= 20000
<1>. DEFINE limits == Between(1, 20000)
<1>1. Maps(RunListOptions, "limit", OneOf(limits))
  BY GlobalNames, JoinNames, OfNames, EntryNames, JoinMaps, OfMaps, EntryMaps, SMT
     DEF RunListOptions, Everywhere
<1>2. CommandOptions["runs"] = RunListOptions
  BY OptionsOfCommands DEF Maps
<1>3. Specs(s)["limit"] = OneOf(limits)
  BY <1>1, <1>2 DEF Specs, Maps, Absent
<1>4. Taken(s, "limit") /\ "limit" \notin DOMAIN GlobalOptions
  BY GlobalNames DEF FlagsInv, Everywhere
<1>5. s.flags["limit"] \in limits
  BY <1>3, <1>4 DEF Taken, Accepts, OneOf
<1>. QED
  BY <1>5, NumeralsAreNumbers DEF Between

(* Only one command makes pools, and one lists the runs of everybody.      *)
LEMMA OperationIsPools ==
    ASSUME NEW s, s.command \in Commands
    PROVE  /\ Operation(s) = "createPool" => s.command = "pools"
           /\ Operation(s) = "listOrgRuns" => s.command = "runs"
<1>1. /\ \A sub : vmsOperation(sub) \notin {"createPool", "listOrgRuns"}
      /\ \A sub, n : runsOperation(sub, n) # "createPool"
      /\ \A sub : sessionsOperation(sub) \notin {"createPool", "listOrgRuns"}
      /\ \A sub : mountsOperation(sub) \notin {"createPool", "listOrgRuns"}
  BY DEF vmsOperation, runsOperation, sessionsOperation, mountsOperation,
         Absent, ListVmsBy, Listing, Removing
<1>2. /\ \A sub : filesystemsOperation(sub) \notin {"createPool", "listOrgRuns"}
      /\ \A sub : poolsOperation(sub) # "listOrgRuns"
      /\ \A sub : apiKeysOperation(sub) \notin {"createPool", "listOrgRuns"}
      /\ \A sub : policiesOperation(sub) \notin {"createPool", "listOrgRuns"}
  BY DEF filesystemsOperation, poolsOperation, apiKeysOperation, policiesOperation,
         Absent, ListVmsBy, Listing, Removing
<1>3. {"createPool", "listOrgRuns"} \intersect Commands = {}
  BY CommandNames
<1>. QED
  BY <1>1, <1>2, <1>3 DEF Operation

(* Every command asks for an operation that is published.                  *)
LEMMA OperationIsPublished ==
    ASSUME NEW s, Validated(s)
    PROVE  Operation(s) \in DOMAIN RequestOf \union DOMAIN Operations
<1>1. \A x : x \in DOMAIN RequestOf
              <=> x \in {"renamePool", "addPoolCommitment", "signal", "shell", "sync-dir"}
  BY JoinNames, OfNames, EntryNames, SMT DEF RequestOf
<1>2. /\ {"whoami", "listRegions", "fork", "listVms", "listOrgRuns", "getVm", "deleteVm", "patchVm",
          "getVmPolicies", "putVmPolicies", "listRuns", "createRun", "getRun", "cancelRun"}
           \subseteq DOMAIN Operations
      /\ {"listSessions", "createSession", "getSession", "deleteSession", "patchSession",
          "listMounts", "createMount", "deleteMount", "sync", "listFilesystems",
          "createFilesystem", "getFilesystem", "deleteFilesystem"}
           \subseteq DOMAIN Operations
      /\ {"listPools", "createPool", "getPool", "deletePool", "updatePool", "listPoolWorkers",
          "listApiKeys", "createApiKey", "revokeApiKey"}
           \subseteq DOMAIN Operations
  BY DEF Operations
<1>. DEFINE published == DOMAIN RequestOf \union DOMAIN Operations
<1>3. /\ \A sub : vmsOperation(sub) \in published \union {Absent}
      /\ \A sub, n : runsOperation(sub, n) \in published \union {Absent}
      /\ \A sub : sessionsOperation(sub) \in published \union {Absent}
      /\ \A sub : mountsOperation(sub) \in published \union {Absent}
  BY <1>1, <1>2 DEF vmsOperation, runsOperation, sessionsOperation, mountsOperation
<1>4. /\ \A sub : filesystemsOperation(sub) \in published \union {Absent}
      /\ \A sub : poolsOperation(sub) \in published \union {Absent}
      /\ \A sub : apiKeysOperation(sub) \in published \union {Absent}
      /\ \A sub : policiesOperation(sub) \in published \union {Absent}
  BY <1>1, <1>2 DEF filesystemsOperation, poolsOperation, apiKeysOperation, policiesOperation
<1>5. /\ {"listVms", "deleteVm", "createRun", "patchVm", "listRegions", "whoami", "fork", "shell",
          "signal", "sync", "sync-dir"} \subseteq published
  BY <1>1, <1>2
<1>6. /\ s.command \in {"delete", "rm", "whoami", "regions", "list", "ls", "filesystems", "fs",
          "api-keys", "fork", "run", "runs", "mounts", "shell", "sessions", "policies", "signal",
          "pools", "sync", "sync-dir", "update", "vms"}
      /\ Operation(s) # Absent
  BY CommandNames DEF Validated
<1>. HIDE DEF published
<1>7. Operation(s) \in published \union {Absent}
  BY <1>3, <1>4, <1>5, <1>6 DEF Operation, Listing, Removing
<1>. QED
  BY <1>6, <1>7 DEF published

(* What the handlers let through is what the contract admits, but for the  *)
(* two rules that no handler checks.                                       *)
Misfit(s) ==
  \/ Operation(s) = "patchVm" /\ ~immutableAlone(fields(s))
  \/ Operation(s) = "patchSession" /\ ~sizeWhole(fields(s))
Admitted(s) == fitsContract(s) \/ (Misfit(s) /\ fields(s) \subseteq Contract(s).accepts)

LEMMA RequestFits ==
    ASSUME NEW s, Validated(s), FlagsInv(s), usage(s)
    PROVE  Admitted(s)
<1>1. fields(s) \subseteq Contract(s).accepts
  BY FieldsAccepted
<1>2. Operation(s) = "fork" => fitsFork(fields(s))
  BY ForkFits DEF usage
<1>3. Operation(s) = "createPool" /\ "type" \in DOMAIN s.flags =>
          fitsPool(s.flags["type"], fields(s))
  <2>1. SUFFICES ASSUME Operation(s) = "createPool", "type" \in DOMAIN s.flags
                 PROVE  fitsPool(s.flags["type"], fields(s))
    OBVIOUS
  <2>2. s.command = "pools" /\ poolUsage(s)
    BY <2>1, OperationIsPools DEF usage, Validated
  <2>. QED
    BY <2>1, <2>2, TypeOfPool, PoolFits
<1>4. Operation(s) = "createRun" => "command" \in fields(s)
  BY DEF fields, Always
<1>5. Operation(s) = "createMount" => "filesystem_id" \in fields(s)
  <2>1. SUFFICES ASSUME Operation(s) = "createMount" PROVE "filesystem_id" \in fields(s)
    OBVIOUS
  <2>2. "filesystem-id" \in DOMAIN s.flags \ Local(s)
    BY <2>1 DEF usage, Local
  <2>3. fieldOf("createMount", "filesystem-id") = "filesystem_id"
    BY RenamedNames, PlainField, SnakeFields, CommonNames DEF Plain, CommonFlags
  <2>. QED
    BY <2>1, <2>2, <2>3 DEF fields
<1>6. Operation(s) = "createFilesystem" => "name" \in fields(s)
  BY DEF fields, Always
<1>7. Operation(s) = "createApiKey" => ~{"pool-id", "vm-id"} \subseteq DOMAIN s.flags
  BY Exclusive DEF usage
<1>8. Operation(s) = "listOrgRuns" => ~Large(s, IF On(s, "lite") THEN 20000 ELSE 200)
  <2>1. SUFFICES ASSUME Operation(s) = "listOrgRuns", "limit" \in DOMAIN s.flags
                 PROVE  ~Large(s, IF On(s, "lite") THEN 20000 ELSE 200)
    BY DEF Large
  <2>2. Numerals[s.flags["limit"]] \in Int /\ Numerals[s.flags["limit"]] <= 20000
    BY <2>1, OperationIsPools, LimitOfRuns DEF Validated
  <2>3. Large(s, 200) => On(s, "lite")
    BY <2>1 DEF usage
  <2>. QED
    BY <2>2, <2>3 DEF Large
<1>9. Operation(s) \in DOMAIN RequestOf \union DOMAIN Operations
  BY OperationIsPublished
<1>. QED
  BY <1>1, <1>2, <1>3, <1>4, <1>5, <1>6, <1>7, <1>8, <1>9 DEF fitsContract, Admitted, Misfit

(* Of any arguments: so it is of what was read and let through.            *)
LEMMA ParsedFits ==
    ASSUME NEW argv \in Seq(Tokens), NEW c, c = parseInvocation(argv),
           c.result = "invocation", c.command # "config", usage(c)
    PROVE  Admitted(c)
<1>1. PICK s : ReadInv(s, argv, Len(argv)) /\ FlagsInv(s) /\ c = Invocation(s)
  BY AllRead
<1>2. DOMAIN s = DOMAIN Start /\ s.result # "invocation"
  BY <1>1 DEF ReadInv
<1>3. s.result = "more" /\ s.command # Absent
  BY <1>1, <1>2, InvocationIsRead
<1>4. c = [s EXCEPT !.result = "invocation"] /\ validateInvocationOptions(s)
  BY <1>1, <1>2, <1>3 DEF Invocation, Die, Start
<1>5. /\ c.positional = s.positional /\ c.command = s.command
      /\ c.flags = s.flags /\ c.pending = s.pending
  BY <1>2, <1>4 DEF Start
<1>6. Validated(c)
  <2>1. c.command \in Commands \ {"config"} /\ c.positional \in Seq(Tokens)
    BY <1>1, <1>3, <1>5 DEF ReadInv
  <2>2. Subcommand(c) = Subcommand(s)
    BY <1>5 DEF Subcommand
  <2>3. DOMAIN c.flags \subseteq invocationOptions(c.command, Subcommand(c), Len(c.positional))
    BY <1>4, <1>5, <2>2 DEF validateInvocationOptions
  <2>. QED
    BY <2>1, <2>3 DEF Validated, usage
<1>7. FlagsInv(c)
  BY <1>1, <1>5, FlagsKept
<1>. QED
  BY <1>6, <1>7, RequestFits

-----------------------------------------------------------------------------
(* Only Dispatch makes a client and only Client sends.                     *)
LEMMA GuardedStep ==
    ASSUME DOMAIN pc = Processes, DOMAIN target = Processes, CallsAreGuarded, [Next]_vars
    PROVE  CallsAreGuarded'
<1>. USE DEF Goto, Exit, die
<1>1. UNCHANGED <<script, call>>
  BY NeverRecalled
<1>2. ASSUME UNCHANGED target, \A p \in Processes : pc'[p] = "client" => pc[p] = "client"
      PROVE  CallsAreGuarded'
  BY <1>1, <1>2 DEF CallsAreGuarded, Guarded, Asked, Processes
<1>3. CASE Next
  <2>1. PICK p \in Processes : Step(p) \/ Produce(p) \/ CloseStdin(p) \/ LatePatch(p) \/ Kill(p)
    BY <1>3 DEF Next
  <2>2. CASE Dispatch(p)
    <3>1. /\ UNCHANGED target
          /\ \A q \in Processes \ {p} : pc'[q] = pc[q]
          /\ pc'[p] = "client" => call[p].result = "invocation" /\ call[p].command # "config"
      BY <2>2 DEF Dispatch
    <3>. QED
      BY <1>1, <3>1 DEF CallsAreGuarded, Guarded, Asked, Processes
  <2>3. CASE Client(p)
    <3>1. pc[p] = "client"
      BY <2>3 DEF Client
    <3>2. /\ \A q \in Processes \ {p} : pc'[q] = pc[q] /\ target'[q] = target[q]
          /\ pc'[p] # "client"
          /\ target'[p] = target[p] \/ usage(call[p])
      BY <2>3 DEF Client
    <3>3. \A q \in Processes : Guarded(q)
      BY DEF CallsAreGuarded
    <3>4. usage(call[p])' <=> usage(call[p])
      BY <1>1
    <3>. QED
      BY <1>1, <3>1, <3>2, <3>3 DEF CallsAreGuarded, Guarded, Asked, Processes
  <2>4. CASE cmdConfig(p) \/ OpenConfig(p) \/ FillConfig(p) \/ RenameConfig(p) \/ ConfigFails(p)
    BY <1>2, <2>4 DEF cmdConfig, OpenConfig, FillConfig, RenameConfig, ConfigFails, editing
  <2>5. CASE Produce(p) \/ CloseStdin(p) \/ Chunk(p) \/ Drained(p) \/ Deadline(p)
    BY <1>2, <2>5 DEF Produce, CloseStdin, Chunk, Drained, Deadline, elsewhere
  <2>6. CASE RunAnswered(p) \/ SignalAnswered(p) \/ DeletionAnswered(p) \/ Answered(p)
    BY <1>2, <2>6 DEF RunAnswered, SignalAnswered, DeletionAnswered, Answered
  <2>7. CASE ReadPool(p) \/ PatchPool(p) \/ PatchLost(p) \/ LatePatch(p)
    BY <1>2, <2>7 DEF ReadPool, PatchPool, PatchLost, LatePatch
  <2>8. CASE RequestFails(p) \/ NotFound(p) \/ Hint(p) \/ Kill(p)
    BY <1>2, <2>8 DEF RequestFails, NotFound, Hint, Kill, elsewhere
  <2>. QED
    BY <2>1, <2>2, <2>3, <2>4, <2>5, <2>6, <2>7, <2>8 DEF Step
<1>4. CASE UNCHANGED vars
  BY <1>2, <1>4 DEF vars
<1>. QED
  BY <1>3, <1>4

(* Who asked was let through by the guards of its command.                 *)
LEMMA GuardedFit ==
    ASSUME script \in Scripts, Called, CallsAreGuarded
    PROVE  OnlyUpdatesMisfit
<1>. SUFFICES ASSUME NEW p \in Processes, Asked(p) PROVE Admitted(call[p])
  BY DEF OnlyUpdatesMisfit, Admitted, Misfit, misfits, op
<1>1. script[p].argv \in Seq(Tokens)
  BY CliAssumption DEF Processes
<1>2. /\ call[p] = parseInvocation(script[p].argv)
      /\ call[p].result = "invocation" /\ call[p].command # "config" /\ usage(call[p])
  BY DEF Called, CallsAreGuarded, Guarded
<1>. QED
  BY <1>1, <1>2, ParsedFits

(* Whatever the command line: no process sends a request that the contract *)
(* of its operation refuses, but the two updates whose fields break a rule *)
(* of a description, and theirs are known fields.  (The option tables of   *)
(* cli.ts, parseOption, validateInvocationOptions, the guards of the       *)
(* handlers, api-types.ts.)                                                *)
THEOREM ContractFits == Spec => []OnlyUpdatesMisfit
<1>1. Init => script \in Scripts /\ Called /\ CallsAreGuarded
  <2>1. Init => \A p \in Processes : ~(pc[p] = "client") /\ ~Asked(p)
    BY DEF Init, Asked
  <2>. QED
    BY <2>1 DEF Init, Called, Processes, CallsAreGuarded, Guarded
<1>2. TypeOK /\ script \in Scripts /\ Called /\ CallsAreGuarded /\ [Next]_vars
        => (script \in Scripts /\ Called /\ CallsAreGuarded)'
  <2>1. [Next]_vars => UNCHANGED <<script, call>>
    BY NeverRecalled
  <2>2. TypeOK => DOMAIN pc = Processes /\ DOMAIN target = Processes
    BY DEF TypeOK
  <2>. QED
    BY <2>1, <2>2, GuardedStep DEF Called, Processes
<1>3. script \in Scripts /\ Called /\ CallsAreGuarded => OnlyUpdatesMisfit
  BY GuardedFit
<1>. QED
  BY <1>1, <1>2, <1>3, TypeCorrect, PTL DEF Spec
=============================================================================
