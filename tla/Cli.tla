-------------------------------- MODULE Cli ---------------------------------
(***************************************************************************)
(* `arker` processes (cli.ts), started one after another or together.      *)
(* They share the configuration file, the pool whose commitments they      *)
(* edit, and the API.  A process reads its arguments, then the             *)
(* configuration, then perhaps its standard input, sends its request and   *)
(* exits; it may be killed at any time.                                    *)
(*                                                                         *)
(* A request is one call of the client: its retries are RequestRetry's     *)
(* business, those of `run` RunAwait's, of `sync-dir` SyncDir's, of        *)
(* `shell` ShellPty's and of `fork --dockerfile` DockerBuild's.            *)
(***************************************************************************)
EXTENDS CliCommands

CONSTANTS Scripts,    \* the behaviours: sequences of processes [argv, env, stdin, config]
          MaxChunks   \* how much the producer behind a pipe writes, in chunks
ConfigKeys == {"apiKey", "baseUrl", "provider", "region"}
ASSUME CliAssumption ==
  /\ MaxChunks \in Nat
  /\ \A s \in Scripts: /\ DOMAIN s \in {1..1, 1..2}
                       /\ \A p \in DOMAIN s: /\ DOMAIN s[p].config = ConfigKeys
                                              /\ s[p].argv \in Seq(Tokens)

VARIABLES script,     \* the processes
          pc,         \* where each is
          call,       \* its invocation
          config,     \* the configuration file
          seen,       \* what a process that edits the file has read
          temp,       \* the temporary file it writes
          target,     \* the endpoint of its client
          sent,       \* chunks written to its standard input
          open,       \* whether more may come
          gathered,   \* chunks it has read
          pool,       \* the processes whose commitments the pool has
          read,       \* the commitments a process has read
          late,       \* replacements the server may perform after their client gave up
          file,       \* the chunks the machine was given to store
          outcome,    \* the run it reports, or whether the server did what it asked
          exit        \* its exit code
configVars == <<config, seen, temp>>
stdinVars == <<sent, open, gathered>>
poolVars == <<pool, read, late>>
vars == <<script, pc, call, configVars, target, stdinVars, poolVars, file, outcome, exit>>

Processes == DOMAIN script
EditableKeys == {"provider", "region"}
Filled(text) == [k \in ConfigKeys |-> text]
Torn == Filled("torn")                              \* not, or not yet, JSON
NoFile == Filled("no file")
NoTarget == [url |-> Absent, provider |-> Absent, region |-> Absent]
Nothing == [performed |-> FALSE, state |-> Absent, code |-> 0]
Unwritten == -1
Running == -1
Killed == -2

env(p) == script[p].env
stdin(p) == script[p].stdin
op(p) == Operation(call[p])
Words(p) == [n \in DOMAIN call[p].positional |-> call[p].positional[n].name]

Init ==
  /\ script \in Scripts
  /\ pc = [p \in Processes |-> "start"]
  /\ call = [p \in Processes |-> parseInvocation(script[p].argv)]
  /\ config = script[1].config
  /\ seen = [p \in Processes |-> NoFile]
  /\ temp = [p \in Processes |-> NoFile]
  /\ target = [p \in Processes |-> NoTarget]
  /\ sent = [p \in Processes |-> IF stdin(p) = "file" THEN MaxChunks ELSE 0]
  /\ open = [p \in Processes |-> stdin(p) \in {"tty", "stream"}]
  /\ gathered = [p \in Processes |-> 0]
  /\ pool = {}
  /\ read = [p \in Processes |-> {}]
  /\ late = {}
  /\ file = [p \in Processes |-> Unwritten]
  /\ outcome = [p \in Processes |-> Nothing]
  /\ exit = [p \in Processes |-> Running]

Goto(p, where) == pc' = [pc EXCEPT ![p] = where] /\ UNCHANGED exit
Exit(p, code) == pc' = [pc EXCEPT ![p] = "end"] /\ exit' = [exit EXCEPT ![p] = code]
die(p) == Exit(p, 1)

-----------------------------------------------------------------------------
(* main: what the arguments say is done. *)
Dispatch(p) ==
  /\ pc[p] = "start"
  /\ CASE call[p].result \in {"help", "version"} -> Exit(p, 0)
       [] call[p].result = "invocation" ->
            Goto(p, IF call[p].command = "config" THEN "config" ELSE "client")
       [] OTHER -> die(p)
  /\ UNCHANGED <<script, call, configVars, target, stdinVars, poolVars, file, outcome>>

(* cmdConfig: read the file; list and get end here, set and unset go on. *)
Key(p) == Words(p)[2]
validLabel(value) == value # "Bad_Label"
cmdConfig(p) ==
  /\ pc[p] = "config"
  /\ seen' = [seen EXCEPT ![p] = config]
  /\ LET sub == Subcommand(call[p]) IN
       IF sub = Absent \/ config = Torn THEN die(p)
       ELSE IF sub = "list" THEN Exit(p, 0)
       ELSE IF Len(Words(p)) < 2 \/ Key(p) \notin EditableKeys THEN die(p)
       ELSE IF sub = "get" THEN Exit(p, IF config[Key(p)] = Absent THEN 1 ELSE 0)
       ELSE IF sub = "set" /\ (Len(Words(p)) < 3 \/ ~validLabel(Words(p)[3])) THEN die(p)
       ELSE IF sub = "set" \/ (sub = "unset" /\ config[Key(p)] # Absent) THEN Goto(p, "opening")
       ELSE Exit(p, 0)
  /\ UNCHANGED <<script, call, config, temp, target, stdinVars, poolVars, file, outcome>>

edited(p) ==
  [seen[p] EXCEPT ![Key(p)] = IF Subcommand(call[p]) = "set" THEN Words(p)[3] ELSE Absent]

(* A bug: the configuration itself is opened and written. *)
writeInPlace(p, content) == config' = content /\ temp' = [temp EXCEPT ![p] = content]
(* writeFileConfig: a temporary file beside the configuration, renamed *)
(* over it once it is whole.                                           *)
writeTemporary(p, content) == temp' = [temp EXCEPT ![p] = content] /\ UNCHANGED config
editing == <<script, call, seen, target, stdinVars, poolVars, file, outcome>>
OpenConfig(p) ==
  pc[p] = "opening" /\ writeTemporary(p, Torn) /\ Goto(p, "filling") /\ UNCHANGED editing
FillConfig(p) ==
  pc[p] = "filling" /\ writeTemporary(p, edited(p)) /\ Goto(p, "renaming") /\ UNCHANGED editing
RenameConfig(p) ==
  /\ pc[p] = "renaming"
  /\ config' = temp[p]
  /\ temp' = [temp EXCEPT ![p] = NoFile]
  /\ Exit(p, 0)
  /\ UNCHANGED editing
ConfigFails(p) ==
  /\ pc[p] \in {"opening", "filling", "renaming"}
  /\ temp' = [temp EXCEPT ![p] = NoFile]
  /\ die(p)
  /\ UNCHANGED <<editing, config>>

-----------------------------------------------------------------------------
(* clientFromArgs: flags, then the environment, then the file. *)
commandRequiresComputePlacement(p) ==
  /\ op(p) \notin {"listPools", "listOrgRuns", "whoami", "listVms", "listRegions"}
  /\ call[p].command # "api-keys"
First(values) ==
  LET given == {n \in DOMAIN values: values[n] # Absent}
  IN IF given = {} THEN Absent ELSE values[CHOOSE n \in given: \A m \in given: n <= m]
explicitProvider(p) == First(<<Value(call[p], "provider"), env(p).provider>>)
explicitRegion(p) == First(<<Value(call[p], "region"), env(p).region>>)
baseUrl(p) == First(<<env(p).baseUrl, IF explicitRegion(p) = Absent THEN config.baseUrl ELSE Absent>>)
provider(p) == First(<<explicitProvider(p), config.provider>>)
region(p) == First(<<explicitRegion(p), config.region>>)
(* The administrative calls go to the control plane whatever the endpoint. *)
ControlPlane ==
  {"listVms", "listRegions", "whoami", "listOrgRuns", "listPools", "createApiKey", "listApiKeys", "revokeApiKey"}
clientOf(p) ==
  IF op(p) \in ControlPlane THEN [NoTarget EXCEPT !.url = "control"]
  ELSE [url |-> First(<<baseUrl(p), "placement">>), provider |-> provider(p), region |-> region(p)]
canConnect(p) ==
  \/ op(p) = "listRegions"
  \/ /\ commandRequiresComputePlacement(p) /\ baseUrl(p) = Absent =>
          provider(p) # Absent /\ region(p) # Absent
     /\ First(<<env(p).apiKey, config.apiKey>>) # Absent

(* Where the data of a write comes from: cmdSync and cmdPolicies. *)
piped(p) == stdin(p) \in {"file", "stream"}
readsStdin(p) ==
  \/ op(p) = "sync" /\ Arguments(call[p]) = 3 /\ Argument(call[p], 3) = "-"
  \/ op(p) = "sync" /\ Arguments(call[p]) = 2 /\ ~On(call[p], "read") /\ piped(p)
  \/ op(p) = "putVmPolicies" /\ "file" \notin DOMAIN call[p].flags /\ piped(p)
(* Only here does silence end the wait. *)
withDeadline(p) == op(p) = "sync" /\ Arguments(call[p]) = 2 /\ stdin(p) = "stream"
noPolicies(p) == op(p) = "putVmPolicies" /\ "file" \notin DOMAIN call[p].flags /\ ~piped(p)

Client(p) ==
  /\ pc[p] = "client"
  /\ IF config = Torn \/ ~canConnect(p) \/ ~usage(call[p]) \/ noPolicies(p)
     THEN die(p) /\ UNCHANGED target
     ELSE /\ target' = [target EXCEPT ![p] = clientOf(p)]
          /\ Goto(p, IF readsStdin(p) THEN "stdin" ELSE "request")
  /\ UNCHANGED <<script, call, configVars, stdinVars, poolVars, file, outcome>>

-----------------------------------------------------------------------------
(* Standard input: its producer, and the process that reads it. *)
elsewhere == <<script, call, configVars, target, poolVars, file, outcome>>
Produce(p) ==
  /\ open[p] /\ sent[p] < MaxChunks /\ pc[p] = "stdin"
  /\ sent' = [sent EXCEPT ![p] = @ + 1]
  /\ UNCHANGED <<elsewhere, pc, open, gathered, exit>>
CloseStdin(p) ==
  /\ open[p] /\ pc[p] = "stdin"
  /\ open' = [open EXCEPT ![p] = FALSE]
  /\ UNCHANGED <<elsewhere, pc, sent, gathered, exit>>

Chunk(p) ==
  /\ pc[p] = "stdin" /\ gathered[p] < sent[p]
  /\ gathered' = [gathered EXCEPT ![p] = @ + 1]
  /\ UNCHANGED <<elsewhere, pc, sent, open, exit>>

(* A bug: what has come by now is taken for the whole. *)
someRead(p) == gathered[p] = sent[p] /\ (~open[p] \/ gathered[p] > 0)
allRead(p) == gathered[p] = sent[p] /\ ~open[p]
Drained(p) ==
  pc[p] = "stdin" /\ allRead(p) /\ Goto(p, "request") /\ UNCHANGED <<elsewhere, stdinVars>>

(* A bug: only a closed pipe is silent. *)
silentWhenClosed(p) == gathered[p] = 0 /\ ~open[p]
(* The deadline of the first byte: with one in hand the reading goes on. *)
silent(p) == gathered[p] = 0
Deadline(p) ==
  pc[p] = "stdin" /\ withDeadline(p) /\ silent(p) /\ die(p) /\ UNCHANGED <<elsewhere, stdinVars>>

-----------------------------------------------------------------------------
(* The request, and what becomes of it. *)
Deletions == {"deleteVm", "cancelRun", "deleteSession", "deleteMount", "deleteFilesystem"}

(* What the command sees of a run is RunAwait's and parseRunResponse's. *)
RunOutcomes == CompletedRunResponse \union Run
Unfinished == BackgroundRunResponse

(* A bug: the program's exit code is all that counts. *)
runExitCodeAlone(state, code) == code
(* runToCompletedResult, printStoredRun: a missing code is a failure. *)
runExitCode(state, code) == IF state = "failed" /\ code = 0 THEN 1 ELSE code
resultCode(run) ==
  IF run.code # Null THEN run.code ELSE IF run.state = "completed" THEN 0 ELSE 1
statusOf(run) ==
  IF run.state = "running" THEN 0 ELSE runExitCode(run.state, resultCode(run)) % 256

Background(p) == op(p) = "createRun" /\ Value(call[p], "time-to-background") = "0"

(* A command that reports a run: it exits as the run did, or at once. *)
RunAnswered(p) ==
  /\ pc[p] = "request" /\ op(p) \in {"createRun", "getRun"}
  /\ \E run \in RunOutcomes \union {Unfinished}:
       /\ run.state = "running" => op(p) = "getRun" \/ Background(p)
       /\ Background(p) => run.state = "running"
       /\ outcome' = [outcome EXCEPT ![p] = run]
       /\ Exit(p, statusOf(run))
  /\ UNCHANGED <<script, call, configVars, target, stdinVars, poolVars, file>>

(* cmdSignal: the exit code of the delivery, unless it is printed as JSON. *)
SignalAnswered(p) ==
  /\ pc[p] = "request" /\ op(p) = "signal"
  /\ \E run \in Finished({"completed"}, {0, 7}):
       outcome' = [outcome EXCEPT ![p] = run] /\ Exit(p, IF On(call[p], "json") THEN 0 ELSE run.code)
  /\ UNCHANGED <<script, call, configVars, target, stdinVars, poolVars, file>>

(* printMutationResult: the server may say that it did nothing. *)
DeletionAnswered(p) ==
  /\ pc[p] = "request" /\ op(p) \in Deletions
  /\ \E performed \in BOOLEAN:
       /\ outcome' = [outcome EXCEPT ![p].performed = performed]
       /\ Exit(p, IF performed THEN 0 ELSE 1)
  /\ UNCHANGED <<script, call, configVars, target, stdinVars, poolVars, file>>

Answered(p) ==
  /\ pc[p] = "request" /\ op(p) \notin Deletions \union {"createRun", "getRun", "signal", "addPoolCommitment"}
  /\ outcome' = [outcome EXCEPT ![p].performed = TRUE]
  /\ file' = IF readsStdin(p) THEN [file EXCEPT ![p] = gathered[p]] ELSE file
  /\ Exit(p, 0)
  /\ UNCHANGED <<script, call, configVars, target, stdinVars, poolVars>>

(* addPoolCommitment: the pool is read, then its commitments replaced; *)
(* a replacement whose answer is lost may still be performed.          *)
ReadPool(p) ==
  /\ pc[p] = "request" /\ op(p) = "addPoolCommitment"
  /\ read' = [read EXCEPT ![p] = pool]
  /\ Goto(p, "patch")
  /\ UNCHANGED <<script, call, configVars, target, stdinVars, pool, late, file, outcome>>
(* A bug: the new commitment alone. *)
commitmentAlone(p) == {p}
withCommitment(p) == read[p] \union {p}
PatchPool(p) ==
  /\ pc[p] = "patch"
  /\ pool' = withCommitment(p)
  /\ outcome' = [outcome EXCEPT ![p].performed = TRUE]
  /\ Exit(p, 0)
  /\ UNCHANGED <<script, call, configVars, target, stdinVars, read, late, file>>
PatchLost(p) ==
  /\ pc[p] = "patch"
  /\ late' = late \union {p}
  /\ die(p)
  /\ UNCHANGED <<script, call, configVars, target, stdinVars, pool, read, file, outcome>>
LatePatch(p) ==
  /\ p \in late
  /\ late' = late \ {p}
  /\ pool' = withCommitment(p)
  /\ UNCHANGED <<script, pc, call, configVars, target, stdinVars, read, file, outcome, exit>>

(* A refusal or a lost answer; a pool that takes no commitments. *)
RequestFails(p) == pc[p] \in {"request", "patch"} /\ die(p) /\ UNCHANGED <<elsewhere, stdinVars>>

(* hintAuthenticatedOrg: what was not found may belong to another *)
(* organization; asking who we are changes nothing, whatever comes. *)
NotFound(p) ==
  /\ pc[p] \in {"request", "patch"} /\ 404 \in Contract(call[p]).answers
  /\ Goto(p, "hint")
  /\ UNCHANGED <<elsewhere, stdinVars>>
Hint(p) == pc[p] = "hint" /\ die(p) /\ UNCHANGED <<elsewhere, stdinVars>>

Kill(p) == pc[p] # "end" /\ Exit(p, Killed) /\ UNCHANGED <<elsewhere, stdinVars>>

-----------------------------------------------------------------------------
Step(p) ==
  \/ Dispatch(p) \/ cmdConfig(p) \/ OpenConfig(p) \/ FillConfig(p) \/ RenameConfig(p) \/ ConfigFails(p)
  \/ Client(p) \/ Chunk(p) \/ Drained(p) \/ Deadline(p)
  \/ RunAnswered(p) \/ SignalAnswered(p) \/ DeletionAnswered(p) \/ Answered(p)
  \/ ReadPool(p) \/ PatchPool(p) \/ PatchLost(p) \/ RequestFails(p) \/ NotFound(p) \/ Hint(p)
Next == \E p \in Processes: Step(p) \/ Produce(p) \/ CloseStdin(p) \/ LatePatch(p) \/ Kill(p)
(* What has no limit: the user of a shell, and a command run on a machine *)
(* without a timeout, be it the command line's, one that a Dockerfile     *)
(* gives, or the extraction of sync-dir.                                  *)
waitsWithoutLimit(p) ==
  \/ op(p) \in {"shell", "sync-dir"}
  \/ op(p) = "fork" /\ "dockerfile" \in DOMAIN call[p].flags
  \/ op(p) = "createRun" /\ ~Background(p) /\ Value(call[p], "timeout") \in {Absent, "0"}
Pending(p) == pc[p] = "request" /\ waitsWithoutLimit(p)

(* The process is scheduled, and what the client bounds is answered or    *)
(* fails.  Nobody need write to a pipe, close it or kill anything.        *)
Fairness == \A p \in 1..2: WF_vars(p \in Processes /\ ~Pending(p) /\ Step(p))
Spec == Init /\ [][Next]_vars /\ Fairness

-----------------------------------------------------------------------------
(* What a process asks the API, once its handler has let it. *)
Asked(p) == target[p] # NoTarget

(* `run` hands the machine the words from the command on exactly as they *)
(* were written: no option of the program it runs is taken by the CLI,   *)
(* none is dropped or moved, wherever the two dashes stand.  (parseArgs, *)
(* joinRemoteCommand.)                                                   *)
RemoteCommandIsVerbatim ==
  \A p \in Processes: call[p].result = "invocation" /\ op(p) = "createRun" =>
    LET words == call[p].positional
        command == SubSeq(words, Len(words) - Arguments(call[p]) + 2, Len(words))
        argv == script[p].argv
    IN command = SubSeq(argv, Len(argv) - Len(command) + 1, Len(argv))

(* Whatever the flags, no command sends a request that the contract of    *)
(* its operation refuses, with an unknown field, fields that exclude each *)
(* other or one that is required left out, but for two kinds of update:   *)
(* of a machine, and of a session, whose fields are all known.  Nothing   *)
(* keeps `update --immutable` from other fields nor `sessions update      *)
(* --cols` from going without --rows, although the descriptions of these  *)
(* fields do (api-types.ts:1746, 1151).  (The option tables of cli.ts,    *)
(* the guards of its handlers, api-types.ts.)                             *)
misfits(p) ==
  \/ op(p) = "patchVm" /\ ~immutableAlone(fields(call[p]))
  \/ op(p) = "patchSession" /\ ~sizeWhole(fields(call[p]))
OnlyUpdatesMisfit ==
  \A p \in Processes: Asked(p) =>
    fitsContract(call[p]) \/ (misfits(p) /\ fields(call[p]) \subseteq Contract(call[p]).accepts)

(* What k may hold: what it held at first or what some edit gave it. *)
Admissible(k, value) ==
  \/ value = script[1].config[k]
  \/ \E q \in Processes:
       /\ k \in EditableKeys /\ exit[q] = 0
       /\ call[q].result = "invocation" /\ call[q].command = "config"
       /\ Subcommand(call[q]) \in {"set", "unset"} /\ Key(q) = k /\ value = edited(q)[k]

(* Concurrent edits, failures and kills leave the configuration readable, *)
(* every key holds what it held at first or what some edit gave it, and   *)
(* the keys that `config` does not edit are kept.  (writeFileConfig.)     *)
ConfigSurvives == \A k \in ConfigKeys: Admissible(k, config[k])

(* A commitment whose command exited with 0 is in the pool, unless an     *)
(* edit that had read the pool before it replaced it.  (addPoolCommitment *)
(* asks its callers to serialize such edits, index.ts:896.)               *)
AcknowledgedEditsAreKept ==
  \A p \in Processes: exit[p] = 0 /\ Asked(p) /\ op(p) = "addPoolCommitment" =>
    p \in pool \/ \E q \in Processes \ {p}: op(q) = "addPoolCommitment" /\ p \notin read[q] /\ q \in pool

(* What a pipe or a redirected file gives is stored whole or not at all: *)
(* a producer that is slow, stops or has not spoken yet never leaves an  *)
(* empty or a shortened file.  (cmdSync, readAllStdin and the deadline.) *)
StoredWhole(p) == file[p] # Unwritten => file[p] = sent[p] /\ ~open[p]
PipedWriteIsWhole == \A p \in Processes: StoredWhole(p)

(* Exit code 0 means that nothing the command reports went wrong: the     *)
(* deletion was performed, the data is stored, the run goes on, completed *)
(* without a code, or ended with code 0.  A run that failed never exits   *)
(* with 0, nor one that was cancelled without a code; one whose command   *)
(* ended with 0 although it was cancelled does: the exit code is the      *)
(* command's (cli/README.md:99).  `signal --json` leaves the code to the  *)
(* object it prints.  (runExitCode, printMutationResult, cmdSignal.)      *)
TellsTheTruth(p) ==
  exit[p] = 0 /\ Asked(p) =>
    /\ outcome[p].performed
    /\ outcome[p].state # "failed"
    /\ outcome[p].code = Null => outcome[p].state \in {"running", "completed"}
    /\ outcome[p].code \in {0, Null} \/ (op(p) = "signal" /\ On(call[p], "json"))
    /\ readsStdin(p) => file[p] # Unwritten
ExitTellsTheTruth == \A p \in Processes: TellsTheTruth(p)

(* A command comes to its end, or it waits for what has no limit: the     *)
(* machine or the user (waitsWithoutLimit), or a producer that holds its  *)
(* standard input open.  `sync - ` and `policies set` wait for the        *)
(* producer from the start, `sync` without the dash only once it has      *)
(* spoken.  In particular a silent pipe does not hold up a read, nor one  *)
(* that closed a write, and no edit of the configuration, no request and  *)
(* no hint goes on for ever.  (readAllStdinWithFirstByteDeadline.)        *)
WaitsForProducer(p) == pc[p] = "stdin" /\ open[p] /\ (gathered[p] > 0 \/ ~withDeadline(p))
CommandEnds == <>[](\A p \in Processes: pc[p] = "end" \/ WaitsForProducer(p) \/ Pending(p))

-----------------------------------------------------------------------------
(* The inductive invariant. *)
Places == {"start", "config", "opening", "filling", "renaming", "client", "stdin", "request",
           "patch", "hint", "end"}
TypeOK ==
  /\ script \in Scripts /\ pc \in [Processes -> Places] /\ exit \in [Processes -> Int]
  /\ DOMAIN config = ConfigKeys
  /\ DOMAIN seen = Processes /\ \A p \in Processes: DOMAIN seen[p] = ConfigKeys
  /\ DOMAIN temp = Processes /\ DOMAIN target = Processes /\ DOMAIN outcome = Processes
  /\ sent \in [Processes -> 0..MaxChunks] /\ gathered \in [Processes -> 0..MaxChunks]
  /\ open \in [Processes -> BOOLEAN] /\ file \in [Processes -> 0..MaxChunks \union {Unwritten}]
  /\ pool \subseteq Processes /\ late \subseteq Processes /\ read \in [Processes -> SUBSET Processes]

(* What is not reported is not done yet: a process that runs has no code, *)
(* no outcome and no data stored, and before it has a client it asked     *)
(* nothing.                                                               *)
Unreported(p) ==
  /\ pc[p] # "end" => exit[p] = Running /\ outcome[p] = Nothing /\ file[p] = Unwritten
  /\ pc[p] \in {"start", "config", "opening", "filling", "renaming", "client"} => ~Asked(p)

(* A process that edits the configuration has read admissible values, and *)
(* renames what it made of them.                                          *)
Edits(p) ==
  /\ pc[p] \in {"config", "opening", "filling", "renaming"} =>
       call[p].result = "invocation" /\ call[p].command = "config"
  /\ pc[p] \in {"opening", "filling", "renaming"} =>
       /\ Subcommand(call[p]) \in {"set", "unset"} /\ Key(p) \in EditableKeys
       /\ \A k \in ConfigKeys: Admissible(k, seen[p][k])
  /\ pc[p] = "renaming" => temp[p] = edited(p)

(* Nobody sends what it has not read to the end. *)
Reads(p) == pc[p] = "request" /\ readsStdin(p) => gathered[p] = sent[p] /\ ~open[p]

(* Nobody reads the pool twice, or after it patched it. *)
Commits(p) ==
  /\ pc[p] = "patch" => op(p) = "addPoolCommitment"
  /\ p \in pool \union late \union UNION {read[q]: q \in Processes} =>
       pc[p] = "end" /\ op(p) = "addPoolCommitment"

(* Who has a client was called for a command other than config, and who   *)
(* has sent its request passed the guards of that command's handler.      *)
Guarded(p) ==
  /\ pc[p] = "client" \/ Asked(p) => call[p].result = "invocation" /\ call[p].command # "config"
  /\ Asked(p) => usage(call[p])
CallsAreGuarded == \A p \in Processes: Guarded(p)

CliInv ==
  /\ \A p \in Processes: Unreported(p) /\ Edits(p) /\ Reads(p) /\ Commits(p)
  /\ ConfigSurvives /\ AcknowledgedEditsAreKept /\ PipedWriteIsWhole /\ ExitTellsTheTruth
=============================================================================
