---------------------------- MODULE CliCommands -----------------------------
(***************************************************************************)
(* What each command of `arker` asks of the API: the operation, the        *)
(* guards of its handler (cli.ts), the fields the handler and the client   *)
(* (index.ts) send, and the contract the API publishes for the operation   *)
(* (generated/api-types.ts).                                               *)
(*                                                                         *)
(* "s" is a parsed invocation.  A file that is named "missing" cannot be   *)
(* read, any other holds what the command wants.                           *)
(***************************************************************************)
EXTENDS CliArguments, ApiContract, FiniteSets

Given(s, names) == names \intersect DOMAIN s.flags
On(s, name) == name \in DOMAIN s.flags /\ s.flags[name] = "true"
Value(s, name) == IF name \in DOMAIN s.flags THEN s.flags[name] ELSE Absent

(* main and the handlers' switches: the operation of a command. *)
ListVmsBy == {Absent, "ls", "list"}
Removing == {"rm", "delete"}
vmsOperation(sub) ==
  CASE sub \in ListVmsBy -> "listVms" [] sub = "get" -> "getVm" [] sub \in Removing -> "deleteVm"
    [] sub = "fork" -> "fork" [] sub = "run" -> "createRun" [] sub = "update" -> "patchVm"
    [] OTHER -> Absent
runsOperation(sub, arguments) ==
  CASE sub \in Listing -> IF arguments = 0 THEN "listOrgRuns" ELSE "listRuns"
    [] sub = "get" -> "getRun" [] sub \in {"rm", "cancel"} -> "cancelRun" [] OTHER -> Absent
sessionsOperation(sub) ==
  CASE sub \in Listing -> "listSessions" [] sub = "get" -> "getSession" [] sub = "create" -> "createSession"
    [] sub \in Removing -> "deleteSession" [] sub = "update" -> "patchSession" [] OTHER -> Absent
mountsOperation(sub) ==
  CASE sub \in Listing -> "listMounts" [] sub = "create" -> "createMount"
    [] sub \in Removing -> "deleteMount" [] OTHER -> Absent
filesystemsOperation(sub) ==
  CASE sub \in ListVmsBy -> "listFilesystems" [] sub = "create" -> "createFilesystem"
    [] sub = "get" -> "getFilesystem" [] sub \in Removing -> "deleteFilesystem" [] OTHER -> Absent
poolsOperation(sub) ==
  CASE sub \in ListVmsBy -> "listPools" [] sub = "get" -> "getPool" [] sub = "create" -> "createPool"
    [] sub = "update" -> "updatePool" [] sub = "rename" -> "renamePool" [] sub \in Removing -> "deletePool"
    [] sub = "add-commitment" -> "addPoolCommitment" [] sub = "workers" -> "listPoolWorkers"
    [] OTHER -> Absent
apiKeysOperation(sub) ==
  CASE sub \in ListVmsBy -> "listApiKeys" [] sub = "create" -> "createApiKey"
    [] sub \in Removing -> "revokeApiKey" [] OTHER -> Absent
policiesOperation(sub) ==
  CASE sub \in {Absent, "get"} -> "getVmPolicies" [] sub = "set" -> "putVmPolicies" [] OTHER -> Absent

Nested == {"vms", "runs", "sessions", "mounts", "filesystems", "fs", "pools", "api-keys", "policies", "config"}
Arguments(s) == Len(s.positional) - (IF s.command \in Nested /\ s.positional # <<>> THEN 1 ELSE 0)
Argument(s, n) == s.positional[Len(s.positional) - Arguments(s) + n].name
Operation(s) ==
  LET sub == Subcommand(s) IN
  CASE s.command = "vms" -> vmsOperation(sub)
    [] s.command \in Listing -> "listVms"
    [] s.command \in Removing -> "deleteVm"
    [] s.command = "run" -> "createRun"
    [] s.command = "update" -> "patchVm"
    [] s.command = "runs" -> runsOperation(sub, Arguments(s))
    [] s.command = "sessions" -> sessionsOperation(sub)
    [] s.command = "mounts" -> mountsOperation(sub)
    [] s.command \in {"filesystems", "fs"} -> filesystemsOperation(sub)
    [] s.command = "pools" -> poolsOperation(sub)
    [] s.command = "api-keys" -> apiKeysOperation(sub)
    [] s.command = "policies" -> policiesOperation(sub)
    [] s.command = "regions" -> "listRegions"
    [] OTHER -> s.command

-----------------------------------------------------------------------------
(* The guards of the handlers: how many arguments they want, which flags *)
(* they want together, and the files they read.                          *)
Wanted ==
  Of({"getVm", "deleteVm", "patchVm", "listRuns", "listSessions", "createSession", "listMounts",
      "createMount", "getFilesystem", "deleteFilesystem", "getPool", "updatePool", "renamePool",
      "deletePool", "addPoolCommitment", "listPoolWorkers", "revokeApiKey", "getVmPolicies",
      "putVmPolicies"}, 1)
  @@ Of({"createRun", "getRun", "cancelRun", "getSession", "deleteSession", "patchSession",
         "deleteMount", "signal", "sync"}, 2)
  @@ "sync-dir" :> 3

Resources == {"vcpu", "memory-mib", "disk-mib"}
Keys == {"ssh-public-key", "ssh-public-keys-file"}
exclusive(s, names) == Cardinality(Given(s, names)) <= 1

(* A bug: the name and the identifier both go out. *)
poolFlagsUnchecked(s) == TRUE
(* poolFlags: a pool is named or identified. *)
poolFlags(s) == exclusive(s, {"pool", "pool-id"})

(* cmdFork *)
forkSources(s) ==
  Given(s, {"source-vm-id", "source-vm-name", "image", "dockerfile"})
  \union (IF Arguments(s) > 0 THEN {"source-vm-name"} ELSE {})
forkUsage(s) ==
  /\ ~(Arguments(s) > 0 /\ "source-vm-name" \in DOMAIN s.flags)
  /\ Cardinality(forkSources(s)) = 1
  /\ exclusive(s, {"source-org-id", "source-org-name"})
  /\ Given(s, {"source-org-id", "source-org-name"}) # {} => forkSources(s) = {"source-vm-name"}
  /\ Given(s, {"context"}) # {} => forkSources(s) = {"dockerfile"}
  /\ exclusive(s, {"disk", "no-disk"})
  /\ Given(s, {"nestedvirt", "registry-auth-file"}) # {} => forkSources(s) \subseteq {"image", "dockerfile"}
  /\ "layers" \in DOMAIN s.flags => /\ forkSources(s) \subseteq {"source-vm-id", "source-vm-name"}
                                    /\ s.flags["layers"] \in {"disk", "disk,memory"}
  /\ poolFlags(s)

(* poolRequestFromArgs *)
ByocFlags == {"account-id", "subnet-id", "security-group-id", "instance-type", "isolation"}
poolUsage(s) ==
  LET type == Value(s, "type") IN
  IF "file" \in DOMAIN s.flags
  THEN Given(s, ByocFlags \union Resources \union {"type", "platform", "name"}) = {}
  ELSE /\ type # Absent
       /\ type # "byoc" => Given(s, ByocFlags) = {}
       /\ type = "self_hosted" => /\ "platform" \notin DOMAIN s.flags
                                  /\ Given(s, Resources) \in {{}, Resources}
       /\ type # "self_hosted" => Resources \union {"platform"} \subseteq DOMAIN s.flags
       /\ type = "byoc" => {"account-id", "subnet-id"} \subseteq DOMAIN s.flags

(* cmdShell *)
shellMachine(s) == Arguments(s) > 0 \/ "vm-id" \in DOMAIN s.flags
shellUsage(s) ==
  /\ ~(Arguments(s) > 0 /\ "vm-id" \in DOMAIN s.flags)
  /\ shellMachine(s) # ("source-vm-name" \in DOMAIN s.flags)
  /\ exclusive(s, {"source-org-id", "source-org-name"})
  /\ "session-id" \in DOMAIN s.flags => shellMachine(s)
  /\ Given(s, {"source-org-id", "source-org-name"}) # {} => ~shellMachine(s)

(* cmdUpdate: something to update, if only `--immutable=false`. *)
updateUsage(s) ==
  Given(s, {"description", "vgpu", "policies-file", "immutable"} \union Resources \union Keys) # {}

Signals == {"SIGINT", "SIGTERM", "SIGKILL", "SIGHUP"}
Large(s, limit) == "limit" \in DOMAIN s.flags /\ Numerals[s.flags["limit"]] > limit
Files == {"policies-file", "registry-auth-file", "ssh-public-keys-file", "env-file", "file", "dockerfile", "context"}

usage(s) ==
  LET op == Operation(s) IN
  /\ op # Absent
  /\ op \in DOMAIN Wanted => Arguments(s) >= Wanted[op]
  /\ \A f \in Given(s, Files): s.flags[f] # "missing"
  /\ op = "fork" => forkUsage(s)
  /\ op = "shell" => shellUsage(s)
  /\ op = "patchVm" => updateUsage(s)
  /\ op = "createPool" => poolUsage(s)
  /\ op = "createApiKey" => exclusive(s, {"pool-id", "vm-id"})
  /\ op = "patchSession" => Given(s, {"cols", "rows", "timeout-secs"}) # {}
  /\ op = "createMount" => "filesystem-id" \in DOMAIN s.flags
  /\ op = "createFilesystem" => Arguments(s) > 0 \/ "name" \in DOMAIN s.flags
  /\ op = "renamePool" => (Arguments(s) = 1) = On(s, "clear")
  /\ op = "updatePool" => "file" \in DOMAIN s.flags
  /\ op = "addPoolCommitment" => {"starts-at", "ends-at"} \subseteq DOMAIN s.flags
  /\ op = "signal" => Argument(s, 2) \in Signals
  /\ op = "sync" => ~(On(s, "read") /\ Arguments(s) > 2)
  /\ op = "listOrgRuns" => (Large(s, 200) => On(s, "lite"))
  /\ op = "listRuns" => ~Large(s, 1000)

-----------------------------------------------------------------------------
(* The fields of a request: a flag becomes the field of the same name, *)
(* with these exceptions, and some are always there.                   *)
Renamed ==
  "listVms" :> ("source-org-id" :> "org_id") @@ "patchVm" :> Of(Resources \union {"vgpu"}, "resources")
  @@ "fork" :> (Of(Resources \union {"vgpu"}, "resources") @@ Of({"disk", "no-disk"}, "disk")
                @@ "pool" :> "pool_name" @@ "platform" :> "platforms" @@ "dockerfile" :> "image")
  @@ "createPool" :> (Of(Resources, "resources") @@ Of(ByocFlags \ {"isolation"}, "byoc"))
  @@ "createApiKey" :> Of({"pool-id", "vm-id"}, "scopes")
  @@ "addPoolCommitment" :> Of({"starts-at", "ends-at"}, "commitments")
  @@ "shell" :> ("cancel-ttl" :> "cancel_ttl_secs" @@ "no-persist" :> "persist")
Common ==
  Of(Keys, "ssh_public_keys") @@ Of({"policies-file"}, "policies") @@ Of({"env", "env-file"}, "env")
  @@ "registry-auth-file" :> "registry_auth"
Snake ==
  ("source-vm-id" :> "source_vm_id" @@ "source-vm-name" :> "source_vm_name" @@ "pool-id" :> "pool_id"
   @@ "source-org-id" :> "source_org_id" @@ "source-org-name" :> "source_org_name")
  @@ ("queueing-timeout" :> "queueing_timeout" @@ "session-id" :> "session_id" @@ "session-idx" :> "session_idx"
      @@ "end-symbol" :> "end_symbol" @@ "time-to-background" :> "time_to_background")
  @@ ("created-after" :> "created_after" @@ "created-before" :> "created_before"
      @@ "started-after" :> "started_after" @@ "started-before" :> "started_before"
      @@ "completed-after" :> "completed_after")
  @@ ("status-min" :> "status_min" @@ "status-max" :> "status_max" @@ "timeout-secs" :> "timeout_secs"
      @@ "filesystem-id" :> "filesystem_id" @@ "name-prefix" :> "name_prefix"
      @@ "idempotency-key" :> "Idempotency-Key")
fieldOf(op, flag) ==
  IF op \in DOMAIN Renamed /\ flag \in DOMAIN Renamed[op] THEN Renamed[op][flag]
  ELSE IF flag \in DOMAIN (Common @@ Snake) THEN (Common @@ Snake)[flag] ELSE flag

(* Flags the handler keeps to itself. *)
Local(s) ==
  {"help", "json", "context", "read", "assume-empty", "clear", "file"}
  \union (IF Operation(s) = "listVms" THEN {} ELSE {"provider", "region"})
  \union (IF Operation(s) = "shell"
          THEN {"cwd", "session-id", "source-org-id", "source-org-name", "source-vm-name", "vm-id"} ELSE {})
  \union (IF Value(s, "no-disk") = "false" THEN {"no-disk"} ELSE {})
  \union (IF Operation(s) = "patchVm" /\ ~On(s, "immutable") THEN {"immutable"} ELSE {})

Always(s) ==
  LET op == Operation(s) IN
  CASE op = "createRun" -> {"command"} \union (IF On(s, "json") THEN {} ELSE {"time_to_background"})
    [] op = "signal" -> {"signal"}
    [] op = "fork" /\ Arguments(s) > 0 -> {"source_vm_name"}
    [] op = "createFilesystem" -> {"name"}
    [] op = "createPool" -> IF Value(s, "type") = "byoc" THEN {"provider"} ELSE {}
    [] op = "renamePool" -> {"name"}
    [] OTHER -> {}
fields(s) == {fieldOf(Operation(s), f): f \in DOMAIN s.flags \ Local(s)} \union Always(s)

-----------------------------------------------------------------------------
(* The contract of the operation a command asks for. *)
RequestOf ==
  Of({"renamePool", "addPoolCommitment"}, updatePool) @@ "signal" :> controlRun
  @@ "shell" :> attachSessionPty @@ "sync-dir" :> sync
Contract(s) == (RequestOf @@ Operations)[Operation(s)]

fitsFork(body) ==
  /\ body \intersect UNION (ForkVariants \union {{"dockerfile"}}) \in ForkVariants
  /\ ~{"pool_id", "pool_name"} \subseteq body
  /\ "nestedvirt" \in body => "image" \in body
fitsPool(type, body) ==
  /\ PoolVariants[type].requires \subseteq body
  /\ body \subseteq PoolVariants[type].requires \union PoolVariants[type].optional

(* What descriptions add to the schemas of two bodies. *)
immutableAlone(body) == "immutable" \in body => body = {"immutable"}
sizeWhole(body) == ("cols" \in body) = ("rows" \in body)

fitsContract(s) ==
  LET op == Operation(s) IN
  /\ op \in DOMAIN RequestOf \union DOMAIN Operations
  /\ fields(s) \subseteq Contract(s).accepts
  /\ op = "fork" => fitsFork(fields(s))
  /\ op = "createPool" /\ "type" \in DOMAIN s.flags => fitsPool(s.flags["type"], fields(s))
  /\ op = "patchVm" => immutableAlone(fields(s))
  /\ op = "patchSession" => sizeWhole(fields(s))
  /\ op = "createRun" => "command" \in fields(s)
  /\ op = "createMount" => "filesystem_id" \in fields(s)
  /\ op = "createFilesystem" => "name" \in fields(s)
  /\ op = "createApiKey" => ~{"pool-id", "vm-id"} \subseteq DOMAIN s.flags
  /\ op = "listOrgRuns" => ~Large(s, IF On(s, "lite") THEN 20000 ELSE 200)

=============================================================================
