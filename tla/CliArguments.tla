---------------------------- MODULE CliArguments ----------------------------
(***************************************************************************)
(* How `arker` reads its command line (cli.ts): global options, a command, *)
(* its options and positional arguments, and, for `run`, the remote        *)
(* command, which belongs to the machine and not to the CLI.               *)
(*                                                                         *)
(* An argument is a token: a word, an option `--name` or `--name=value`    *)
(* (`-h` is `--help`), or the two dashes.  A flag's value is the name of   *)
(* the token it was given as.                                              *)
(***************************************************************************)
EXTENDS Integers, Sequences, Tables

Absent == "absent"
Token(kind, name, value) == [kind |-> kind, name |-> name, value |-> value]
Tokens == [kind : {"word", "option", "dashes"}, name : STRING, value : STRING]
Word(name) == Token("word", name, Absent)
Option(name) == Token("option", name, Absent)
OptionIs(name, value) == Token("option", name, value)
Dashes == Token("dashes", "", Absent)

(* Numbers, as written.  The largest is beyond every limit. *)
Numerals == "0" :> 0 @@ "1" :> 1 @@ "300" :> 300 @@ "3000" :> 3000 @@ "70000" :> 70000
Between(low, high) == {n \in DOMAIN Numerals : low <= Numerals[n] /\ Numerals[n] <= high}

-----------------------------------------------------------------------------
(* What an option takes: nothing, any text that is not blank, any text, or *)
(* one of a set of values.                                                 *)
Boolean == [takes |-> "boolean", values |-> {}]
Text == [takes |-> "text", values |-> {}]
TextOrBlank == [takes |-> "any", values |-> {}]
OneOf(values) == [takes |-> "choice", values |-> values]
Natural == OneOf(Between(0, 70000))
Positive == OneOf(Between(1, 70000))

Accepts(spec, value) ==
  \/ spec.takes = "any"
  \/ spec.takes = "text" /\ value # ""
  \/ spec.takes = "choice" /\ value \in spec.values

GlobalOptions == Of({"help", "json"}, Boolean) @@ Of({"provider", "region"}, Text)
PaginationOptions == "cursor" :> Text @@ "limit" :> OneOf(Between(1, 1000))
ForkResourceOptions ==
  Of({"disk-mib", "memory-mib"}, Natural) @@ "vcpu" :> OneOf(Between(0, 255)) @@ "vgpu" :> OneOf({"1"})
ForkOptions ==
  GlobalOptions @@ ForkResourceOptions @@ "description" :> TextOrBlank @@ "queueing-timeout" :> Natural
  @@ Of({"disk", "durable", "nestedvirt", "no-disk", "public"}, Boolean)
  @@ Of({"context", "dockerfile", "image", "layers", "name", "platform", "policies-file", "pool",
         "pool-id", "registry-auth-file", "source-org-id", "source-org-name", "source-vm-id",
         "source-vm-name", "ssh-public-key", "ssh-public-keys-file"}, Text)
RunOptions ==
  GlobalOptions @@ Of({"end-symbol", "idempotency-key", "policies-file", "session-id"}, Text)
  @@ Of({"queueing-timeout", "session-idx", "timeout", "time-to-background"}, Natural)
VmListOptions ==
  GlobalOptions @@ PaginationOptions @@ "public" :> Boolean @@ "state" :> OneOf({"idle", "running"})
  @@ Of({"created-after", "created-before", "platform", "source-org-id"}, Text)
RunListOptions ==
  GlobalOptions @@ "lite" :> Boolean @@ "limit" :> OneOf(Between(1, 20000))
  @@ "dir" :> OneOf({"asc", "desc"}) @@ "endpoint" :> OneOf({"run", "fork", "sync"})
  @@ "sort" :> OneOf({"when", "status", "path", "total", "queue", "your_code", "runtime"})
  @@ "state" :> OneOf({"pending", "running", "completed", "cancelled", "failed"})
  @@ Of({"offset", "since", "status-max", "status-min", "until"}, Natural)
  @@ Of({"actions", "completed-after", "cursor", "runtime", "search", "started-after",
         "started-before", "status", "vm", "vms"}, Text)
PoolListOptions == GlobalOptions @@ "cursor" :> Text @@ "limit" :> OneOf(Between(1, 100))
PoolCreateOptions ==
  GlobalOptions @@ Of({"disk-mib", "memory-mib", "vcpu"}, Natural) @@ "isolation" :> OneOf({"vms"})
  @@ "type" :> OneOf({"managed", "byoc", "self_hosted"})
  @@ Of({"platform", "name", "file", "account-id", "subnet-id", "security-group-id", "instance-type"}, Text)
PoolOptions(subcommand) ==
  CASE subcommand \in {Absent, "ls", "list"} -> PoolListOptions
    [] subcommand = "create" -> PoolCreateOptions
    [] subcommand = "update" -> GlobalOptions @@ "file" :> Text
    [] subcommand = "rename" -> GlobalOptions @@ "clear" :> Boolean
    [] subcommand = "add-commitment" -> GlobalOptions @@ Of({"starts-at", "ends-at"}, Text)
    [] OTHER -> GlobalOptions
ApiKeyOptions == GlobalOptions @@ Of({"name", "pool-id", "vm-id"}, Text)
UpdateOptions ==
  GlobalOptions @@ ForkResourceOptions @@ "description" :> TextOrBlank @@ "immutable" :> Boolean
  @@ Of({"policies-file", "ssh-public-key", "ssh-public-keys-file"}, Text)
SessionCreateOptions ==
  GlobalOptions @@ Of({"cols", "rows"}, Positive) @@ "pty" :> Boolean
  @@ Of({"command", "cwd", "env", "env-file"}, Text)
SessionListOptions ==
  GlobalOptions @@ PaginationOptions @@ "state" :> OneOf({"idle", "pending", "running"})
SessionUpdateOptions ==
  GlobalOptions @@ Of({"cols", "rows"}, Positive) @@ "timeout-secs" :> Natural
FilesystemOptions == GlobalOptions @@ PaginationOptions @@ Of({"name", "name-prefix"}, Text)
MountOptions == GlobalOptions @@ PaginationOptions @@ Of({"filesystem-id", "path"}, Text)
ShellOptions ==
  GlobalOptions @@ Of({"cancel-ttl"}, Natural) @@ Of({"cols", "rows"}, Positive)
  @@ Of({"no-persist", "persist"}, Boolean)
  @@ Of({"command", "cwd", "session-id", "source-org-id", "source-org-name", "source-vm-name", "vm-id"}, Text)
SignalOptions == GlobalOptions @@ "session-id" :> Text @@ "session-idx" :> Natural

(* COMMAND_OPTIONS: what is understood while the arguments are read, *)
(* before the subcommand is known.                                   *)
CommandOptions ==
  Of({"delete", "rm", "whoami"}, GlobalOptions) @@ Of({"config", "regions"}, Of({"help", "json"}, Boolean))
  @@ Of({"list", "ls"}, VmListOptions) @@ Of({"filesystems", "fs"}, FilesystemOptions)
  @@ "api-keys" :> ApiKeyOptions @@ "fork" :> ForkOptions @@ "run" :> RunOptions
  @@ "runs" :> RunListOptions @@ "mounts" :> MountOptions @@ "shell" :> ShellOptions
  @@ "sessions" :> (SessionListOptions @@ SessionCreateOptions @@ SessionUpdateOptions)
  @@ "policies" :> (GlobalOptions @@ "file" :> Text) @@ "signal" :> SignalOptions
  @@ "pools" :> (PoolCreateOptions @@ PoolListOptions @@ PoolOptions("update") @@ PoolOptions("rename")
                 @@ PoolOptions("add-commitment"))
  @@ "sync" :> (GlobalOptions @@ "read" :> Boolean)
  @@ "sync-dir" :> (GlobalOptions @@ "assume-empty" :> Boolean)
  @@ "update" :> UpdateOptions
  @@ "vms" :> (VmListOptions @@ RunOptions @@ ForkOptions @@ "immutable" :> Boolean)
Commands == DOMAIN CommandOptions

-----------------------------------------------------------------------------
(* Reading.  The state of the two loops of parseInvocation and parseArgs: *)
(* "pending" is the option that takes the next argument as its value.     *)
Start == [command |-> Absent, positional |-> <<>>, flags |-> <<>>, active |-> TRUE,
          pending |-> Absent, result |-> "more"]
Die(s) == [s EXCEPT !.result = "die"]
Specs(s) == IF s.command = Absent THEN GlobalOptions ELSE CommandOptions[s.command]

(* A bug: the boundary only after the command's first argument. *)
lateBoundary(command, positional) ==
  \/ command = "run" /\ Len(positional) >= 3
  \/ command = "vms" /\ Len(positional) >= 4 /\ positional[1].name = "run"
(* Where a remote command has begun, options are no longer the CLI's. *)
remoteBoundary(command, positional) ==
  \/ command = "run" /\ Len(positional) >= 2
  \/ command = "vms" /\ Len(positional) >= 3 /\ positional[1].name = "run"

setFlag(s, name, value) ==
  IF Accepts(Specs(s)[name], value)
  THEN [s EXCEPT !.flags = name :> value @@ s.flags, !.pending = Absent]
  ELSE Die(s)

booleanValue(value) ==
  CASE value \in {Absent, "true", "1"} -> "true"
    [] value \in {"false", "0"} -> "false"
    [] OTHER -> "neither"

parseOption(s, token) ==
  IF token.name \notin DOMAIN Specs(s) THEN Die(s)
  ELSE IF Specs(s)[token.name].takes = "boolean"
  THEN IF booleanValue(token.value) = "neither" THEN Die(s)
       ELSE [s EXCEPT !.flags = token.name :> booleanValue(token.value) @@ s.flags]
  ELSE IF token.value # Absent THEN setFlag(s, token.name, token.value)
  ELSE [s EXCEPT !.pending = token.name]

takePositional(s, token) ==
  LET positional == Append(s.positional, token) IN
    [s EXCEPT !.positional = positional,
              !.active = s.active /\ ~remoteBoundary(s.command, positional)]

takeCommand(s, token) ==
  IF token.name \in Commands THEN [s EXCEPT !.command = token.name] ELSE Die(s)

readToken(s, token) ==
  IF s.result # "more" THEN s
  ELSE IF s.pending # Absent THEN setFlag(s, s.pending, token.name)
  ELSE IF s.command = Absent /\ token \in {Option("help"), Option("version")}
  THEN [s EXCEPT !.result = token.name]
  ELSE IF s.active /\ token.kind = "option" THEN parseOption(s, token)
  ELSE IF s.command = Absent THEN takeCommand(s, token)
  ELSE IF s.active /\ token.kind = "dashes" THEN [s EXCEPT !.active = FALSE]
  ELSE takePositional(s, token)

-----------------------------------------------------------------------------
(* Which options a subcommand takes, and how many arguments. *)
Subcommand(s) == IF s.positional = <<>> THEN Absent ELSE s.positional[1].name
Listing == {"ls", "list"}

runsListOptions(vm) ==
  LET excluded == IF vm
                  THEN {"actions", "dir", "endpoint", "lite", "offset", "provider", "region", "runtime",
                        "search", "since", "sort", "status", "status-max", "status-min", "until", "vm", "vms"}
                  ELSE {"completed-after", "cursor", "started-after", "started-before", "state"}
  IN DOMAIN RunListOptions \ excluded

invocationOptions(command, sub, arguments) ==
  CASE command = "vms" /\ sub \in {Absent} \union Listing -> DOMAIN VmListOptions
    [] command = "vms" /\ sub = "fork" -> DOMAIN ForkOptions
    [] command = "vms" /\ sub = "run" -> DOMAIN RunOptions
    [] command = "vms" /\ sub = "update" -> DOMAIN UpdateOptions
    [] command = "runs" /\ sub \in Listing -> runsListOptions(arguments > 1)
    [] command = "sessions" /\ sub \in Listing -> DOMAIN SessionListOptions
    [] command = "sessions" /\ sub = "create" -> DOMAIN SessionCreateOptions
    [] command = "sessions" /\ sub = "update" -> DOMAIN SessionUpdateOptions
    [] command = "mounts" /\ sub \in Listing -> DOMAIN MountOptions \ {"path"}
    [] command = "mounts" /\ sub = "create" -> DOMAIN MountOptions \ DOMAIN PaginationOptions
    [] command \in {"filesystems", "fs"} /\ sub \in {Absent} \union Listing -> DOMAIN FilesystemOptions \ {"name"}
    [] command \in {"filesystems", "fs"} /\ sub = "create" -> DOMAIN GlobalOptions \union {"name"}
    [] command = "pools" -> DOMAIN PoolOptions(sub)
    [] command = "api-keys" /\ sub = "create" -> DOMAIN ApiKeyOptions
    [] command = "policies" /\ sub = "set" -> DOMAIN GlobalOptions \union {"file"}
    [] OTHER ->
         IF command \in {"vms", "runs", "sessions", "mounts", "filesystems", "fs", "api-keys", "policies"}
         THEN DOMAIN GlobalOptions ELSE DOMAIN CommandOptions[command]

Many == 1000
FlatLimits ==
  Of({"delete", "rm", "fork", "shell", "update"}, 1) @@ Of({"list", "ls", "regions", "whoami"}, 0)
  @@ "run" :> Many @@ "signal" :> 2 @@ Of({"sync", "sync-dir"}, 3)
SubcommandLimits ==
  "api-keys" :> (Of({"ls", "list", "create"}, 0) @@ Of({"rm", "delete"}, 1))
  @@ "config" :> ("set" :> 2 @@ "list" :> 0 @@ Of({"get", "unset"}, 1))
  @@ Of({"filesystems", "fs"}, Of({"ls", "list"}, 0) @@ Of({"create", "get", "rm", "delete"}, 1))
  @@ "runs" :> (Of({"ls", "list"}, 1) @@ Of({"get", "rm", "cancel"}, 2))
  @@ "sessions" :> (Of({"ls", "list", "create"}, 1) @@ Of({"get", "rm", "delete", "update"}, 2))
  @@ "policies" :> Of({"get", "set"}, 1)
  @@ "pools" :> (Of({"ls", "list", "create"}, 0) @@ "rename" :> 2
                 @@ Of({"get", "update", "rm", "delete", "add-commitment", "workers"}, 1))
  @@ "mounts" :> (Of({"ls", "list", "create"}, 1) @@ Of({"rm", "delete"}, 2))
  @@ "vms" :> (Of({"ls", "list"}, 0) @@ "run" :> Many @@ Of({"get", "rm", "delete", "fork", "update"}, 1))

withinLimits(command, sub, arguments) ==
  IF command \in DOMAIN FlatLimits THEN arguments <= FlatLimits[command]
  ELSE \/ sub = Absent
       \/ /\ sub \in DOMAIN SubcommandLimits[command]
          /\ arguments <= SubcommandLimits[command][sub] + 1

validateInvocationOptions(s) ==
  /\ withinLimits(s.command, Subcommand(s), Len(s.positional))
  /\ DOMAIN s.flags \subseteq invocationOptions(s.command, Subcommand(s), Len(s.positional))

(* parseInvocation: "help", "version", "die" or an "invocation". *)
Invocation(s) ==
  IF s.result # "more" THEN s
  ELSE IF s.pending # Absent THEN Die(s)
  ELSE IF s.command = Absent \/ ("help" \in DOMAIN s.flags /\ s.flags["help"] = "true")
  THEN [s EXCEPT !.result = "help"]
  ELSE IF validateInvocationOptions(s) THEN [s EXCEPT !.result = "invocation"]
  ELSE Die(s)
parseInvocation(argv) ==
  LET state[n \in 0..Len(argv)] == IF n = 0 THEN Start ELSE readToken(state[n - 1], argv[n])
  IN Invocation(state[Len(argv)])
=============================================================================
