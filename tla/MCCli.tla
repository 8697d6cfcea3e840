------------------------------- MODULE MCCli --------------------------------
(* Command lines of `arker`: one process each, or two that interfere. *)
EXTENDS Cli
SX == INSTANCE SequencesExt
FX == INSTANCE FiniteSetsExt

Saved(url) == [apiKey |-> "key", baseUrl |-> url, provider |-> "aws", region |-> "west"]
Empty == Filled(Absent)
Bare == [apiKey |-> Absent, baseUrl |-> Absent, provider |-> Absent, region |-> Absent]
Exported == [apiKey |-> "key", baseUrl |-> Absent, provider |-> "gcp", region |-> Absent]
Process(argv, given, kind) == [argv |-> argv, env |-> given, stdin |-> kind, config |-> Saved(Absent)]
Line(argv) == <<Process(argv, Bare, "none")>>
WithConfig(line, saved) == [n \in DOMAIN line |-> [line[n] EXCEPT !.config = saved]]
Sequenced(set) == FX!FoldSet(LAMBDA x, seq: Append(seq, x), <<>>, set)
Says(names) == [n \in DOMAIN names |-> Word(names[n])]

(* `run`: the words of a command line in any order. *)
RunTokens == {Word("vm"), Word("ls"), Dashes, Option("json"), Option("session-id"), OptionIs("timeout", "1"),
              Option("verbose"), Option("help")}
RunLines ==
  {Line(global \o entry \o rest):
     global \in {<<>>, <<Option("json")>>}, entry \in {<<Word("run")>>, <<Word("vms"), Word("run")>>},
     rest \in SX!SeqOf(RunTokens, 4)}

(* Every command with each number of arguments, alone or with options. *)
ValueOf(spec) ==
  CASE spec.takes = "boolean" -> {Absent, "false"}
    [] spec.takes = "choice" -> {CHOOSE v \in spec.values: TRUE}
    [] OTHER -> {"a"}
OptionsOf(name, spec) ==
  IF name \in Files THEN {OptionIs(name, "a"), OptionIs(name, "missing")}
  ELSE IF name = "limit" THEN {OptionIs(name, "300"), OptionIs(name, "3000")}
  ELSE IF name = "layers" THEN {OptionIs(name, "disk"), OptionIs(name, "memory")}
  ELSE IF name = "time-to-background" THEN {OptionIs(name, "0"), OptionIs(name, "1")}
  ELSE {OptionIs(name, v): v \in ValueOf(spec)}
TokensOf(command, names) ==
  UNION {OptionsOf(n, CommandOptions[command][n]): n \in names \intersect DOMAIN CommandOptions[command]}
Heads ==
  {<<c>>: c \in DOMAIN FlatLimits} \union
  UNION {{<<c>>} \union {<<c, sub>>: sub \in DOMAIN SubcommandLimits[c]}: c \in DOMAIN SubcommandLimits}
SubOf(head) == IF Len(head) = 1 THEN Absent ELSE head[2]
Tails(head) ==
  IF head = <<"signal">> THEN {<<>>, <<"vm">>, <<"vm", "SIGINT">>, <<"vm", "SIGSTOP">>}
  ELSE {<<>>, <<"a">>, <<"a", "b">>, <<"a", "b", "c">>}
Options(head, tail) ==
  TokensOf(head[1], invocationOptions(head[1], SubOf(head), Len(head) - 1 + Len(tail)) \ {"help"})
LinesOf(head, tokens(_, _), flags(_)) ==
  UNION {{Line(Says(head) \o given \o Says(tail)): given \in flags(tokens(head, tail))}: tail \in Tails(head)}
One(tokens) == SX!SeqOf(tokens, 1)
Two(tokens) == SX!SeqOf(tokens, 2)
Three(tokens) == {Sequenced(S): S \in UNION {FX!kSubset(k, tokens): k \in 0..3}}
Combined == {<<"api-keys", "create">>, <<"runs", "ls">>, <<"update">>, <<"sessions", "update">>, <<"shell">>, <<"pools", "rename">>}
CommandLines ==
  UNION ({LinesOf(head, Options, One): head \in Heads} \union {LinesOf(head, Options, Two): head \in Combined})

ForkTokens(head, tail) ==
  {OptionIs(n, "a"): n \in {"source-vm-id", "image", "dockerfile", "source-org-id", "source-org-name",
                            "context", "pool", "pool-id"}}
  \union {Option("nestedvirt"), Option("disk"), OptionIs("no-disk", "false"), OptionIs("layers", "disk")}
ForkLines == LinesOf(<<"fork">>, ForkTokens, Three)
PoolTokens == {OptionIs(n, "1"): n \in Resources} \union
              {OptionIs(n, "a"): n \in {"platform", "account-id", "subnet-id", "file"}} \union {OptionIs("isolation", "vms")}
PoolLines ==
  {Line(Says(<<"pools", "create">>) \o <<OptionIs("type", type)>> \o Sequenced(flags)):
     type \in {"managed", "byoc", "self_hosted"}, flags \in SUBSET PoolTokens}

(* Two processes at once. *)
Edit == Process(Says(<<"pools", "add-commitment", "p">>) \o <<OptionIs("starts-at", "a"), OptionIs("ends-at", "b")>>,
                Bare, "none")
Configures == {Process(Says(words), Bare, "none"):
                 words \in {<<"config", "set", "region", "east">>, <<"config", "unset", "region">>,
                            <<"config", "set", "provider", "gcp">>, <<"config", "set", "apiKey", "k">>,
                            <<"config", "set", "region", "Bad_Label">>, <<"config", "get", "region">>,
                            <<"config", "list">>, <<"config">>, <<"config", "get">>}}
Pairs == {<<Edit, Edit>>} \union (Configures \X (Configures \union {Process(Says(<<"vms", "get", "a">>), Bare, "none")}))

(* Standard input, the environment and what was saved. *)
Piped == {<<Process(Says(words), Bare, kind)>>:
            words \in {<<"sync", "a", "b">>, <<"sync", "a", "b", "-">>, <<"sync", "a", "b", "c">>, <<"policies", "set", "a">>},
            kind \in {"tty", "file", "stream", "none"}}
Placed == {WithConfig(<<Process(flags \o Says(<<"vms", "get", "a">>), given, "none")>>, saved):
             flags \in {<<>>, <<OptionIs("provider", "azure")>>, <<OptionIs("region", "east")>>},
             given \in {Bare, Exported}, saved \in {Empty, Saved(Absent), Saved("private"), Torn}}
Informal == {Line(argv): argv \in {<<>>, Says(<<"pools", "add-commitment", "p">>) \o <<Option("help")>>, <<Option("help")>>, <<Option("version")>>, <<Dashes>>, <<Word("frok")>>,
                                   <<Option("json")>>, <<OptionIs("json", "maybe"), Word("ls")>>,
                                   <<Option("provider"), Word("")>>, <<Word("fork"), Option("vcpu"), Word("70000")>>}}

AllScripts == UNION {RunLines, CommandLines, ForkLines, PoolLines, Pairs, Piped, Placed, Informal}
=============================================================================
