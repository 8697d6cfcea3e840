---------------------------- MODULE BuildContext ----------------------------
(***************************************************************************)
(* What a Dockerfile build reads on this side: the instructions of the     *)
(* file (buildSpec.ts), the rules of .dockerignore (dockerignore.ts) and   *)
(* the sources a COPY names (build.ts).  Pure: text in, steps out.         *)
(*                                                                         *)
(* A path is the sequence of its segments, relative to the context; that   *)
(* of the context itself is the empty string, one empty segment.  Quoting, *)
(* line continuations and the grammar of flags are left to the parser.     *)
(***************************************************************************)
EXTENDS Integers, Sequences, FiniteSets, SequencesExt

CONSTANTS
    None,    \* no flag, no interpreter, no user
    Dotted,  \* names that begin with a dot
    Urls     \* sources of an ADD that are http or https addresses

-----------------------------------------------------------------------------
(* parseDockerfile.  An instruction is [word, args, exec, from, chown,     *)
(* checksum]; a step is an instruction with the interpreter it runs under. *)

Known == {"FROM", "RUN", "COPY", "ADD", "ENV", "WORKDIR", "USER", "ARG",
          "LABEL", "EXPOSE", "ENTRYPOINT", "CMD", "SHELL"}

\* The DockerfileErrors of one instruction.  An argument of FROM is None when
\* it holds a variable; one of ARG is [name, default].
Unsupported(i) ==
    \/ i.word \notin Known
    \/ i.word \in {"FROM", "RUN", "WORKDIR", "USER", "EXPOSE", "ENV", "ARG", "SHELL"} /\ i.args = <<>>
    \/ i.word = "FROM" /\ i.args[1] = None
    \/ i.word = "COPY" /\ (i.from \/ Len(i.args) < 2)
    \/ i.word = "ADD" /\ (Len(i.args) # 2 \/ i.args[1] \notin Urls)
    \/ i.word = "SHELL" /\ ~i.exec

Parses(dockerfile) ==
    /\ \A k \in DOMAIN dockerfile : ~Unsupported(dockerfile[k])
    /\ Cardinality({k \in DOMAIN dockerfile : dockerfile[k].word = "FROM"}) = 1

\* Mutant: an exec form goes through the interpreter too.
CommandLineAlways(i, shell) ==
    IF i.word \in {"RUN", "ENTRYPOINT", "CMD"} THEN shell ELSE None

\* commandLine: SHELL replaces the interpreter of shell forms.
CommandLine(i, shell) ==
    IF i.word \in {"RUN", "ENTRYPOINT", "CMD"} /\ ~i.exec THEN shell ELSE None

StepsOf(i, shell) ==
    LET Step(args) == [word |-> i.word, args |-> args, chown |-> i.chown,
                       checksum |-> i.checksum, shell |-> CommandLine(i, shell)]
    IN  CASE i.word \in {"FROM", "SHELL"} -> <<>>
          [] i.word = "ARG" -> [n \in DOMAIN i.args |-> Step(<<i.args[n]>>)]
          [] OTHER -> <<Step(i.args)>>

\* The loop of parseDockerfile: what stands before FROM is kept as well.
Steps(dockerfile) ==
    LET read[n \in 0..Len(dockerfile)] ==
            IF n = 0 THEN [shell |-> None, steps |-> <<>>]
            ELSE LET i == dockerfile[n]
                     before == read[n - 1]
                 IN  [shell |-> IF i.word = "SHELL" THEN i.args ELSE before.shell,
                      steps |-> before.steps \o StepsOf(i, before.shell)]
    IN  read[Len(dockerfile)].steps

-----------------------------------------------------------------------------
(* .dockerignore: a rule is [pattern, negated], a pattern a sequence of    *)
(* names, * and **.                                                        *)

Root == <<"">>

\* patternToRegex: * is one segment, which may be empty; **/ any number of
\* them, a final ** whatever is left.
PatternMatches(pattern, path) ==
    LET rest[i \in 1..Len(pattern) + 1, j \in 1..Len(path) + 1] ==
            IF i > Len(pattern) THEN j > Len(path)
            ELSE /\ j <= Len(path)
                 /\ IF pattern[i] = "**" THEN \/ i = Len(pattern)
                                              \/ \E k \in j..Len(path) : rest[i + 1, k]
                    ELSE pattern[i] \in {"*", path[j]} /\ rest[i + 1, j + 1]
    IN  rest[1, 1]

\* A rule for a directory holds for what is below it.
RuleMatches(rule, path) ==
    \E n \in 1..Len(path) : PatternMatches(rule.pattern, SubSeq(path, 1, n))

\* The loop over the rules: the file is ignored after the n-th one or not.
Ignores(rules, path) ==
    LET ignored[n \in 0..Len(rules)] ==
            IF n = 0 THEN FALSE
            ELSE IF RuleMatches(rules[n], path) THEN ~rules[n].negated
            ELSE ignored[n - 1]
    IN  ignored[Len(rules)]

-----------------------------------------------------------------------------
(* A context is [files, executable, dirs, links, rules]: sets of paths,    *)
(* and links a function to paths.  A path outside begins with "..".        *)

Exists(context) == context.files \cup context.dirs \cup DOMAIN context.links
Outside(path) == Head(path) = ".."
Real(context, path) == IF path \in DOMAIN context.links THEN context.links[path] ELSE path
Below(dir, path) == path # Root /\ (dir = Root \/ IsStrictPrefix(dir, path))

\* nodePath.relative, and the re-anchoring of a path below a copied directory.
Relative(dir, path) == IF dir = Root THEN path ELSE SubSeq(path, Len(dir) + 1, Len(path))
Anchored(dir, rel) == IF dir = Root THEN rel ELSE dir \o rel

\* resolveSources: a * is matched in its directory, without dotted names.
Matched(context, source) ==
    IF Last(source) # "*" THEN {source}
    ELSE {p \in Exists(context) \ {Root} :
              Len(p) = Len(source) /\ Front(p) = Front(source) /\ Last(p) \notin Dotted}

Resolves(context, source) ==
    LET found == Matched(context, source)
    IN  /\ found # {}
        /\ \A p \in found :
               /\ ~Outside(p) /\ p \in Exists(context)
               /\ ~Outside(Real(context, p)) /\ Real(context, p) \in Exists(context)

\* The sources a COPY transfers: resolved, and not ignored themselves.
Kept(context, source) ==
    {p \in Matched(context, source) : ~Ignores(context.rules, Real(context, p))}
Resolved(context, sources) ==
    FlattenSeq([n \in DOMAIN sources |->
                   LET found == SetToSeq(Kept(context, sources[n]))
                   IN  [m \in DOMAIN found |-> Real(context, found[m])]])

\* Mutant: the trailing slash of a destination is not looked at.
DestinationForMany(dest, path, multiple) ==
    IF multiple THEN dest.path \o <<Last(path)>> ELSE dest.path

\* destinationFor a file
DestinationFor(dest, path, multiple) ==
    IF dest.slash \/ multiple THEN dest.path \o <<Last(path)>> ELSE dest.path

\* Mutant: the rules are asked about the path inside the copied directory.
SentUnanchored(context, dir, gone) ==
    {p \in context.files \ gone :
        Below(dir, p) /\ ~Ignores(context.rules, Relative(dir, p))}

\* What syncDir is allowed to send of a directory.
Sent(context, dir, gone) ==
    {p \in context.files \ gone :
        Below(dir, p) /\ ~Ignores(context.rules, Anchored(dir, Relative(dir, p)))}
=============================================================================
