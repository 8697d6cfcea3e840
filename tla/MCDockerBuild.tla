--------------------------- MODULE MCDockerBuild ---------------------------
(* A small context, and Dockerfiles of a FROM and up to three instructions. *)
EXTENDS DockerBuild
CONSTANT none

Plain(word, args) == [word |-> word, args |-> args, exec |-> FALSE, from |-> FALSE,
                      chown |-> none, checksum |-> none]
From == Plain("FROM", <<"image">>)
App == [path |-> <<"app">>, slash |-> FALSE]
AppSlash == [App EXCEPT !.slash = TRUE]
Copy(source, dest) == Plain("COPY", <<source, dest>>)
AddUrl(checksum) == [Plain("ADD", <<<<"url">>, App>>) EXCEPT !.checksum = checksum]

a == <<"a">>
keep == <<"keep">>
env == <<".env">>
dir == <<"dir">>
dirA == <<"dir", "a">>
dirB == <<"dir", "b">>

Rule(pattern) == [pattern |-> pattern, negated |-> FALSE]
But(pattern) == [pattern |-> pattern, negated |-> TRUE]
Ignoring(rules) ==
    [files |-> {a, keep, env, dirA, dirB}, executable |-> {keep}, dirs |-> {dir, Root},
     links |-> (<<"in">> :> dirA @@ <<"out">> :> <<"..", "out">>), rules |-> rules]
Whitelist == Ignoring(<<Rule(<<"*">>), But(keep)>>)
MCContexts ==
    {Ignoring(<<>>), Ignoring(<<Rule(env), Rule(dirA)>>), Ignoring(<<Rule(<<"**", "a">>)>>),
     Ignoring(<<Rule(dir), But(dirA)>>), Whitelist}

\* Instructions that parse, and some of the ways not to.
Good ==
    {Plain("RUN", <<"x">>), [Plain("RUN", <<"x", "y">>) EXCEPT !.exec = TRUE],
     [Plain("SHELL", <<"bash">>) EXCEPT !.exec = TRUE], Plain("USER", <<"u">>),
     Plain("ARG", <<[name |-> "v", default |-> none], [name |-> "w", default |-> "1"]>>)}
More ==
    {Plain("WORKDIR", <<"w">>), Plain("CMD", <<>>), AddUrl(none), AddUrl(<<"good">>),
     Copy(Root, App), Copy(a, AppSlash), Copy(dir, App), Copy(<<"*">>, App), Copy(<<"in">>, App),
     Copy(<<"dir", "*">>, AppSlash), Copy(<<"..">>, App), Copy(<<"out">>, App), Copy(<<"no">>, App),
     Plain("COPY", <<<<"in">>, dirA, App>>),
     [Plain("COPY", <<a, keep, App>>) EXCEPT !.chown = "u"]}
Bad ==
    {From, Plain("VOLUME", <<"v">>), Plain("RUN", <<>>), Plain("SHELL", <<"bash">>),
     [Copy(a, App) EXCEPT !.from = TRUE], Plain("COPY", <<a>>), Plain("ADD", <<a, App>>),
     Plain("FROM", <<none>>)}

Files(Instructions) == {<<From, i>> : i \in Instructions} \cup {<<i, From>> : i \in Instructions}
Dockerfiles ==
    Files(Good \cup More \cup Bad) \cup {<<From>>, <<Plain("RUN", <<"x">>)>>}
    \cup {<<From, g, h, i>> : g \in Good, h \in Good, i \in Good}
    \cup {<<From, g, m>> : g \in Good, m \in More}
MCCalls ==
    [dockerfile : Dockerfiles, given : {TRUE}, isDir : {TRUE}]
    \cup [dockerfile : {none, <<From>>}, given : BOOLEAN, isDir : BOOLEAN]
MCPayloads == {<<"good">>, <<"bad">>}
MCUrls == {<<"url">>}
MCDotted == {".env"}
=============================================================================
