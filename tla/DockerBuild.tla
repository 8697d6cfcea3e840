---------------------------- MODULE DockerBuild ----------------------------
(***************************************************************************)
(* fork({dockerfile, context}) of the TypeScript client: the Dockerfile is *)
(* parsed, its base image forked, and its steps are applied one request    *)
(* after another while the context may change.  Whatever fails, the half-  *)
(* built machine is deleted, in three attempts.                            *)
(***************************************************************************)
EXTENDS BuildContext

CONSTANTS
    Calls,     \* arguments of fork: [dockerfile, given, isDir], see Call
    Contexts,  \* the contexts a build may find
    Payloads,  \* what an address may answer
    Attempts,  \* deleteAfterFailedBuild's attempts
    MaxGone    \* bound: files that vanish from the context

ASSUME BuildAssumption == Attempts \in Nat \ {0} /\ MaxGone \in Nat

\* A Dockerfile is a sequence of instructions, whose arguments are sequences;
\* None is not one.
Counted(s) == Len(s) \in Nat /\ DOMAIN s = 1..Len(s)

ASSUME CallAssumption ==
    \A c \in Calls : c.dockerfile # None =>
        /\ Counted(c.dockerfile)
        /\ \A k \in DOMAIN c.dockerfile :
               Counted(c.dockerfile[k].args) /\ c.dockerfile[k].args # None

\* A context is finite, its paths are sequences of names, a file is not a
\* directory and has nothing below it, and files are told from what is
\* downloaded.
ASSUME ContextAssumption ==
    \A c \in Contexts :
        /\ IsFiniteSet(Exists(c)) /\ Exists(c) \subseteq Seq(STRING)
        /\ c.rules \in Seq([pattern : Seq(STRING), negated : BOOLEAN])
        /\ c.files \cap Payloads = {}
        /\ \A f \in c.files : f \notin c.dirs \cup {Root} /\ \A p \in c.files : ~Below(f, p)

VARIABLES
    call,      \* the arguments; dockerfile is None for another source
    context,   \* the context as the build finds it
    gone,      \* files that vanished from it since
    pc,        \* called, step, copy, sent, deleting, waiting, returned,
               \* failed
    steps,     \* the steps that are left
    user,      \* the current USER
    todo,      \* resolved sources the COPY has not transferred
    multiple,  \* it has several
    handle,    \* the fork was answered: there is a VM to delete
    machine,   \* none, up, deleted
    log,       \* commands the machine executed
    files,     \* what was put where on the machine
    failures,  \* attempts to delete that failed
    kept       \* a deletion was answered {deleted: false}

copying == <<todo, multiple>>
deletion == <<failures, kept>>
vars == <<call, context, gone, pc, steps, user, copying, handle, machine, log, files, deletion>>

Init ==
    /\ call \in Calls /\ context \in Contexts /\ gone = {}
    /\ pc = "called" /\ steps = <<>> /\ user = None
    /\ todo = <<>> /\ multiple = FALSE
    /\ handle = FALSE /\ machine = "none"
    /\ log = <<>> /\ files = <<>>
    /\ failures = 0 /\ kept = FALSE

\* Something else removes a file of the context.
Vanish(p) ==
    /\ pc \notin {"returned", "failed"} /\ Cardinality(gone) < MaxGone
    /\ gone' = gone \cup {p}
    /\ UNCHANGED <<call, context, pc, steps, user, copying, handle, machine, log, files, deletion>>

-----------------------------------------------------------------------------
(* fork and forkDockerfile: refused before anything is created, or forked. *)

Refused ==
    IF call.dockerfile = None THEN call.given
    ELSE ~Parses(call.dockerfile) \/ ~call.isDir

Refuse ==
    /\ pc = "called" /\ Refused
    /\ pc' = "failed"
    /\ UNCHANGED <<call, context, gone, steps, user, copying, handle, machine, log, files, deletion>>

Forked ==
    /\ pc = "called" /\ ~Refused
    /\ machine' = "up" /\ handle' = TRUE
    /\ IF call.dockerfile = None
       THEN pc' = "returned" /\ UNCHANGED steps
       ELSE pc' = "step" /\ steps' = Steps(call.dockerfile)
    /\ UNCHANGED <<call, context, gone, user, copying, log, files, deletion>>

\* The machine may exist all the same: then nobody here knows its name.
ForkFails ==
    /\ pc = "called" /\ ~Refused
    /\ pc' = "failed" /\ machine' \in {"none", "up"}
    /\ UNCHANGED <<call, context, gone, steps, user, copying, handle, log, files, deletion>>

-----------------------------------------------------------------------------
(* applySteps.                                                             *)

step == Head(steps)
Next_(p) == pc' = p /\ steps' = Tail(steps)
Abort == pc' = "deleting" /\ UNCHANGED steps

\* Mutant: an absent exit code and a null one are the same.
ZeroOrNull(code) == code \in {"zero", "null"}

\* runChecked: null says that the command never reached the shell.
Succeeded(code) == code = "zero"

\* How a run ends: an exit code, or the request or the run fails.
RunChecked(entry, Continue) ==
    \E code \in {"zero", "nonzero", "null", "thrown"}, ran \in BOOLEAN :
        /\ code \in {"zero", "nonzero"} => ran
        /\ code = "null" => ~ran
        /\ log' = IF ran THEN Append(log, entry) ELSE log
        /\ IF Succeeded(code) THEN Continue ELSE Abort

Finish ==
    /\ pc = "step" /\ steps = <<>>
    /\ pc' = "returned"
    /\ UNCHANGED <<call, context, gone, steps, user, copying, handle, machine, log, files, deletion>>

\* USER is remembered; metadata and an ARG without a default do nothing.
Note ==
    /\ pc = "step" /\ steps # <<>>
    /\ \/ step.word \in {"USER", "LABEL", "EXPOSE", "ENTRYPOINT", "CMD"}
       \/ step.word = "ARG" /\ step.args[1].default = None
    /\ user' = IF step.word = "USER" THEN step.args[1] ELSE user
    /\ Next_("step")
    /\ UNCHANGED <<call, context, gone, copying, handle, machine, log, files, deletion>>

\* RUN as the user; ENV, ARG and WORKDIR in the session itself, where they
\* persist.
Runs(s) ==
    \/ s.word \in {"RUN", "ENV", "WORKDIR"}
    \/ s.word = "ARG" /\ s.args[1].default # None

Entry(s, u) == [word |-> s.word, args |-> s.args, shell |-> s.shell,
                user |-> IF s.word = "RUN" THEN u ELSE None]

Command ==
    /\ pc = "step" /\ steps # <<>> /\ Runs(step)
    /\ RunChecked(Entry(step, user), Next_("step"))
    /\ UNCHANGED <<call, context, gone, user, copying, handle, machine, files, deletion>>

\* verifyChecksum
Verified(checksum, payload) == checksum \in {None, payload}

\* One file at a path; and the machine's files after a write.
At(path, content) == [q \in {path} |-> content]
Written(write) ==
    [q \in DOMAIN write \cup DOMAIN files |-> IF q \in DOMAIN write THEN write[q] ELSE files[q]]

\* vm.sync: it succeeds, or fails with or without having written.
Sync(write, Continue) ==
    \/ files' = Written(write) /\ Continue
    \/ files' \in {files, Written(write)} /\ Abort

\* Fetched here, verified, and written there.
Add ==
    /\ pc = "step" /\ steps # <<>> /\ step.word = "ADD"
    /\ \/ UNCHANGED files /\ Abort
       \/ \E payload \in Payloads :
              IF Verified(step.checksum, payload)
              THEN Sync(At(step.args[2].path, payload), Next_("step"))
              ELSE UNCHANGED files /\ Abort
    /\ UNCHANGED <<call, context, gone, user, copying, handle, machine, log, deletion>>

-----------------------------------------------------------------------------
(* applyCopy.                                                              *)

Present == [context EXCEPT !.files = @ \ gone]
Dest == Last(step.args)

StartCopy ==
    /\ pc = "step" /\ steps # <<>> /\ step.word = "COPY"
    /\ LET sources == Front(step.args)
       IN  IF \A n \in DOMAIN sources : Resolves(Present, sources[n])
           THEN /\ pc' = "copy" /\ UNCHANGED steps
                /\ todo' = Resolved(Present, sources)
                /\ multiple' = (Len(todo') > 1)
           ELSE Abort /\ UNCHANGED copying
    /\ UNCHANGED <<call, context, gone, user, handle, machine, log, files, deletion>>

CopyDirectory ==
    /\ pc = "copy" /\ todo # <<>> /\ (todo[1] = Root \/ todo[1] \in context.dirs)
    /\ LET sent == Sent(context, todo[1], gone)
           at(p) == Dest.path \o Relative(todo[1], p)
           write == [q \in {at(p) : p \in sent} |-> CHOOSE p \in sent : at(p) = q]
       IN  Sync(write, pc' = "copy" /\ UNCHANGED steps)
    /\ todo' = Tail(todo)
    /\ UNCHANGED <<call, context, gone, user, multiple, handle, machine, log, deletion>>

\* The file is read, written, and looked at once more for its mode.
CopyFile ==
    /\ pc = "copy" /\ todo # <<>> /\ todo[1] \in context.files
    /\ IF todo[1] \in gone THEN Abort /\ UNCHANGED files
       ELSE Sync(At(DestinationFor(Dest, todo[1], multiple), todo[1]),
                 pc' = "sent" /\ UNCHANGED steps)
    /\ UNCHANGED <<call, context, gone, user, copying, handle, machine, log, deletion>>

Continue_(p) == pc' = p /\ UNCHANGED steps

MarkExecutable ==
    /\ pc = "sent"
    /\ IF todo[1] \in gone THEN Abort /\ UNCHANGED log
       ELSE IF todo[1] \in context.executable
       THEN RunChecked([word |-> "chmod", args |-> DestinationFor(Dest, todo[1], multiple),
                        shell |-> None, user |-> None], Continue_("copy"))
       ELSE Continue_("copy") /\ UNCHANGED log
    /\ todo' = Tail(todo)
    /\ UNCHANGED <<call, context, gone, user, multiple, handle, machine, files, deletion>>

EndCopy ==
    /\ pc = "copy" /\ todo = <<>>
    /\ IF step.chown = None THEN Next_("step") /\ UNCHANGED log
       ELSE RunChecked([word |-> "chown", args |-> Dest.path, shell |-> None,
                        user |-> step.chown], Next_("step"))
    /\ UNCHANGED <<call, context, gone, user, copying, handle, machine, files, deletion>>

-----------------------------------------------------------------------------
(* deleteAfterFailedBuild, before the error is thrown on.                  *)

\* Mutant: the loop does not count its attempts.
AttemptsForever(n) == TRUE

\* Mutant: it gives up one attempt early.
AttemptsLeftEarly(n) == n + 2 < Attempts

AttemptsLeft(n) == n + 1 < Attempts

\* The answer's `deleted` is not read.
Delete ==
    /\ pc = "deleting"
    /\ \E deleted \in BOOLEAN :
           /\ machine' = IF deleted THEN "deleted" ELSE machine
           /\ kept' = (machine' = "up")
    /\ pc' = "failed"
    /\ UNCHANGED <<call, context, gone, steps, user, copying, handle, log, files, failures>>

\* The deletion may have happened all the same.
DeleteFails ==
    /\ pc = "deleting"
    /\ machine' \in {machine, "deleted"}
    /\ pc' = IF AttemptsLeft(failures) THEN "waiting" ELSE "failed"
    /\ failures' = IF failures < Attempts THEN failures + 1 ELSE failures
    /\ UNCHANGED <<call, context, gone, steps, user, copying, handle, log, files, kept>>

\* The delay before the next attempt has passed.
DeleteAgain ==
    /\ pc = "waiting"
    /\ pc' = "deleting"
    /\ UNCHANGED <<call, context, gone, steps, user, copying, handle, machine, log, files, deletion>>

-----------------------------------------------------------------------------
Build ==
    \/ Refuse \/ Forked \/ ForkFails
    \/ Finish \/ Note \/ Command \/ Add
    \/ StartCopy \/ CopyDirectory \/ CopyFile \/ MarkExecutable \/ EndCopy
    \/ Delete \/ DeleteFails \/ DeleteAgain

Next == Build \/ \E p \in context.files : Vanish(p)

\* The build goes on as long as there is something to do: its requests end,
\* and so do the commands it runs.
Spec == Init /\ [][Next]_vars /\ WF_vars(Build)
-----------------------------------------------------------------------------
\* The control points and the machine have their types.
TypeOK ==
    /\ pc \in {"called", "step", "copy", "sent", "deleting", "waiting", "returned", "failed"}
    /\ gone \subseteq context.files /\ Cardinality(gone) \in 0..MaxGone
    /\ machine \in {"none", "up", "deleted"} /\ handle \in BOOLEAN
    /\ multiple \in BOOLEAN /\ kept \in BOOLEAN /\ failures \in 0..Attempts

\* What the last instruction with this word before the k-th says.
LastBefore(word, k) ==
    LET said == {j \in 1..k - 1 : call.dockerfile[j].word = word}
    IN  IF said = {} THEN None ELSE call.dockerfile[Max(said)].args

\* The commands the k-th instruction stands for.
Expected(k) ==
    LET i == call.dockerfile[k]
        InSession(args) == [word |-> i.word, args |-> args, shell |-> None, user |-> None]
    IN  CASE i.word = "RUN" ->
               <<[word |-> "RUN", args |-> i.args,
                  shell |-> IF i.exec THEN None ELSE LastBefore("SHELL", k),
                  user |-> LET u == LastBefore("USER", k) IN IF u = None THEN None ELSE u[1]]>>
          [] i.word \in {"ENV", "WORKDIR"} -> <<InSession(i.args)>>
          [] i.word = "ARG" ->
               FlattenSeq([n \in DOMAIN i.args |-> IF i.args[n].default = None THEN <<>>
                                                   ELSE <<InSession(<<i.args[n]>>)>>])
          [] OTHER -> <<>>

\* The entries of the log that are commands of the Dockerfile.
Commands(entries) ==
    FlattenSeq([n \in DOMAIN entries |-> IF entries[n].word \in {"chmod", "chown"} THEN <<>>
                                         ELSE <<entries[n]>>])

\* A machine is returned only if every command after the FROM ran on it, in the
\* order of the file, once, as the last USER before it and under the last SHELL
\* before it, and nothing else ran: the loops of parseDockerfile and applySteps,
\* where each command may fail, be lost, or never reach a shell an earlier one
\* holds.  This is said of the Dockerfiles that begin with their FROM; what is
\* written before it runs too, although build.ts:148 says "after `FROM`".
BeginsWithFrom == call.dockerfile[1].word = "FROM"
BuiltAsWritten ==
    pc = "returned" /\ call.dockerfile # None /\ BeginsWithFrom =>
        Commands(log) = FlattenSeq([k \in DOMAIN call.dockerfile |-> Expected(k)])

\* What .dockerignore promises: the last rule that matches the file, or a
\* directory above it, decides.
Excluded(p) ==
    LET hits == {n \in DOMAIN context.rules : RuleMatches(context.rules[n], p)}
    IN  hits # {} /\ ~context.rules[Max(hits)].negated

\* No excluded file reaches the machine, whether it is named, matched by a *,
\* reached through a link, or below a directory that is copied: applyCopy drops
\* sources and re-anchors what syncDir asks about.
IgnoredStaysHome ==
    \A q \in DOMAIN files : files[q] \in context.files => ~Excluded(files[q])

\* The names that a COPY with these arguments lists, in a context that did not
\* change: each by the source that gives it, which may be given twice.
Names(args) ==
    LET sources == Front(args)
    IN  UNION {{n} \X Matched(context, sources[n]) : n \in DOMAIN sources}
Source(name) == Real(context, name[2])
Several(names) == \E m, n \in names : m # n

\* Where a file of the source s belongs: below the destination for a directory,
\* under its own name where the destination takes several files.
Place(dest, several, s, p) ==
    IF p # s THEN dest.path \o Relative(s, p)
    ELSE IF dest.slash \/ several THEN dest.path \o <<Last(p)>>
    ELSE dest.path

\* Each file at or below the source that is not excluded has its place on the
\* machine.
SourceArrived(dest, several, s) ==
    \A p \in context.files :
        (p = s \/ Below(s, p)) /\ ~Excluded(p) => Place(dest, several, s, p) \in DOMAIN files

HasArrived(args, names) ==
    \A name \in names : SourceArrived(Last(args), Several(names), Source(name))

NotExcluded(names) == {name \in names : ~Excluded(Source(name))}
Arrived(args) == HasArrived(args, NotExcluded(Names(args)))

CopiesOf == {k \in DOMAIN call.dockerfile : call.dockerfile[k].word = "COPY"}

\* A returned machine has every file its COPYs name and .dockerignore lets
\* through, unless the source it is named by is itself excluded, although each
\* file is a request of its own and the context is read in between.
NamedIsCopied ==
    pc = "returned" /\ call.dockerfile # None /\ gone = {} =>
        \A k \in CopiesOf : Arrived(call.dockerfile[k].args)

\* What dockerignore.ts says of negation, for a directory as for a file: what
\* the last matching rule lets through is copied.  It is not if a rule such as
\* * drops the directory the COPY names, the context itself first of all.
NegationReadmits ==
    pc = "returned" /\ call.dockerfile # None /\ gone = {} =>
        \A k \in CopiesOf : LET args == call.dockerfile[k].args IN HasArrived(args, Names(args))

\* A build that fails after the fork leaves no machine behind, unless every
\* attempt to delete it failed or the server declined to; and a machine that is
\* returned was not deleted.
FailedBuildIsDeleted ==
    /\ pc = "failed" /\ handle /\ machine = "up" => kept \/ failures = Attempts
    /\ pc = "returned" => handle /\ machine = "up"

\* fork returns a machine or throws, however many steps, files and attempts to
\* delete there are.
BuildEnds == <>(pc \in {"returned", "failed"})

-----------------------------------------------------------------------------
(* The inductive invariant behind FailedBuildIsDeleted.                    *)

\* While steps are applied, and once they all are, the machine is known and
\* up; from the first failure on it is known until the last attempt.
MachineInv ==
    /\ pc = "called" => ~handle
    /\ pc \in {"step", "copy", "sent", "returned"} => handle /\ machine = "up"
    /\ pc \in {"deleting", "waiting"} => handle

\* Attempts are counted only by the deletion, and one is left before each.
AttemptsInv ==
    /\ pc \in {"called", "step", "copy", "sent", "returned"} => failures = 0 /\ ~kept
    /\ pc \in {"deleting", "waiting"} => failures < Attempts

DeletionInv == MachineInv /\ AttemptsInv /\ FailedBuildIsDeleted

-----------------------------------------------------------------------------
(* The inductive invariant behind IgnoredStaysHome.                        *)

\* What is left of a Dockerfile are its last steps, a COPY first while it is
\* under way.
StepsInv ==
    /\ call \in Calls
    /\ pc \in {"step", "copy", "sent"} =>
           LET all == Steps(call.dockerfile)
           IN  /\ call.dockerfile # None
               /\ Len(steps) \in 0..Len(all)
               /\ steps = SubSeq(all, Len(all) - Len(steps) + 1, Len(all))
    /\ pc \in {"copy", "sent"} => steps # <<>> /\ step.word = "COPY"

\* A source is asked about before it is listed, and a file below it before it
\* is sent: nothing on the list and nothing on the machine is ignored.
HomeInv ==
    /\ context \in Contexts
    /\ todo \in Seq({p \in Exists(context) : ~Ignores(context.rules, p)})
    /\ pc = "sent" => todo # <<>>
    /\ \A q \in DOMAIN files :
           files[q] \in context.files => ~Ignores(context.rules, files[q])

-----------------------------------------------------------------------------
(* The inductive invariant behind BuiltAsWritten.                          *)

IsSequence(s) == s \in Seq({s[n] : n \in DOMAIN s})

\* The user after the first n steps.
UserAfter(all, n) ==
    LET said == {m \in 1..n : all[m].word = "USER"}
    IN  IF said = {} THEN None ELSE all[Max(said)].args[1]

\* The command the n-th step stands for, if it does, and those of the first n.
Piece(all, n) == IF Runs(all[n]) THEN <<Entry(all[n], UserAfter(all, n - 1))>> ELSE <<>>
CommandsOf(all, n) == FlattenSeq([m \in 1..n |-> Piece(all, m)])

\* What has run and who runs the next command is what the steps that are gone
\* say.
BuiltInv ==
    LET all == Steps(call.dockerfile)
        applied == Len(all) - Len(steps)
    IN  /\ IsSequence(log)
        /\ pc = "called" => log = <<>> /\ user = None
        /\ pc \in {"step", "copy", "sent"} =>
               Commands(log) = CommandsOf(all, applied) /\ user = UserAfter(all, applied)
        /\ pc = "returned" /\ call.dockerfile # None => Commands(log) = CommandsOf(all, Len(all))

-----------------------------------------------------------------------------
(* The inductive invariant behind NamedIsCopied.                           *)

\* The COPYs among the first n steps have arrived.
CopiedUpTo(all, n) == \A j \in 1..n : all[j].word = "COPY" => Arrived(all[j].args)

\* Of the COPY under way each source is still on the list or has arrived.
UnderWay ==
    LET names == NotExcluded(Names(step.args))
    IN  /\ multiple = Several(names)
        /\ \A name \in names :
               \/ \E n \in DOMAIN todo : todo[n] = Source(name)
               \/ SourceArrived(Dest, multiple, Source(name))

\* The file that was just sent is in its place.
InPlace ==
    /\ todo[1] \in context.files
    /\ DestinationFor(Dest, todo[1], multiple) \in DOMAIN files

CopiedInv ==
    LET all == Steps(call.dockerfile)
    IN  gone = {} =>
            /\ pc \in {"step", "copy", "sent"} => CopiedUpTo(all, Len(all) - Len(steps))
            /\ pc = "returned" /\ call.dockerfile # None => CopiedUpTo(all, Len(all))
            /\ pc \in {"copy", "sent"} => UnderWay
            /\ pc = "sent" => InPlace
=============================================================================
