------------------------------ MODULE SyncDir ------------------------------
(***************************************************************************)
(* VM.syncDir of the TypeScript client: a local tree is compared with the  *)
(* manifest of the machine and what differs is packed, uploaded and        *)
(* extracted, while the tree may be edited, other syncs may run, uploads   *)
(* fail half-way and an extraction may happen after its sync gave up.      *)
(* Hashes are remembered in a stat cache: a file kept between syncs, or a  *)
(* Map of the caller.                                                      *)
(*                                                                         *)
(* A file has a hash and a mode, one size, and the time stamps the file    *)
(* system gives it, which have a resolution.  Time is counted in ticks.    *)
(***************************************************************************)
EXTENDS Integers, FiniteSets

CONSTANTS
    Files, Hashes, Modes,  \* paths, what they contain, their permission bits
    None,                  \* no such file, entry or result
    Torn,                  \* a cache file that is not whole: it does not parse
    Syncs,                 \* the syncs of this process; each may run again
    Granularity,           \* resolution of the file system's time stamps
    Margin,                \* STAT_CACHE_RACE_MARGIN_NS
    Chunks,                \* chunks of an archive
    Attempts,              \* the retry budget of a chunk
    MaxTime,               \* bound: the clock
    MaxEdits,              \* bound: changes of the local tree
    MaxSyncs               \* bound: syncs that are begun

ASSUME SyncAssumption ==
    /\ IsFiniteSet(Files) /\ Syncs # {}
    /\ None \notin Hashes \cup Modes \cup [hash : Hashes, mode : Modes]
    /\ None \notin [hash : Hashes, mode : Modes, mtime : Nat, ctime : Nat, seen : Nat]
    /\ Torn # None
    /\ {Granularity, Chunks, Attempts} \subseteq Nat \ {0}
    /\ {Margin, MaxTime, MaxEdits, MaxSyncs} \subseteq Nat

VARIABLES
    now,      \* the clock
    edits,    \* how often the local tree changed
    local,    \* the local tree: [hash, mode, mtime, ctime] of a file
    remote,   \* the machine's copy: [hash, mode] of a file
    stored,   \* the cache file: None, Torn, or [written, entries]
    tmp,      \* the temporary file of this process, likewise
    caller,   \* options.cache: [hash, mtime] of a file
    begins,   \* syncs begun
    given,    \* the syncs that were given options.cache
    pc,       \* where a sync is
    work,     \* what it works with, see Idle
    late,     \* archives whose extraction was started and not waited for
    quiet     \* history: files nobody else touched since the sync began, here, on
              \* the machine, or in the caller's cache, and that the sync did not
              \* take for what an unsettled entry says

tree == <<now, edits, local>>
saved == <<stored, tmp, caller>>
vars == <<tree, remote, saved, begins, given, pc, work, late, quiet>>

Absent == [f \in Files |-> None]
Versions == [hash : Hashes, mode : Modes]
Signatures == [hash : Hashes, mode : Modes, mtime : Nat, ctime : Nat]
\* `seen` is history: when the signature was read.  The hash is read later.
Entries == [hash : Hashes, mode : Modes, mtime : Nat, ctime : Nat, seen : Nat]
VersionOf(file) == IF file = None THEN None ELSE [hash |-> file.hash, mode |-> file.mode]
Stamp(t) == t - (t % Granularity)
SeenAt(file, t) ==
    IF file = None THEN None
    ELSE [hash |-> file.hash, mode |-> file.mode, mtime |-> file.mtime,
          ctime |-> file.ctime, seen |-> t]

\* Any change after the entry was read gets a later ctime than it has.
Settled(entry) == entry.ctime < Stamp(entry.seen)

Idle ==
    [written |-> 0,        \* once it saves, its writtenNs
     manifest |-> Absent,  \* the remote entries it was told of
     sig |-> Absent,       \* the stat signatures of its walk
     trusted |-> Absent,   \* the entries it loaded from the cache file
     hashed |-> Absent,    \* the hashes it works with
     archive |-> Absent,   \* what it packed
     chunk |-> 0,          \* chunks of the archive it uploaded
     tries |-> 0]          \* attempts at the next one

Init ==
    /\ now = 0 /\ edits = 0
    /\ local \in [Files -> {[hash |-> h, mode |-> m, mtime |-> 0, ctime |-> 0] :
                              h \in Hashes, m \in Modes}]
    /\ remote = Absent
    /\ begins = 0 /\ given = {}
    /\ stored = None /\ tmp = None /\ caller = Absent
    /\ pc = [s \in Syncs |-> "idle"]
    /\ work = [s \in Syncs |-> Idle]
    /\ late = [s \in Syncs |-> Absent]
    /\ quiet = [s \in Syncs |-> {}]

-----------------------------------------------------------------------------
(* The tree and the clock.                                                 *)

Tick ==
    /\ now < MaxTime
    /\ now' = now + 1
    /\ UNCHANGED <<edits, local, remote, saved, begins, given, pc, work, late, quiet>>

Change(f, file) ==
    /\ edits < MaxEdits
    /\ edits' = edits + 1
    /\ local' = [local EXCEPT ![f] = file]
    /\ quiet' = [s \in Syncs |-> quiet[s] \ {f}]
    /\ UNCHANGED <<now, remote, saved, begins, given, pc, work, late>>

\* An edit, a chmod, a new file.  `cp -p`, `tar -x` and `touch -r` give the
\* file another mtime than now, here the one it had; ctime cannot be set.
Edit(f) ==
    \E v \in Versions, restored \in BOOLEAN :
        /\ v # VersionOf(local[f])
        /\ restored => local[f] # None
        /\ Change(f, [hash |-> v.hash, mode |-> v.mode, ctime |-> Stamp(now),
                      mtime |-> IF restored THEN local[f].mtime ELSE Stamp(now)])

Remove(f) == local[f] # None /\ Change(f, None)

-----------------------------------------------------------------------------
(* The stat cache.                                                         *)

\* Mutant: (size, mtime) only.
mtimesMatch(a, b) == a.mtime = b.mtime /\ a.mode = b.mode

statSignaturesMatch(a, b) ==
    a.mtime = b.mtime /\ a.ctime = b.ctime /\ a.mode = b.mode

\* Mutant: no margin.
loadRacyStatCache(file) ==
    IF file \in {None, Torn} THEN Absent ELSE file.entries

\* Entries that may be racily clean are dropped, a file that is missing or
\* does not parse counts as empty.
loadStatCache(file) ==
    IF file \in {None, Torn} THEN Absent
    ELSE [f \in Files |->
            IF file.entries[f] = None \/ file.entries[f].mtime >= file.written - Margin
            THEN None ELSE file.entries[f]]

-----------------------------------------------------------------------------
(* One sync.                                                               *)

Go(s, to) == pc' = [pc EXCEPT ![s] = to]

End(s, how) == Go(s, how) /\ work' = [work EXCEPT ![s] = Idle]

\* The manifest may be truncated; assumeEmpty asks for none.
Begin(s) ==
    /\ pc[s] \in {"idle", "done", "failed"}
    /\ begins < MaxSyncs
    /\ begins' = begins + 1
    /\ given' \in {given \cup {s}, given \ {s}}
    /\ \E told \in SUBSET Files :
         work' = [work EXCEPT ![s].manifest =
                    [f \in Files |-> IF f \in told THEN remote[f] ELSE None]]
    /\ quiet' = [quiet EXCEPT ![s] = Files]
    /\ Go(s, "walk")
    /\ UNCHANGED <<tree, remote, saved, late>>

\* The walk stats every file, then the cache is loaded.
Walk(s) ==
    /\ pc[s] = "walk"
    /\ work' = [work EXCEPT ![s].sig = [f \in Files |-> SeenAt(local[f], now)],
                  ![s].trusted = IF s \in given THEN Absent ELSE loadStatCache(stored)]
    /\ Go(s, "hash")
    /\ UNCHANGED <<tree, begins, given, remote, saved, late, quiet>>

Unhashed(s) == {f \in Files : work[s].sig[f] # None /\ work[s].hashed[f] = None}

\* The hash a sync uses without reading the file, or None.
Trusted(s, f) ==
    work[s].trusted[f] # None /\ statSignaturesMatch(work[s].trusted[f], work[s].sig[f])

KnownHash(s, f) ==
    IF Trusted(s, f) THEN work[s].trusted[f].hash
    ELSE IF s \in given /\ caller[f] # None /\ caller[f].mtime = work[s].sig[f].mtime
    THEN caller[f].hash
    ELSE None

\* An entry that is trusted is saved again as it is.
HashFromCache(s, f) ==
    /\ pc[s] = "hash" /\ f \in Unhashed(s) /\ KnownHash(s, f) # None
    /\ work' = [work EXCEPT ![s].hashed[f] = KnownHash(s, f),
                  ![s].sig[f] = IF Trusted(s, f) THEN work[s].trusted[f] ELSE @]
    /\ quiet' = IF Trusted(s, f) /\ ~Settled(work[s].trusted[f])
                THEN [quiet EXCEPT ![s] = @ \ {f}] ELSE quiet
    /\ UNCHANGED <<tree, begins, given, remote, saved, pc, late>>

\* The other syncs that share the caller's cache are told of f by s.
TellOthers(s, f) ==
    [t \in Syncs |-> IF {s, t} \subseteq given /\ t # s THEN quiet[t] \ {f} ELSE quiet[t]]

\* The content is read now, and remembered under the signature of the walk.
HashContent(s, f) ==
    /\ pc[s] = "hash" /\ f \in Unhashed(s) /\ KnownHash(s, f) = None
    /\ local[f] # None
    /\ work' = [work EXCEPT ![s].hashed[f] = local[f].hash]
    /\ caller' = IF s \notin given THEN caller
                 ELSE [caller EXCEPT ![f] = [hash |-> local[f].hash,
                                             mtime |-> work[s].sig[f].mtime]]
    /\ quiet' = TellOthers(s, f)
    /\ UNCHANGED <<tree, begins, given, remote, stored, tmp, pc, late>>

Changed(s) ==
    {f \in Files : /\ work[s].sig[f] # None
                   /\ work[s].manifest[f] #
                        [hash |-> work[s].hashed[f], mode |-> work[s].sig[f].mode]}

Uploaded(s) ==
    IF s \in given THEN End(s, "done")
    ELSE Go(s, "open") /\ work' = [work EXCEPT ![s].manifest = Absent, ![s].trusted = Absent,
                                              ![s].archive = Absent]

\* The diff, and the archive of what the changed files are now.
Diff(s) ==
    /\ pc[s] = "hash" /\ Unhashed(s) = {}
    /\ \/ Changed(s) = {} /\ Uploaded(s)
       \/ /\ Changed(s) # {}
          /\ \A f \in Changed(s) : local[f] # None
          /\ work' = [work EXCEPT ![s].tries = 1, ![s].manifest = Absent,
                ![s].trusted = Absent, ![s].archive =
                [f \in Files |-> IF f \in Changed(s) THEN VersionOf(local[f]) ELSE None]]
          /\ Go(s, "upload")
    /\ UNCHANGED <<tree, begins, given, remote, saved, late, quiet>>

\* Mutant: the loop runs once more.
SendChunkMore(s) ==
    /\ pc[s] = "upload"
    /\ work' = [work EXCEPT ![s].chunk = @ + 1]
    /\ Go(s, IF work[s].chunk = Chunks THEN "extract" ELSE "upload")
    /\ UNCHANGED <<tree, begins, given, remote, saved, late, quiet>>

\* One write of one chunk; a retryable refusal of it is tried again.
SendChunk(s) ==
    /\ pc[s] = "upload"
    /\ \/ /\ work' = [work EXCEPT ![s].chunk = @ + 1, ![s].tries = 1]
          /\ Go(s, IF work[s].chunk + 1 = Chunks THEN "extract" ELSE "upload")
       \/ /\ work[s].tries < Attempts
          /\ work' = [work EXCEPT ![s].tries = @ + 1]
          /\ UNCHANGED pc
    /\ UNCHANGED <<tree, begins, given, remote, saved, late, quiet>>

Unpack(packed, which) ==
    [f \in Files |-> IF f \in which /\ packed[f] # None THEN packed[f] ELSE remote[f]]

\* The files of other syncs that an extraction by s touches.
DisturbOthers(s, packed) ==
    [t \in Syncs |-> IF t = s THEN quiet[t] ELSE {f \in quiet[t] : packed[f] = None}]

Extract(s) ==
    /\ pc[s] = "extract"
    /\ remote' = Unpack(work[s].archive, Files)
    /\ quiet' = DisturbOthers(s, work[s].archive)
    /\ Uploaded(s)
    /\ UNCHANGED <<tree, begins, given, saved, late>>

\* A manifest request, a read, a chunk or the extraction fails: the sync
\* throws.  An extraction that was started may go on.
Fail(s) ==
    /\ \/ pc[s] \in {"walk", "upload", "extract"}
       \/ pc[s] = "hash" /\ \E f \in Files : work[s].sig[f] # None /\ local[f] = None
    /\ late' = [late EXCEPT ![s] = IF pc[s] = "extract" THEN work[s].archive ELSE @]
    /\ End(s, "failed")
    /\ given' = given \ {s} /\ quiet' = [quiet EXCEPT ![s] = {}]
    /\ UNCHANGED <<tree, begins, remote, saved>>

LateExtract(s) ==
    /\ late[s] # Absent
    /\ \E which \in SUBSET Files : remote' = Unpack(late[s], which)
    /\ quiet' = [t \in Syncs |-> {f \in quiet[t] : late[s][f] = None}]
    /\ late' = [late EXCEPT ![s] = Absent]
    /\ UNCHANGED <<tree, begins, given, saved, pc, work>>

-----------------------------------------------------------------------------
(* saveStatCache.  The syncs of one process share the temporary file.      *)

Fresh(s) ==
    [f \in Files |-> IF work[s].sig[f] = None THEN None
                     ELSE [work[s].sig[f] EXCEPT !.hash = work[s].hashed[f]]]

SaveOpen(s) ==
    /\ pc[s] = "open"
    /\ tmp' = Torn
    /\ work' = [work EXCEPT ![s].written = now]
    /\ Go(s, "write")
    /\ UNCHANGED <<tree, begins, given, remote, stored, caller, late, quiet>>

\* The write ends in the file that was opened, which another sync may have
\* renamed meanwhile, or truncated.
SaveWrite(s) ==
    /\ pc[s] = "write"
    /\ LET whole == [written |-> work[s].written, entries |-> Fresh(s)] IN
       \/ tmp # None /\ tmp' = whole /\ UNCHANGED stored
       \/ /\ tmp # None /\ \E t \in Syncs \ {s} : pc[t] \in {"write", "rename"}
          /\ tmp' = Torn /\ UNCHANGED stored
       \/ tmp = None /\ stored' = whole /\ UNCHANGED tmp
    /\ Go(s, "rename")
    /\ UNCHANGED <<tree, begins, given, remote, caller, work, late, quiet>>

SaveRename(s) ==
    /\ pc[s] = "rename"
    /\ IF tmp = None THEN UNCHANGED <<stored, tmp>> ELSE stored' = tmp /\ tmp' = None
    /\ End(s, "done")
    /\ UNCHANGED <<tree, begins, given, remote, caller, late, quiet>>

\* Caching is best effort.
SaveFails(s) ==
    /\ pc[s] \in {"open", "write", "rename"}
    /\ End(s, "done")
    /\ UNCHANGED <<tree, begins, given, remote, saved, late, quiet>>

-----------------------------------------------------------------------------
Step(s) ==
    \/ Walk(s) \/ Diff(s) \/ SendChunk(s) \/ Extract(s) \/ Fail(s)
    \/ \E f \in Files : HashFromCache(s, f) \/ HashContent(s, f)
    \/ SaveOpen(s) \/ SaveWrite(s) \/ SaveRename(s) \/ SaveFails(s)

Next ==
    \/ Tick
    \/ \E f \in Files : Edit(f) \/ Remove(f)
    \/ \E s \in Syncs : Begin(s) \/ Step(s) \/ LateExtract(s)

Spec == Init /\ [][Next]_vars

-----------------------------------------------------------------------------
(* Properties                                                              *)

Of(type) == [Files -> type \cup {None}]
Works == [written : Nat, manifest : Of(Versions), sig : Of(Entries),
          trusted : Of(Entries), hashed : Of(Hashes), archive : Of(Versions),
          chunk : 0..Chunks, tries : 0..Attempts]
CacheFiles == [written : Nat, entries : Of(Entries)]

TypeOK ==
    /\ now \in 0..MaxTime /\ edits \in 0..MaxEdits /\ begins \in 0..MaxSyncs
    /\ given \subseteq Syncs
    /\ local \in Of(Signatures)
    /\ remote \in Of(Versions)
    /\ stored \in CacheFiles \cup {None, Torn}
    /\ tmp \in CacheFiles \cup {None, Torn}
    /\ caller \in Of([hash : Hashes, mtime : Nat])
    /\ pc \in [Syncs -> {"idle", "walk", "hash", "upload", "extract", "open", "write",
                         "rename", "done", "failed"}]
    /\ work \in [Syncs -> Works]
    /\ late \in [Syncs -> Of(Versions)]
    /\ quiet \in [Syncs -> SUBSET Files]

Mirrors(f) == local[f] # None => remote[f] = VersionOf(local[f])

\* The caller's cache takes the file for what it was: same size, same mtime.
Mistaken(s, f) ==
    /\ s \in given /\ caller[f] # None
    /\ caller[f].mtime = local[f].mtime /\ caller[f].hash # local[f].hash

\* A sync that succeeds leaves the machine with every file as it is here:
\* whatever the cache file held, whichever earlier syncs failed half-way, and
\* however the manifest was truncated (index.ts:1275, 1424).  Except a file
\* that somebody else touched meanwhile; one whose hash it took from an entry
\* that was not settled, see TrustedEntriesAreCurrent; and one the caller's
\* cache is mistaken about, which trusts size and mtime (1383).
QuietSyncMirrors ==
    \A s \in Syncs :
        pc[s] = "done" => \A f \in quiet[s] : Mirrors(f) \/ Mistaken(s, f)

\* The entry was written so soon after it was read that the margin is not
\* shorter than the time between, rounded up to the stamps of the file system.
InTime(file, entry) == file.written - entry.seen + Granularity <= Margin + 1

\* An entry of the cache file that a sync would trust has the hash of the file
\* (index.ts:39, 51, 1372), if the file had been left alone for a stamp when
\* the entry was read, or the cache was written in time and the mtime was not
\* set back: such an entry is either older than the margin or dropped.
TrustedEntriesAreCurrent ==
    \A f \in Files :
        LET entry == loadStatCache(stored)[f] IN
        (/\ entry # None /\ local[f] # None /\ statSignaturesMatch(entry, local[f])
         /\ Settled(entry) \/ (entry.mtime = entry.ctime /\ InTime(stored, entry)))
            => entry.hash = local[f].hash

\* index.ts:1372: "if every stat field matches what we recorded, the contents
\* cannot have changed under us".  Of an entry that outlived the margin.
MatchMeansUnchanged ==
    \A f \in Files :
        LET entry == loadStatCache(stored)[f] IN
        (entry # None /\ local[f] # None /\ statSignaturesMatch(entry, local[f]))
            => entry.hash = local[f].hash

-----------------------------------------------------------------------------
(* The inductive invariant.                                                *)

\* An entry that is settled is not contradicted by a file that looks the same.
Sound(entry, file) ==
    /\ entry.seen <= now
    /\ (file # None /\ Settled(entry) /\ statSignaturesMatch(entry, file))
           => entry.hash = file.hash

\* So is what a cache file has.
SoundFile(file) ==
    file \notin {None, Torn} =>
        \A f \in Files : file.entries[f] # None => Sound(file.entries[f], local[f])

\* What the sync s would save of f: the signature of the walk, with the hash it
\* works with, or the one the file had.
Entry(s, f) ==
    [work[s].sig[f] EXCEPT !.hash = IF work[s].hashed[f] = None THEN @ ELSE work[s].hashed[f]]

Saves(s) == \A f \in Files : work[s].sig[f] # None => Sound(Entry(s, f), local[f])

Trusts(s) ==
    \A f \in Files : work[s].trusted[f] # None => Sound(work[s].trusted[f], local[f])

\* What s holds at each point.
Holds(s) ==
    /\ pc[s] \in {"idle", "done", "failed"} => work[s] = Idle
    /\ pc[s] = "walk" => work[s].hashed = Absent
    /\ pc[s] \in {"walk", "hash"} => work[s].chunk = 0
    /\ pc[s] = "upload" => work[s].chunk < Chunks
    /\ pc[s] \in {"upload", "extract", "open", "write", "rename"} => Unhashed(s) = {}
    /\ pc[s] \in {"open", "write", "rename"} => s \notin given

\* The machine has f as it is here, or the caller's cache misled s about it.
Arrived(s, f) == Mirrors(f) \/ Mistaken(s, f)

\* The file is as the walk saw it.
Unedited(s, f) ==
    /\ work[s].sig[f] = None <=> local[f] = None
    /\ local[f] # None => statSignaturesMatch(work[s].sig[f], local[f])

\* What s knows of a file nobody else touched is true.
KnowsFile(s, f) ==
    /\ pc[s] \in {"walk", "hash"} => work[s].manifest[f] \in {None, remote[f]}
    /\ pc[s] = "hash" =>
           /\ Unedited(s, f)
           /\ local[f] # None /\ work[s].hashed[f] # None =>
                  work[s].hashed[f] = local[f].hash \/ Mistaken(s, f)
    /\ pc[s] \in {"upload", "extract"} =>
           \/ local[f] # None /\ work[s].archive[f] = VersionOf(local[f])
           \/ work[s].archive[f] = None /\ Arrived(s, f)
    /\ pc[s] \in {"open", "write", "rename", "done"} => Arrived(s, f)

Knows(s) == \A f \in quiet[s] : KnowsFile(s, f)

SyncInv ==
    /\ SoundFile(stored) /\ SoundFile(tmp)
    /\ \A s \in Syncs : Holds(s) /\ Trusts(s) /\ (s \notin given => Saves(s)) /\ Knows(s)
=============================================================================
