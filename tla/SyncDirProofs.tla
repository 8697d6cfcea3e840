--------------------------- MODULE SyncDirProofs ---------------------------
(***************************************************************************)
(* Proofs about SyncDir for any files and contents, any number of syncs in *)
(* the process, any chunking, any retry budget, any resolution of the time *)
(* stamps and any margin, however long an upload takes: an entry of the    *)
(* stat cache that is settled is true, one that was saved in time is       *)
(* dropped while it may not be, and a sync that ends well leaves the       *)
(* machine as the tree is.                                                 *)
(***************************************************************************)
EXTENDS SyncDir, TLAPS

-----------------------------------------------------------------------------
(* Time stamps.                                                            *)

(* Division with remainder.                                                *)
LEMMA DivMod ==
    \A t, g \in Int :
        g > 0 => /\ t = (t \div g) * g + (t % g)
                 /\ t % g \in 0..(g - 1)
                 /\ t >= 0 => t \div g >= 0
  BY Z3

(* A time stamp is a multiple of the resolution, and lags behind the clock *)
(* by less than it.                                                        *)
LEMMA StampLags ==
    ASSUME NEW t \in Nat
    PROVE  /\ t \div Granularity \in Nat /\ Stamp(t) = (t \div Granularity) * Granularity
           /\ Stamp(t) \in Nat /\ Stamp(t) <= t /\ t < Stamp(t) + Granularity
<1>1. Granularity \in Nat \ {0}
  BY SyncAssumption
<1>2. /\ t = (t \div Granularity) * Granularity + (t % Granularity)
      /\ t % Granularity \in 0..(Granularity - 1) /\ t \div Granularity \in Nat
  BY <1>1, DivMod
<1>3. (t \div Granularity) * Granularity \in Nat
  BY <1>1, <1>2
<1>. QED
  BY <1>1, <1>2, <1>3 DEF Stamp

(* And never goes back.                                                    *)
LEMMA StampsGrow ==
    ASSUME NEW t \in Nat, NEW u \in Nat, t <= u
    PROVE  Stamp(t) <= Stamp(u)
<1>1. Granularity \in Nat \ {0}
  BY SyncAssumption
<1>. DEFINE g == Granularity
<1>2. PICK a \in Nat : Stamp(t) = a * g
  BY StampLags
<1>3. PICK b \in Nat : Stamp(u) = b * g
  BY StampLags
<1>4. CASE a <= b
  BY <1>1, <1>2, <1>3, <1>4
<1>5. CASE b + 1 <= a
  <2>1. (b + 1) * g <= a * g
    BY <1>1, <1>5
  <2>2. (b + 1) * g = b * g + g /\ b * g \in Nat /\ a * g \in Nat
    BY <1>1
  <2>3. Stamp(t) <= t /\ u < Stamp(u) + g
    BY StampLags
  <2>. QED
    BY <1>1, <1>2, <1>3, <2>1, <2>2, <2>3
<1>. QED
  BY <1>4, <1>5

-----------------------------------------------------------------------------
(* Entries.                                                                *)

(* What the variables hold, taken apart.                                   *)
LEMMA Types ==
    ASSUME TypeOK
    PROVE  /\ now \in Nat
           /\ \A f \in Files : /\ local[f] # None => local[f] \in Signatures
                               /\ remote[f] # None => remote[f] \in Versions
                               /\ caller[f] # None => caller[f] \in [hash : Hashes, mtime : Nat]
           /\ \A s \in Syncs : work[s] \in Works /\ work[s].written \in Nat
           /\ \A s \in Syncs, f \in Files :
                  /\ work[s].sig[f] # None => work[s].sig[f] \in Entries
                  /\ work[s].trusted[f] # None => work[s].trusted[f] \in Entries
                  /\ work[s].hashed[f] # None => work[s].hashed[f] \in Hashes
                  /\ work[s].manifest[f] # None => work[s].manifest[f] \in Versions
                  /\ work[s].archive[f] # None => work[s].archive[f] \in Versions
  BY SyncAssumption DEF TypeOK, Of, Works

(* The cache file and the temporary file: what is in a whole one.          *)
LEMMA FileTypes ==
    ASSUME NEW file \in CacheFiles \cup {None, Torn}, file \notin {None, Torn}
    PROVE  /\ file.written \in Nat
           /\ \A f \in Files : file.entries[f] # None => file.entries[f] \in Entries
  BY DEF CacheFiles, Of

(* What a sync would save of a file is a signature.                        *)
LEMMA EntryType ==
    ASSUME TypeOK, NEW s \in Syncs, NEW f \in Files, work[s].sig[f] # None
    PROVE  /\ Entry(s, f) \in Entries
           /\ Entry(s, f).mtime = work[s].sig[f].mtime
           /\ Entry(s, f).ctime = work[s].sig[f].ctime
           /\ Entry(s, f).mode = work[s].sig[f].mode
           /\ Entry(s, f).seen = work[s].sig[f].seen
           /\ Entry(s, f).hash = IF work[s].hashed[f] = None THEN work[s].sig[f].hash
                                 ELSE work[s].hashed[f]
<1>1. work[s].sig[f] \in Entries /\ (work[s].hashed[f] # None => work[s].hashed[f] \in Hashes)
  BY Types
<1>. QED
  BY <1>1 DEF Entry, Entries

(* A file that is there when an entry is read looks like the entry.        *)
LEMMA SeenType ==
    ASSUME NEW file, file \in Signatures \cup {None}, NEW t \in Nat
    PROVE  /\ SeenAt(file, t) \in Entries \cup {None}
           /\ SeenAt(file, t) = None <=> file = None
           /\ file # None =>
                  /\ SeenAt(file, t).seen = t
                  /\ SeenAt(file, t).hash = file.hash
                  /\ statSignaturesMatch(SeenAt(file, t), file)
<1>1. None \notin Entries
  BY SyncAssumption DEF Entries
<1>. QED
  BY <1>1 DEF SeenAt, Entries, Signatures, statSignaturesMatch

(* No edit contradicts a settled entry: its time stamp is later.           *)
LEMMA SoundEdited ==
    ASSUME TypeOK, NEW f \in Files, Edit(f) \/ Remove(f),
           NEW g \in Files, NEW e \in Entries, Sound(e, local[g])
    PROVE  Sound(e, local[g])'
<1>1. now' = now /\ now \in Nat /\ e.seen \in Nat /\ e.seen <= now
  BY Types DEF Edit, Remove, Change, Sound, Entries
<1>2. CASE g # f \/ local'[g] = None
  BY <1>1, <1>2 DEF Edit, Remove, Change, TypeOK, Of, Sound
<1>3. CASE g = f /\ local'[g] # None
  <2>1. Edit(f)
    BY <1>3 DEF Remove, Change, TypeOK, Of
  <2>2. local'[f].ctime = Stamp(now)
    BY <2>1 DEF Edit, Change, TypeOK, Of
  <2>3. Stamp(e.seen) <= Stamp(now) /\ Stamp(e.seen) \in Nat /\ Stamp(now) \in Nat
    BY <1>1, StampsGrow, StampLags
  <2>4. Settled(e) => e.ctime # Stamp(now)
    BY <2>3 DEF Settled, Entries
  <2>. QED
    BY <1>1, <1>3, <2>2, <2>4 DEF Sound, statSignaturesMatch
<1>. QED
  BY <1>2, <1>3

-----------------------------------------------------------------------------
(* The invariant holds at first.                                           *)
LEMMA InitInv == Init => TypeOK /\ SyncInv
<1>. SUFFICES ASSUME Init PROVE TypeOK /\ SyncInv
  OBVIOUS
<1>1. Idle \in Works
  BY SyncAssumption DEF Idle, Works, Absent, Of
<1>2. TypeOK
  <2>1. local \in Of(Signatures)
    BY DEF Init, Of, Signatures
  <2>2. now \in 0..MaxTime /\ edits \in 0..MaxEdits /\ begins \in 0..MaxSyncs /\ given \subseteq Syncs
    BY SyncAssumption DEF Init
  <2>3. remote \in Of(Versions) /\ caller \in Of([hash : Hashes, mtime : Nat])
    BY DEF Init, Absent, Of
  <2>4. stored \in CacheFiles \cup {None, Torn} /\ tmp \in CacheFiles \cup {None, Torn}
    BY DEF Init
  <2>5. work \in [Syncs -> Works] /\ late \in [Syncs -> Of(Versions)]
    BY <1>1 DEF Init, Absent, Of
  <2>. QED
    BY <2>1, <2>2, <2>3, <2>4, <2>5 DEF Init, TypeOK
<1>. QED
  BY <1>2 DEF Init, SyncInv, SoundFile, Holds, Trusts, Saves, Knows, Idle, Absent

-----------------------------------------------------------------------------
(* The tree and the clock.                                                 *)

(* Whatever leaves the cache files and the syncs alone, and keeps sound    *)
(* what is, keeps what is saved and trusted sound.                         *)
LEMMA CachesStaySound ==
    ASSUME TypeOK, SyncInv, UNCHANGED <<saved, given, pc, work>>,
           \A e \in Entries, f \in Files : Sound(e, local[f]) => Sound(e, local[f])'
    PROVE  /\ SoundFile(stored)' /\ SoundFile(tmp)'
           /\ \A s \in Syncs : Trusts(s)' /\ (s \notin given' => Saves(s)')
<1>. USE DEF saved
<1>1. ASSUME NEW file \in CacheFiles \cup {None, Torn}, SoundFile(file), file \notin {None, Torn},
             NEW f \in Files, file.entries[f] # None
      PROVE  Sound(file.entries[f], local[f])'
  BY <1>1, FileTypes DEF SoundFile
<1>2. SoundFile(stored)' /\ SoundFile(tmp)'
  BY <1>1 DEF SyncInv, SoundFile, TypeOK
<1>3. ASSUME NEW s \in Syncs PROVE Trusts(s)'
  BY Types DEF SyncInv, Trusts
<1>4. ASSUME NEW s \in Syncs, s \notin given' PROVE Saves(s)'
  <2>1. ASSUME NEW f \in Files, work[s].sig[f] # None
        PROVE  Sound(Entry(s, f), local[f])'
    <3>1. Entry(s, f) \in Entries /\ Sound(Entry(s, f), local[f])
      BY <1>4, <2>1, EntryType DEF SyncInv, Saves
    <3>2. Entry(s, f)' = Entry(s, f)
      BY DEF Entry
    <3>3. \A e \in Entries : Sound(e, local[f]) => Sound(e, local[f])'
      OBVIOUS
    <3>. DEFINE e == Entry(s, f)
    <3>. HIDE DEF e
    <3>4. Sound(e, local[f])'
      BY <3>1, <3>2, <3>3 DEF e
    <3>. QED
      BY <3>4 DEF e
  <2>. QED
    BY <2>1 DEF Saves
<1>. QED
  BY <1>2, <1>3, <1>4

(* The clock moves.                                                        *)
LEMMA TickStep ==
    ASSUME TypeOK, SyncInv, Tick
    PROVE  TypeOK' /\ SyncInv'
<1>. USE DEF Tick, saved
<1>1. TypeOK'
  BY SyncAssumption DEF TypeOK
<1>2. /\ SoundFile(stored)' /\ SoundFile(tmp)'
      /\ \A s \in Syncs : Trusts(s)' /\ (s \notin given' => Saves(s)')
  <2>1. \A e \in Entries, f \in Files : Sound(e, local[f]) => Sound(e, local[f])'
    BY Types DEF Sound, Entries
  <2>. QED
    BY <2>1, CachesStaySound
<1>3. \A s \in Syncs : Holds(s)' /\ Knows(s)'
  BY DEF SyncInv, Holds, Knows, KnowsFile, Unedited, Arrived, Mirrors, Mistaken, Unhashed
<1>. QED
  BY <1>1, <1>2, <1>3 DEF SyncInv

(* A file is edited, created, removed or given another mode.               *)
LEMMA EditStep ==
    ASSUME TypeOK, SyncInv, NEW f \in Files, Edit(f) \/ Remove(f)
    PROVE  TypeOK' /\ SyncInv'
<1>1. PICK file \in Signatures \cup {None} : Change(f, file)
  <2>1. now \in Nat /\ Stamp(now) \in Nat /\ (local[f] # None => local[f] \in Signatures)
    BY Types, StampLags
  <2>2. CASE Edit(f)
    BY <2>1, <2>2 DEF Edit, Signatures, Versions
  <2>3. CASE Remove(f)
    BY <2>3 DEF Remove
  <2>. QED
    BY <2>2, <2>3
<1>. USE DEF Change, saved
<1>2. TypeOK'
  BY <1>1, SyncAssumption DEF TypeOK, Of
<1>3. \A g \in Files \ {f} : local'[g] = local[g]
  BY <1>1 DEF TypeOK, Of
<1>5. /\ SoundFile(stored)' /\ SoundFile(tmp)'
      /\ \A s \in Syncs : Trusts(s)' /\ (s \notin given' => Saves(s)')
  BY <1>1, SoundEdited, CachesStaySound
<1>6. \A s \in Syncs : Holds(s)'
  BY <1>1 DEF SyncInv, Holds, Unhashed
<1>7. ASSUME NEW s \in Syncs PROVE Knows(s)'
  <2>1. quiet'[s] = quiet[s] \ {f} /\ quiet[s] \subseteq Files
    BY <1>1 DEF TypeOK
  <2>. QED
    BY <1>1, <1>3, <2>1 DEF SyncInv, Knows, KnowsFile, Unedited, Arrived, Mirrors, Mistaken
<1>. QED
  BY <1>2, <1>5, <1>6, <1>7 DEF SyncInv

-----------------------------------------------------------------------------
(* The syncs: what a step of one of them leaves alone.                     *)

(* A sync that does not move, and whose quiet files nobody touches, keeps  *)
(* what it knows.                                                          *)
LEMMA OthersKeep ==
    ASSUME TypeOK, SyncInv, UNCHANGED tree, NEW s \in Syncs,
           s \in given' <=> s \in given,
           pc'[s] = pc[s], work'[s] = work[s], quiet'[s] \subseteq quiet[s],
           \A f \in quiet'[s] : /\ remote'[f] = remote[f]
                                /\ s \in given => caller'[f] = caller[f]
    PROVE  Holds(s)' /\ Trusts(s)' /\ (s \notin given' => Saves(s)') /\ Knows(s)'
<1>. USE DEF tree
<1>1. Holds(s) /\ Trusts(s) /\ (s \notin given => Saves(s)) /\ Knows(s)
  BY DEF SyncInv
<1>2. Holds(s)'
  BY <1>1 DEF Holds, Unhashed
<1>3. Trusts(s)'
  BY <1>1 DEF Trusts, Sound
<1>4. s \notin given' => Saves(s)'
  BY <1>1 DEF Saves, Sound, Entry
<1>5. Knows(s)'
  BY <1>1 DEF Knows, KnowsFile, Unedited, Arrived, Mirrors, Mistaken
<1>. QED
  BY <1>2, <1>3, <1>4, <1>5

(* So it is enough to look at the sync that moves.                         *)
LEMMA OneMoves ==
    ASSUME TypeOK, SyncInv, UNCHANGED tree, NEW s \in Syncs,
           \A t \in Syncs \ {s} :
               /\ t \in given' <=> t \in given
               /\ pc'[t] = pc[t] /\ work'[t] = work[t] /\ quiet'[t] \subseteq quiet[t]
               /\ \A f \in quiet'[t] : /\ remote'[f] = remote[f]
                                       /\ t \in given => caller'[f] = caller[f],
           SoundFile(stored)', SoundFile(tmp)',
           Holds(s)', Trusts(s)', s \notin given' => Saves(s)', Knows(s)'
    PROVE  SyncInv'
<1>1. \A t \in Syncs : Holds(t)' /\ Trusts(t)' /\ (t \notin given' => Saves(t)') /\ Knows(t)'
  BY OthersKeep
<1>. QED
  BY <1>1 DEF SyncInv

(* The cache files stay sound when nobody writes them.                     *)
LEMMA FilesKeep ==
    ASSUME SyncInv, UNCHANGED <<tree, stored, tmp>>
    PROVE  SoundFile(stored)' /\ SoundFile(tmp)'
  BY DEF SyncInv, SoundFile, Sound, tree

(* A sync that ends holds nothing.                                         *)
LEMMA Ended ==
    ASSUME TypeOK, UNCHANGED tree, NEW s \in Syncs, NEW how \in {"done", "failed"}, End(s, how)
    PROVE  /\ pc' \in [Syncs -> {"idle", "walk", "hash", "upload", "extract", "open", "write",
                                "rename", "done", "failed"}]
           /\ work' \in [Syncs -> Works] /\ pc'[s] = how
           /\ \A t \in Syncs \ {s} : pc'[t] = pc[t] /\ work'[t] = work[t]
           /\ Holds(s)' /\ Trusts(s)' /\ Saves(s)'
<1>. USE DEF End, Go
<1>1. Idle \in Works
  BY SyncAssumption DEF Idle, Works, Absent, Of
<1>2. /\ pc'[s] = how /\ work'[s] = Idle
      /\ \A t \in Syncs \ {s} : pc'[t] = pc[t] /\ work'[t] = work[t]
  BY DEF TypeOK
<1>3. /\ pc' \in [Syncs -> {"idle", "walk", "hash", "upload", "extract", "open", "write",
                           "rename", "done", "failed"}]
      /\ work' \in [Syncs -> Works]
  BY <1>1 DEF TypeOK
<1>4. Holds(s)' /\ Saves(s)'
  BY <1>2 DEF Holds, Saves, Idle, Absent
<1>5. Trusts(s)'
  BY <1>2 DEF Trusts, Idle, Absent
<1>. QED
  BY <1>2, <1>3, <1>4, <1>5

(* A sync with the same signatures and hashes has what it would save as    *)
(* sound as it was.                                                        *)
LEMMA SavesKept ==
    ASSUME UNCHANGED tree, NEW s \in Syncs, Saves(s),
           work'[s].sig = work[s].sig, work'[s].hashed = work[s].hashed
    PROVE  Saves(s)'
  BY DEF Saves, Sound, Entry, tree

-----------------------------------------------------------------------------
(* The steps of a sync.                                                    *)

(* What loadStatCache keeps of a sound file is sound, and older than the   *)
(* margin.                                                                 *)
LEMMA LoadedIsSound ==
    ASSUME TypeOK, NEW file \in CacheFiles \cup {None, Torn}, SoundFile(file),
           NEW f \in Files, loadStatCache(file)[f] # None
    PROVE  /\ file \notin {None, Torn} /\ file.written \in Nat
           /\ loadStatCache(file)[f] = file.entries[f]
           /\ loadStatCache(file)[f] \in Entries
           /\ Sound(loadStatCache(file)[f], local[f])
           /\ loadStatCache(file)[f].mtime < file.written - Margin
<1>1. file \notin {None, Torn}
  BY DEF loadStatCache, Absent
<1>2. /\ loadStatCache(file)[f] = file.entries[f] /\ file.entries[f] # None
      /\ ~(file.entries[f].mtime >= file.written - Margin)
  BY <1>1 DEF loadStatCache
<1>3. file.entries[f] \in Entries /\ file.written \in Nat
  BY <1>1, <1>2, FileTypes
<1>. QED
  BY <1>1, <1>2, <1>3, SyncAssumption DEF SoundFile, Entries

LEMMA BeginStep ==
    ASSUME TypeOK, SyncInv, NEW s \in Syncs, Begin(s)
    PROVE  TypeOK' /\ SyncInv'
<1>1. PICK told \in SUBSET Files :
         work' = [work EXCEPT ![s].manifest =
                    [f \in Files |-> IF f \in told THEN remote[f] ELSE None]]
  BY DEF Begin
<1>. DEFINE m == [f \in Files |-> IF f \in told THEN remote[f] ELSE None]
            w == [work[s] EXCEPT !.manifest = m]
<1>. USE DEF Begin, Go, saved
<1>2. w \in Works
  <2>1. m \in Of(Versions)
    BY DEF TypeOK, Of
  <2>2. work[s] \in Works
    BY DEF TypeOK
  <2>. QED
    BY <2>1, <2>2 DEF Works
<1>3. /\ work'[s] = w /\ pc'[s] = "walk" /\ quiet'[s] = Files
      /\ given' \subseteq Syncs
      /\ \A t \in Syncs \ {s} : /\ work'[t] = work[t] /\ pc'[t] = pc[t] /\ quiet'[t] = quiet[t]
                               /\ t \in given' <=> t \in given
  BY <1>1 DEF TypeOK
<1>4. TypeOK'
  BY <1>1, <1>2, <1>3, SyncAssumption DEF TypeOK, tree
<1>5. work[s] = Idle
  BY DEF SyncInv, Holds
<1>6. Holds(s)' /\ Saves(s)'
  BY <1>3, <1>5 DEF Idle, Absent, Holds, Saves
<1>7. Trusts(s)'
  BY <1>3, <1>5 DEF Idle, Absent, Trusts
<1>8. Knows(s)'
  <2>1. work'[s].manifest = m
    BY <1>2, <1>3 DEF Works, TypeOK
  <2>. QED
    BY <1>3, <2>1 DEF Knows, KnowsFile
<1>. QED
  BY <1>3, <1>4, <1>6, <1>7, <1>8, OneMoves, FilesKeep

LEMMA WalkStep ==
    ASSUME TypeOK, SyncInv, NEW s \in Syncs, Walk(s)
    PROVE  TypeOK' /\ SyncInv'
<1>. DEFINE loaded == IF s \in given THEN Absent ELSE loadStatCache(stored)
            sig == [f \in Files |-> SeenAt(local[f], now)]
            w == [work[s] EXCEPT !.sig = sig, !.trusted = loaded]
<1>. USE DEF Walk, Go, saved, tree
<1>1. now \in Nat /\ \A f \in Files : local[f] \in Signatures \cup {None}
  BY Types DEF TypeOK, Of
<1>2. \A f \in Files : loaded[f] # None => loaded[f] \in Entries /\ Sound(loaded[f], local[f])
  BY LoadedIsSound DEF TypeOK, SyncInv, Absent
<1>3. loaded \in Of(Entries) /\ sig \in Of(Entries)
  <2>1. loaded = [f \in Files |-> loaded[f]]
    BY DEF loadStatCache, Absent, TypeOK, CacheFiles, Of
  <2>2. sig \in Of(Entries)
    BY <1>1, SeenType DEF Of
  <2>. QED
    BY <1>2, <2>1, <2>2 DEF Of
<1>4. w \in Works
  BY <1>3 DEF TypeOK, Works
<1>5. /\ work' = [work EXCEPT ![s] = w] /\ work'[s] = w /\ pc'[s] = "hash"
      /\ \A t \in Syncs \ {s} : work'[t] = work[t] /\ pc'[t] = pc[t]
  BY DEF TypeOK
<1>6. TypeOK'
  <2>1. work' \in [Syncs -> Works]
    BY <1>4, <1>5 DEF TypeOK
  <2>. QED
    BY <2>1 DEF TypeOK
<1>7. /\ work'[s].sig = sig /\ work'[s].trusted = loaded
      /\ work'[s].hashed = work[s].hashed /\ work'[s].chunk = work[s].chunk
      /\ work'[s].manifest = work[s].manifest
  BY <1>4, <1>5 DEF TypeOK, Works
<1>8. work[s].hashed = Absent /\ work[s].chunk = 0
  BY DEF SyncInv, Holds
<1>9. Holds(s)'
  BY <1>5, <1>7, <1>8 DEF Holds
<1>10. Trusts(s)'
  BY <1>2, <1>7 DEF Trusts, Sound
<1>11. ASSUME NEW f \in Files
       PROVE  /\ sig[f] = None <=> local[f] = None
              /\ local[f] # None => /\ statSignaturesMatch(sig[f], local[f])
                                    /\ sig[f].seen = now /\ sig[f].hash = local[f].hash
                                    /\ sig[f] \in Entries
  BY <1>1, SeenType
<1>. HIDE DEF sig, loaded, w
<1>12. Saves(s)'
  <2>1. ASSUME NEW f \in Files, sig[f] # None
        PROVE  Sound(Entry(s, f), local[f])'
    <3>1. Entry(s, f)' = [sig[f] EXCEPT !.hash = sig[f].hash]
      BY <1>7, <1>8 DEF Entry, Absent
    <3>2. Entry(s, f)' = sig[f]
      BY <1>11, <2>1, <3>1 DEF Entries
    <3>. QED
      BY <1>1, <1>11, <2>1, <3>2 DEF Sound
  <2>. QED
    BY <1>7, <2>1 DEF Saves, Sound
<1>13. Knows(s)'
  <2>1. ASSUME NEW f \in quiet[s] PROVE KnowsFile(s, f)'
    <3>1. f \in Files /\ work[s].manifest[f] \in {None, remote[f]} /\ work'[s].hashed[f] = None
      BY <1>7, <1>8 DEF SyncInv, Knows, KnowsFile, Absent, TypeOK
    <3>2. Unedited(s, f)'
      BY <1>7, <1>11, <3>1 DEF Unedited
    <3>. QED
      BY <1>5, <1>7, <3>1, <3>2 DEF KnowsFile
  <2>. QED
    BY <2>1 DEF Knows
<1>. QED
  BY <1>5, <1>6, <1>9, <1>10, <1>12, <1>13, OneMoves, FilesKeep

(* A sync that gets to know the hash of f learns nothing else; the entry   *)
(* of f may be an older one that looks the same.                           *)
LEMMA HashSet ==
    ASSUME TypeOK, NEW s \in Syncs, NEW f \in Files, NEW h \in Hashes, NEW e \in Entries \cup {None},
           work' = [work EXCEPT ![s].hashed[f] = h, ![s].sig[f] = e]
    PROVE  /\ work' \in [Syncs -> Works]
           /\ \A t \in Syncs \ {s} : work'[t] = work[t]
           /\ \A g \in Files : /\ work'[s].hashed[g] = IF g = f THEN h ELSE work[s].hashed[g]
                               /\ work'[s].sig[g] = IF g = f THEN e ELSE work[s].sig[g]
           /\ work'[s].trusted = work[s].trusted /\ work'[s].chunk = work[s].chunk
           /\ work'[s].manifest = work[s].manifest
<1>. DEFINE hashed == [work[s].hashed EXCEPT ![f] = h]
            sig == [work[s].sig EXCEPT ![f] = e]
            w == [work[s] EXCEPT !.hashed = hashed, !.sig = sig]
<1>1. /\ work[s] \in Works /\ work[s].hashed \in [Files -> Hashes \cup {None}]
      /\ work[s].sig \in [Files -> Entries \cup {None}]
  BY DEF TypeOK, Works, Of
<1>2. hashed \in Of(Hashes) /\ sig \in Of(Entries)
  BY <1>1 DEF Of
<1>3. w \in Works
  BY <1>1, <1>2 DEF Works
<1>4. /\ work' = [work EXCEPT ![s] = w] /\ work'[s] = w
      /\ \A t \in Syncs \ {s} : work'[t] = work[t]
  BY DEF TypeOK
<1>5. work' \in [Syncs -> Works]
  BY <1>3, <1>4 DEF TypeOK
<1>. QED
  BY <1>1, <1>4, <1>5 DEF Works

(* What it would save of f is the entry with that hash, what it would save *)
(* of the other files stays.                                               *)
LEMMA HashSaved ==
    ASSUME TypeOK, SyncInv, NEW s \in Syncs, NEW f \in Unhashed(s), pc[s] = "hash",
           UNCHANGED <<tree, given, pc>>,
           \A g \in Files \ {f} : /\ work'[s].hashed[g] = work[s].hashed[g]
                                  /\ work'[s].sig[g] = work[s].sig[g],
           work'[s].hashed[f] \in Hashes, work'[s].sig[f] \in Entries,
           work'[s].trusted = work[s].trusted, work'[s].chunk = work[s].chunk,
           s \notin given =>
               Sound([work'[s].sig[f] EXCEPT !.hash = work'[s].hashed[f]], local[f])
    PROVE  Holds(s)' /\ Trusts(s)' /\ (s \notin given' => Saves(s)')
<1>. USE DEF tree
<1>1. f \in Files
  BY DEF Unhashed
<1>2. Holds(s)'
  BY DEF SyncInv, Holds
<1>3. Trusts(s)'
  BY DEF SyncInv, Trusts, Sound
<1>4. ASSUME s \notin given PROVE Saves(s)'
  <2>1. Saves(s)
    BY <1>4 DEF SyncInv
  <2>2. Entry(s, f)' = [work'[s].sig[f] EXCEPT !.hash = work'[s].hashed[f]]
    BY <1>1, SyncAssumption DEF Entry
  <2>3. \A g \in Files \ {f} : Entry(s, g)' = Entry(s, g)
    BY DEF Entry
  <2>4. ASSUME NEW g \in Files, work'[s].sig[g] # None PROVE Sound(Entry(s, g), local[g])'
    <3>1. CASE g = f
      BY <1>4, <2>2, <3>1 DEF Sound, Settled
    <3>2. CASE g # f
      BY <2>1, <2>3, <2>4, <3>2 DEF Saves, Sound, Settled
    <3>. QED
      BY <3>1, <3>2
  <2>. QED
    BY <2>4 DEF Saves
<1>. QED
  BY <1>2, <1>3, <1>4

LEMMA HashFromCacheStep ==
    ASSUME TypeOK, SyncInv, NEW s \in Syncs, NEW f \in Files, HashFromCache(s, f)
    PROVE  TypeOK' /\ SyncInv'
<1>. DEFINE entry == work[s].trusted[f]
            sig == work[s].sig[f]
            h == KnownHash(s, f)
            e == IF Trusted(s, f) THEN entry ELSE sig
<1>. USE DEF HashFromCache, saved, tree
<1>1. /\ entry # None => entry \in Entries
      /\ sig # None /\ sig \in Entries
      /\ caller[f] # None => caller[f] \in [hash : Hashes, mtime : Nat]
  BY Types DEF Unhashed
<1>2. \/ Trusted(s, f) /\ entry # None /\ statSignaturesMatch(entry, sig) /\ h = entry.hash
      \/ /\ ~Trusted(s, f) /\ s \in given /\ caller[f] # None /\ caller[f].mtime = sig.mtime
         /\ h = caller[f].hash
  BY DEF KnownHash, Trusted
<1>3. h \in Hashes /\ e \in Entries /\ statSignaturesMatch(e, sig)
  BY <1>1, <1>2 DEF Entries, statSignaturesMatch
<1>4. s \notin given => e = entry /\ [e EXCEPT !.hash = h] = entry /\ Sound(entry, local[f])
  BY <1>1, <1>2 DEF SyncInv, Trusts, Entries
<1>5. work' = [work EXCEPT ![s].hashed[f] = h, ![s].sig[f] = e]
  BY DEF TypeOK, Works, Of
<1>6. /\ work' \in [Syncs -> Works]
      /\ \A t \in Syncs \ {s} : work'[t] = work[t]
      /\ \A g \in Files : /\ work'[s].hashed[g] = IF g = f THEN h ELSE work[s].hashed[g]
                          /\ work'[s].sig[g] = IF g = f THEN e ELSE work[s].sig[g]
      /\ work'[s].trusted = work[s].trusted /\ work'[s].chunk = work[s].chunk
      /\ work'[s].manifest = work[s].manifest
  <2>. HIDE DEF h, e, HashFromCache
  <2>. QED
    BY <1>3, <1>5, HashSet
<1>7. /\ quiet' \in [Syncs -> SUBSET Files] /\ \A t \in Syncs : quiet'[t] \subseteq quiet[t]
      /\ f \in quiet'[s] /\ Trusted(s, f) => Settled(entry)
  BY DEF TypeOK
<1>8. TypeOK'
  BY <1>6, <1>7 DEF TypeOK
<1>9. Knows(s)'
  <2>1. ASSUME f \in quiet'[s]
        PROVE  Unedited(s, f)' /\ (local[f] # None => h = local[f].hash \/ Mistaken(s, f))
    <3>1. Unedited(s, f)
      BY <1>7, <2>1 DEF SyncInv, Knows, KnowsFile
    <3>2. local[f] # None /\ statSignaturesMatch(e, local[f])
      BY <1>1, <1>3, <3>1 DEF Unedited, statSignaturesMatch
    <3>3. h = local[f].hash \/ Mistaken(s, f)
      <4>1. CASE Trusted(s, f)
        <5>1. Sound(entry, local[f]) /\ Settled(entry)
          BY <1>2, <1>7, <2>1, <4>1 DEF SyncInv, Trusts
        <5>. QED
          BY <1>2, <3>2, <4>1, <5>1 DEF Sound
      <4>2. CASE ~Trusted(s, f)
        BY <1>2, <3>1, <3>2, <4>2 DEF Mistaken, Unedited, statSignaturesMatch
      <4>. QED
        BY <4>1, <4>2
    <3>4. e # None
      BY <1>3, SyncAssumption DEF Entries
    <3>. QED
      BY <1>6, <3>2, <3>3, <3>4 DEF Unedited
  <2>2. \A g \in quiet'[s] \ {f} : KnowsFile(s, g)'
    BY <1>6, <1>7 DEF SyncInv, Knows, KnowsFile, Unedited, Mistaken, TypeOK
  <2>3. f \in quiet'[s] => KnowsFile(s, f)'
    BY <1>6, <1>7, <2>1 DEF SyncInv, Knows, KnowsFile, Mistaken
  <2>. QED
    BY <2>2, <2>3 DEF Knows
<1>10. Holds(s)' /\ Trusts(s)' /\ (s \notin given' => Saves(s)')
  <2>. HIDE DEF h, e
  <2>1. /\ work'[s].hashed[f] = h /\ work'[s].sig[f] = e
        /\ \A g \in Files \ {f} : /\ work'[s].hashed[g] = work[s].hashed[g]
                                  /\ work'[s].sig[g] = work[s].sig[g]
    BY <1>6
  <2>2. f \in Unhashed(s) /\ pc[s] = "hash" /\ UNCHANGED <<tree, given, pc>>
    OBVIOUS
  <2>3. s \notin given => Sound([work'[s].sig[f] EXCEPT !.hash = work'[s].hashed[f]], local[f])
    BY <1>4, <2>1
  <2>. HIDE DEF HashFromCache
  <2>. QED
    BY <1>3, <1>6, <2>1, <2>2, <2>3, HashSaved
<1>. QED
  BY <1>6, <1>7, <1>8, <1>9, <1>10, OneMoves, FilesKeep

LEMMA HashContentStep ==
    ASSUME TypeOK, SyncInv, NEW s \in Syncs, NEW f \in Files, HashContent(s, f)
    PROVE  TypeOK' /\ SyncInv'
<1>. DEFINE sig == work[s].sig[f]
            h == local[f].hash
<1>. USE DEF HashContent, saved, tree
<1>1. sig # None /\ sig \in Entries /\ local[f] \in Signatures /\ h \in Hashes
  BY Types DEF Unhashed, Signatures
<1>2. /\ quiet'[s] = quiet[s] /\ quiet' \in [Syncs -> SUBSET Files]
      /\ \A t \in Syncs \ {s} :
             /\ quiet'[t] \subseteq quiet[t]
             /\ t \in given /\ s \in given => f \notin quiet'[t]
  BY DEF TellOthers, TypeOK
<1>3. /\ caller' \in Of([hash : Hashes, mtime : Nat])
      /\ \A g \in Files \ {f} : caller'[g] = caller[g]
      /\ IF s \in given THEN caller'[f] = [hash |-> h, mtime |-> sig.mtime]
         ELSE caller' = caller
  BY <1>1 DEF TypeOK, Of, Entries
<1>4. s \notin given => Sound([sig EXCEPT !.hash = h], local[f])
  <2>1. SUFFICES ASSUME s \notin given PROVE Sound([sig EXCEPT !.hash = h], local[f])
    OBVIOUS
  <2>2. Sound(Entry(s, f), local[f])
    BY <1>1, <2>1 DEF SyncInv, Saves
  <2>. QED
    BY <1>1, <2>2, EntryType DEF Sound, Entries
<1>5. work' = [work EXCEPT ![s].hashed[f] = h, ![s].sig[f] = sig]
  <2>1. /\ work \in [Syncs -> Works] /\ work[s] \in Works
        /\ work[s].sig = [work[s].sig EXCEPT ![f] = sig]
    BY DEF TypeOK, Works, Of
  <2>2. [work[s] EXCEPT !.hashed[f] = h] = [work[s] EXCEPT !.hashed[f] = h, !.sig[f] = sig]
    BY <2>1 DEF Works
  <2>. QED
    BY <2>1, <2>2
<1>6. /\ work' \in [Syncs -> Works]
      /\ \A t \in Syncs \ {s} : work'[t] = work[t]
      /\ \A g \in Files : /\ work'[s].hashed[g] = IF g = f THEN h ELSE work[s].hashed[g]
                          /\ work'[s].sig[g] = IF g = f THEN sig ELSE work[s].sig[g]
      /\ work'[s].trusted = work[s].trusted /\ work'[s].chunk = work[s].chunk
      /\ work'[s].manifest = work[s].manifest
  <2>. HIDE DEF h, sig, HashContent
  <2>. QED
    BY <1>1, <1>5, HashSet
<1>7. TypeOK'
  BY <1>2, <1>3, <1>6 DEF TypeOK
<1>8. Knows(s)'
  BY <1>2, <1>3, <1>6 DEF SyncInv, Knows, KnowsFile, Unedited, Mistaken, TypeOK
<1>9. \A t \in Syncs \ {s} : \A g \in quiet'[t] : t \in given => caller'[g] = caller[g]
  BY <1>2, <1>3 DEF TypeOK
<1>10. Holds(s)' /\ Trusts(s)' /\ (s \notin given' => Saves(s)')
  <2>. HIDE DEF h, sig
  <2>1. /\ work'[s].hashed[f] = h /\ work'[s].sig[f] = sig
        /\ \A g \in Files \ {f} : /\ work'[s].hashed[g] = work[s].hashed[g]
                                  /\ work'[s].sig[g] = work[s].sig[g]
    BY <1>6
  <2>2. f \in Unhashed(s) /\ pc[s] = "hash" /\ UNCHANGED <<tree, given, pc>>
    OBVIOUS
  <2>. HIDE DEF HashContent
  <2>. QED
    BY <1>1, <1>4, <1>6, <2>1, <2>2, HashSaved
<1>. QED
  BY <1>2, <1>6, <1>7, <1>8, <1>9, <1>10, OneMoves, FilesKeep

(* A file nobody else touched that is not packed is there already.         *)
LEMMA UnchangedIsThere ==
    ASSUME TypeOK, SyncInv, NEW s \in Syncs, pc[s] = "hash", Unhashed(s) = {},
           NEW f \in quiet[s], f \notin Changed(s)
    PROVE  Arrived(s, f)
<1>1. f \in Files
  BY DEF TypeOK
<1>2. CASE local[f] = None
  BY <1>2 DEF Arrived, Mirrors
<1>3. CASE local[f] # None
  <2>1. /\ work[s].sig[f] # None /\ work[s].sig[f].mode = local[f].mode
        /\ work[s].manifest[f] \in {None, remote[f]}
        /\ work[s].hashed[f] # None => work[s].hashed[f] = local[f].hash \/ Mistaken(s, f)
    BY <1>3 DEF SyncInv, Knows, KnowsFile, Unedited, statSignaturesMatch
  <2>2. work[s].hashed[f] # None
    BY <1>1, <1>3, <2>1 DEF Unhashed
  <2>3. work[s].hashed[f] \in Hashes /\ local[f] \in Signatures
    BY <1>1, <1>3, <2>2, Types
  <2>4. [hash |-> work[s].hashed[f], mode |-> local[f].mode] # None
    BY <2>3, SyncAssumption DEF Signatures
  <2>5. work[s].manifest[f] = [hash |-> work[s].hashed[f], mode |-> local[f].mode]
    BY <1>1, <1>3, <2>1 DEF Changed
  <2>6. remote[f] = [hash |-> work[s].hashed[f], mode |-> local[f].mode]
    BY <2>1, <2>4, <2>5
  <2>. QED
    BY <1>3, <2>1, <2>2, <2>6 DEF Arrived, Mirrors, VersionOf
<1>. QED
  BY <1>2, <1>3

(* The end of the upload, or of a sync that had nothing to upload.         *)
LEMMA UploadedStep ==
    ASSUME TypeOK, SyncInv, UNCHANGED <<tree, given>>, NEW s \in Syncs, Unhashed(s) = {},
           Uploaded(s)
    PROVE  /\ pc' \in [Syncs -> {"idle", "walk", "hash", "upload", "extract", "open", "write",
                                "rename", "done", "failed"}]
           /\ work' \in [Syncs -> Works] /\ pc'[s] \in {"open", "done"}
           /\ \A t \in Syncs \ {s} : pc'[t] = pc[t] /\ work'[t] = work[t]
           /\ Holds(s)' /\ Trusts(s)' /\ (s \notin given' => Saves(s)')
<1>1. CASE s \in given
  BY <1>1, Ended DEF Uploaded
<1>2. CASE s \notin given
  <2>. DEFINE w == [work[s] EXCEPT !.manifest = Absent, !.trusted = Absent, !.archive = Absent]
  <2>. USE DEF Uploaded, Go
  <2>1. work[s] \in Works
    BY DEF TypeOK
  <2>2. w \in Works
    BY <2>1 DEF Works, Absent, Of
  <2>3. /\ work' = [work EXCEPT ![s] = w] /\ work'[s] = w /\ pc'[s] = "open"
        /\ \A t \in Syncs \ {s} : work'[t] = work[t] /\ pc'[t] = pc[t]
    BY <1>2 DEF TypeOK
  <2>4. work' \in [Syncs -> Works]
    BY <2>2, <2>3 DEF TypeOK
  <2>5. pc' \in [Syncs -> {"idle", "walk", "hash", "upload", "extract", "open", "write",
                           "rename", "done", "failed"}]
    BY <1>2 DEF TypeOK
  <2>6. /\ work'[s].sig = work[s].sig /\ work'[s].hashed = work[s].hashed
        /\ work'[s].trusted = Absent
    <3>1. /\ w.sig = work[s].sig /\ w.hashed = work[s].hashed
          /\ w.trusted = Absent
      BY <2>1 DEF Works
    <3>. QED
      BY <2>3, <3>1
  <2>7. Holds(s)'
    BY <1>2, <2>3, <2>6 DEF Holds, Unhashed
  <2>8. Trusts(s)'
    BY <2>6 DEF Trusts, Absent
  <2>9. Saves(s)'
    BY <1>2, <2>3, <2>6, SavesKept DEF SyncInv
  <2>. QED
    BY <2>3, <2>4, <2>5, <2>7, <2>8, <2>9
<1>. QED
  BY <1>1, <1>2

LEMMA DiffStep ==
    ASSUME TypeOK, SyncInv, NEW s \in Syncs, Diff(s)
    PROVE  TypeOK' /\ SyncInv'
<1>. USE DEF Diff, saved
<1>1. UNCHANGED <<tree, given>> /\ quiet[s] \subseteq Files /\ work[s] \in Works
  BY DEF TypeOK
<1>2. CASE Changed(s) = {}
  <2>1. Uploaded(s)
    BY <1>2
  <2>2. /\ pc' \in [Syncs -> {"idle", "walk", "hash", "upload", "extract", "open", "write",
                              "rename", "done", "failed"}]
        /\ work' \in [Syncs -> Works] /\ pc'[s] \in {"open", "done"}
        /\ \A t \in Syncs \ {s} : pc'[t] = pc[t] /\ work'[t] = work[t]
        /\ Holds(s)' /\ Trusts(s)' /\ (s \notin given' => Saves(s)')
    BY <1>1, <2>1, UploadedStep
  <2>3. TypeOK'
    BY <2>2 DEF TypeOK, tree
  <2>4. \A f \in quiet[s] : Arrived(s, f)
    BY <1>2, UnchangedIsThere
  <2>5. Knows(s)'
    BY <2>2, <2>4 DEF Knows, KnowsFile, Arrived, Mirrors, Mistaken, tree
  <2>. QED
    BY <1>1, <2>2, <2>3, <2>5, OneMoves, FilesKeep
<1>3. CASE Changed(s) # {}
  <2>. DEFINE packed == [f \in Files |-> IF f \in Changed(s) THEN VersionOf(local[f]) ELSE None]
              w == [work[s] EXCEPT !.tries = 1, !.manifest = Absent, !.trusted = Absent,
                                   !.archive = packed]
  <2>1. packed \in Of(Versions)
    <3>1. \A f \in Changed(s) : VersionOf(local[f]) \in Versions
      BY <1>3, Types DEF Changed, VersionOf, Signatures, Versions
    <3>. QED
      BY <3>1 DEF Of
  <2>2. 1 \in 0..Attempts
    BY SyncAssumption
  <2>3. w \in Works
    BY <1>1, <2>1, <2>2 DEF Works, Absent, Of
  <2>4. /\ work' = [work EXCEPT ![s] = w] /\ work'[s] = w /\ pc' = [pc EXCEPT ![s] = "upload"]
        /\ pc'[s] = "upload"
        /\ \A t \in Syncs \ {s} : work'[t] = work[t] /\ pc'[t] = pc[t]
    BY <1>3 DEF TypeOK, Go
  <2>5. TypeOK'
    BY <2>3, <2>4 DEF TypeOK, tree
  <2>6. /\ work'[s].sig = work[s].sig /\ work'[s].hashed = work[s].hashed
        /\ work'[s].trusted = Absent
        /\ work'[s].chunk = work[s].chunk /\ work'[s].archive = packed
    <3>1. /\ w.sig = work[s].sig /\ w.hashed = work[s].hashed
          /\ w.trusted = Absent /\ w.chunk = work[s].chunk /\ w.archive = packed
      <4>. HIDE DEF packed
      <4>. QED
        BY <1>1 DEF Works
    <3>. QED
      BY <2>4, <3>1
  <2>7. Holds(s)'
    <3>1. work[s].chunk = 0 /\ 0 < Chunks
      BY SyncAssumption DEF SyncInv, Holds
    <3>. QED
      BY <2>4, <2>6, <3>1 DEF Holds, Unhashed
  <2>8. Trusts(s)'
    BY <2>6 DEF Trusts, Absent
  <2>9. s \notin given' => Saves(s)'
    BY <1>1, <2>4, <2>6, SavesKept DEF SyncInv
  <2>10. Knows(s)'
    <3>1. ASSUME NEW f \in quiet[s]
          PROVE  \/ local[f] # None /\ packed[f] = VersionOf(local[f])
                 \/ packed[f] = None /\ Arrived(s, f)
      BY <1>1, <1>3, <3>1, UnchangedIsThere
    <3>. QED
      BY <2>4, <2>6, <3>1 DEF Knows, KnowsFile, Arrived, Mirrors, Mistaken, tree
  <2>. QED
    BY <1>1, <2>4, <2>5, <2>7, <2>8, <2>9, <2>10, OneMoves, FilesKeep
<1>. QED
  BY <1>2, <1>3

LEMMA SendChunkStep ==
    ASSUME TypeOK, SyncInv, NEW s \in Syncs, SendChunk(s)
    PROVE  TypeOK' /\ SyncInv'
<1>. USE DEF SendChunk, Go, saved
<1>1. /\ pc[s] = "upload" /\ work[s] \in Works /\ Unhashed(s) = {}
      /\ work[s].chunk < Chunks /\ Chunks \in Nat \ {0} /\ Attempts \in Nat \ {0}
      /\ work[s].chunk \in Nat /\ work[s].tries \in Nat /\ UNCHANGED tree
  BY SyncAssumption DEF TypeOK, Works, SyncInv, Holds
<1>2. PICK c \in 0..Chunks, n \in 0..Attempts, to \in {"upload", "extract"} :
         /\ work' = [work EXCEPT ![s] = [work[s] EXCEPT !.chunk = c, !.tries = n]]
         /\ pc' = [pc EXCEPT ![s] = to] /\ (to = "upload" => c < Chunks)
  <2>1. CASE /\ work' = [work EXCEPT ![s].chunk = @ + 1, ![s].tries = 1]
             /\ Go(s, IF work[s].chunk + 1 = Chunks THEN "extract" ELSE "upload")
    <3>1. work[s].chunk + 1 \in 0..Chunks /\ 1 \in 0..Attempts
      BY <1>1
    <3>2. work' = [work EXCEPT ![s] = [work[s] EXCEPT !.chunk = work[s].chunk + 1, !.tries = 1]]
      BY <2>1 DEF TypeOK
    <3>3. work[s].chunk + 1 # Chunks => work[s].chunk + 1 < Chunks
      BY <1>1
    <3>. QED
      BY <2>1, <3>1, <3>2, <3>3
  <2>2. CASE /\ work[s].tries < Attempts /\ work' = [work EXCEPT ![s].tries = @ + 1]
             /\ UNCHANGED pc
    <3>1. work[s].chunk \in 0..Chunks /\ work[s].tries + 1 \in 0..Attempts
      BY <1>1, <2>2
    <3>2. [work[s] EXCEPT !.chunk = work[s].chunk, !.tries = work[s].tries + 1]
            = [work[s] EXCEPT !.tries = work[s].tries + 1]
      BY <1>1 DEF Works
    <3>3. work' = [work EXCEPT ![s] = [work[s] EXCEPT !.chunk = work[s].chunk,
                                                      !.tries = work[s].tries + 1]]
      BY <2>2, <3>2 DEF TypeOK
    <3>4. pc' = [pc EXCEPT ![s] = "upload"]
      BY <1>1, <2>2 DEF TypeOK
    <3>. QED
      BY <1>1, <3>1, <3>3, <3>4
  <2>. QED
    BY <2>1, <2>2
<1>. DEFINE w == [work[s] EXCEPT !.chunk = c, !.tries = n]
<1>3. w \in Works
  BY <1>1 DEF Works
<1>4. /\ w.sig = work[s].sig /\ w.hashed = work[s].hashed
      /\ w.trusted = work[s].trusted /\ w.archive = work[s].archive /\ w.chunk = c
  BY <1>1 DEF Works
<1>. HIDE DEF w
<1>5. /\ work'[s] = w /\ pc'[s] = to
      /\ \A t \in Syncs \ {s} : work'[t] = work[t] /\ pc'[t] = pc[t]
  BY <1>2 DEF TypeOK, w
<1>6. TypeOK'
  BY <1>2, <1>3 DEF TypeOK, tree, w
<1>7. Holds(s)'
  BY <1>1, <1>2, <1>4, <1>5 DEF Holds, Unhashed
<1>8. Trusts(s)'
  BY <1>4, <1>5 DEF SyncInv, Trusts, Sound, tree
<1>9. s \notin given' => Saves(s)'
  BY <1>1, <1>2, <1>4, <1>5, SavesKept DEF SyncInv
<1>10. Knows(s)'
  BY <1>1, <1>2, <1>4, <1>5 DEF SyncInv, Knows, KnowsFile, Arrived, Mirrors, Mistaken, tree
<1>. QED
  BY <1>1, <1>5, <1>6, <1>7, <1>8, <1>9, <1>10, OneMoves, FilesKeep

(* What an archive does to the machine.                                    *)
LEMMA Unpacked ==
    ASSUME TypeOK, NEW packed \in Of(Versions), NEW which \in SUBSET Files
    PROVE  /\ Unpack(packed, which) \in Of(Versions)
           /\ \A f \in Files : packed[f] = None => Unpack(packed, which)[f] = remote[f]
  BY DEF TypeOK, Unpack, Of

LEMMA ExtractStep ==
    ASSUME TypeOK, SyncInv, NEW s \in Syncs, Extract(s)
    PROVE  TypeOK' /\ SyncInv'
<1>. DEFINE packed == work[s].archive
<1>. USE DEF Extract, saved
<1>1. /\ pc[s] = "extract" /\ Unhashed(s) = {} /\ UNCHANGED <<tree, given>>
      /\ quiet \in [Syncs -> SUBSET Files] /\ packed \in Of(Versions)
  BY DEF SyncInv, Holds, TypeOK, Works
<1>2. /\ pc' \in [Syncs -> {"idle", "walk", "hash", "upload", "extract", "open", "write",
                            "rename", "done", "failed"}]
      /\ work' \in [Syncs -> Works] /\ pc'[s] \in {"open", "done"}
      /\ \A t \in Syncs \ {s} : pc'[t] = pc[t] /\ work'[t] = work[t]
      /\ Holds(s)' /\ Trusts(s)' /\ (s \notin given' => Saves(s)')
  BY <1>1, UploadedStep
<1>3. /\ quiet' \in [Syncs -> SUBSET Files] /\ quiet'[s] = quiet[s]
      /\ \A t \in Syncs \ {s} : quiet'[t] = {f \in quiet[t] : packed[f] = None}
  BY <1>1 DEF DisturbOthers
<1>4. /\ remote' \in Of(Versions)
      /\ \A f \in Files : packed[f] = None => remote'[f] = remote[f]
  BY <1>1, Unpacked
<1>5. TypeOK'
  BY <1>2, <1>3, <1>4 DEF TypeOK, tree
<1>6. ASSUME NEW f \in quiet[s] PROVE Mirrors(f)' \/ Mistaken(s, f)'
  <2>1. f \in Files
    BY <1>1
  <2>2. CASE local[f] # None /\ packed[f] = VersionOf(local[f])
    <3>1. packed[f] # None
      BY <2>1, <2>2, Types, SyncAssumption DEF VersionOf, Signatures
    <3>2. remote'[f] = VersionOf(local[f])
      BY <2>1, <2>2, <3>1 DEF Unpack
    <3>. QED
      BY <1>1, <3>2 DEF Mirrors, tree
  <2>3. CASE packed[f] = None /\ Arrived(s, f)
    BY <1>1, <1>4, <2>1, <2>3 DEF Arrived, Mirrors, Mistaken, tree
  <2>. QED
    BY <1>1, <2>2, <2>3 DEF SyncInv, Knows, KnowsFile
<1>7. Knows(s)'
  BY <1>2, <1>3, <1>6 DEF Knows, KnowsFile, Arrived, Mirrors, Mistaken, tree
<1>8. \A t \in Syncs \ {s} :
          /\ quiet'[t] \subseteq quiet[t]
          /\ \A f \in quiet'[t] : remote'[f] = remote[f]
  BY <1>1, <1>3, <1>4
<1>. QED
  BY <1>1, <1>2, <1>5, <1>7, <1>8, OneMoves, FilesKeep

LEMMA FailStep ==
    ASSUME TypeOK, SyncInv, NEW s \in Syncs, Fail(s)
    PROVE  TypeOK' /\ SyncInv'
<1>. USE DEF Fail, saved
<1>1. UNCHANGED tree /\ End(s, "failed")
  OBVIOUS
<1>2. /\ pc' \in [Syncs -> {"idle", "walk", "hash", "upload", "extract", "open", "write",
                            "rename", "done", "failed"}]
      /\ work' \in [Syncs -> Works] /\ pc'[s] = "failed"
      /\ \A t \in Syncs \ {s} : pc'[t] = pc[t] /\ work'[t] = work[t]
      /\ Holds(s)' /\ Trusts(s)' /\ Saves(s)'
  BY <1>1, Ended
<1>3. /\ late' \in [Syncs -> Of(Versions)] /\ quiet' \in [Syncs -> SUBSET Files]
      /\ given' \subseteq Syncs
      /\ \A t \in Syncs \ {s} : quiet'[t] = quiet[t] /\ (t \in given' <=> t \in given)
  BY DEF TypeOK, Works
<1>4. TypeOK'
  BY <1>2, <1>3 DEF TypeOK, tree
<1>5. Knows(s)'
  BY <1>2 DEF Knows, KnowsFile
<1>. QED
  BY <1>1, <1>2, <1>3, <1>4, <1>5, OneMoves, FilesKeep

(* An extraction happens after its sync gave up, or half of it does.       *)
LEMMA LateExtractStep ==
    ASSUME TypeOK, SyncInv, NEW s \in Syncs, LateExtract(s)
    PROVE  TypeOK' /\ SyncInv'
<1>. USE DEF LateExtract, saved
<1>1. late[s] \in Of(Versions) /\ quiet \in [Syncs -> SUBSET Files] /\ UNCHANGED tree
  BY DEF TypeOK
<1>2. PICK which \in SUBSET Files : remote' = Unpack(late[s], which)
  OBVIOUS
<1>3. /\ remote' \in Of(Versions)
      /\ \A f \in Files : late[s][f] = None => remote'[f] = remote[f]
  BY <1>1, <1>2, Unpacked
<1>4. /\ quiet' \in [Syncs -> SUBSET Files]
      /\ \A t \in Syncs : /\ quiet'[t] \subseteq quiet[t]
                          /\ \A f \in quiet'[t] : remote'[f] = remote[f]
  BY <1>1, <1>3
<1>5. late' \in [Syncs -> Of(Versions)]
  BY DEF TypeOK, Absent, Of
<1>6. TypeOK'
  BY <1>3, <1>4, <1>5 DEF TypeOK, tree
<1>7. \A t \in Syncs :
          Holds(t)' /\ Trusts(t)' /\ (t \notin given' => Saves(t)') /\ Knows(t)'
  BY <1>1, <1>4, OthersKeep
<1>. QED
  BY <1>1, <1>6, <1>7, FilesKeep DEF SyncInv

-----------------------------------------------------------------------------
(* saveStatCache.                                                          *)

LEMMA SaveOpenStep ==
    ASSUME TypeOK, SyncInv, NEW s \in Syncs, SaveOpen(s)
    PROVE  TypeOK' /\ SyncInv'
<1>. DEFINE w == [work[s] EXCEPT !.written = now]
<1>. USE DEF SaveOpen, Go, saved
<1>1. /\ pc[s] = "open" /\ work[s] \in Works /\ now \in Nat
      /\ Unhashed(s) = {} /\ s \notin given /\ UNCHANGED tree
  BY Types DEF TypeOK, SyncInv, Holds
<1>2. w \in Works
  BY <1>1 DEF Works
<1>3. /\ w.sig = work[s].sig /\ w.hashed = work[s].hashed
      /\ w.trusted = work[s].trusted
  BY <1>1 DEF Works
<1>. HIDE DEF w
<1>4. /\ work'[s] = w /\ pc'[s] = "write"
      /\ \A t \in Syncs \ {s} : work'[t] = work[t] /\ pc'[t] = pc[t]
  BY DEF TypeOK, w
<1>5. TypeOK'
  BY <1>2 DEF TypeOK, tree, w
<1>6. SoundFile(stored)' /\ SoundFile(tmp)'
  BY <1>1 DEF SyncInv, SoundFile, Sound, tree
<1>7. Holds(s)'
  BY <1>1, <1>3, <1>4 DEF Holds, Unhashed
<1>8. Trusts(s)'
  BY <1>1, <1>3, <1>4 DEF SyncInv, Trusts, Sound, tree
<1>9. Saves(s)'
  BY <1>1, <1>3, <1>4, SavesKept DEF SyncInv
<1>10. Knows(s)'
  BY <1>1, <1>4 DEF SyncInv, Knows, KnowsFile, Arrived, Mirrors, Mistaken, tree
<1>. QED
  BY <1>1, <1>4, <1>5, <1>6, <1>7, <1>8, <1>9, <1>10, OneMoves

(* What is written is sound.                                               *)
LEMMA WholeIsSound ==
    ASSUME TypeOK, SyncInv, NEW s \in Syncs, pc[s] = "write",
           NEW whole, whole = [written |-> work[s].written, entries |-> Fresh(s)]
    PROVE  whole \in CacheFiles /\ SoundFile(whole)
<1>1. /\ Unhashed(s) = {} /\ s \notin given /\ work[s].written \in Nat
      /\ Saves(s)
  BY Types DEF SyncInv, Holds
<1>2. \A f \in Files : Fresh(s)[f] = IF work[s].sig[f] = None THEN None ELSE Entry(s, f)
  BY <1>1 DEF Fresh, Entry, Unhashed
<1>3. Fresh(s) \in Of(Entries)
  <2>1. \A f \in Files : Fresh(s)[f] \in Entries \cup {None}
    BY <1>2, EntryType
  <2>. QED
    BY <2>1 DEF Fresh, Of
<1>4. \A f \in Files : Fresh(s)[f] # None => Sound(Fresh(s)[f], local[f])
  BY <1>1, <1>2 DEF Saves
<1>. QED
  BY <1>1, <1>3, <1>4 DEF CacheFiles, SoundFile

LEMMA SaveWriteStep ==
    ASSUME TypeOK, SyncInv, NEW s \in Syncs, SaveWrite(s)
    PROVE  TypeOK' /\ SyncInv'
<1>. DEFINE whole == [written |-> work[s].written, entries |-> Fresh(s)]
<1>. USE DEF SaveWrite, Go
<1>1. pc[s] = "write" /\ UNCHANGED tree
  OBVIOUS
<1>2. whole \in CacheFiles /\ SoundFile(whole)
  BY <1>1, WholeIsSound
<1>3. stored' \in {stored, whole} /\ tmp' \in {tmp, whole, Torn}
  OBVIOUS
<1>. HIDE DEF whole
<1>4. /\ pc'[s] = "rename" /\ work' = work
      /\ \A t \in Syncs \ {s} : pc'[t] = pc[t]
  BY DEF TypeOK
<1>5. TypeOK'
  BY <1>2, <1>3 DEF TypeOK, tree
<1>6. SoundFile(stored) /\ SoundFile(tmp) /\ SoundFile(Torn)
  BY DEF SyncInv, SoundFile
<1>7. SoundFile(stored)' /\ SoundFile(tmp)'
  BY <1>1, <1>2, <1>3, <1>6 DEF SoundFile, Sound, tree
<1>8. Holds(s)' /\ Saves(s)'
  BY <1>1, <1>4 DEF SyncInv, Holds, Unhashed, Saves, Sound, Entry, tree
<1>9. Trusts(s)'
  BY <1>1, <1>4 DEF SyncInv, Trusts, Sound, tree
<1>10. Knows(s)'
  BY <1>1, <1>4 DEF SyncInv, Knows, KnowsFile, Arrived, Mirrors, Mistaken, tree
<1>. QED
  BY <1>1, <1>4, <1>5, <1>7, <1>8, <1>9, <1>10, OneMoves

(* However the save ends, the cache file is what it was, or the temporary  *)
(* file.                                                                   *)
LEMMA SaveEndStep ==
    ASSUME TypeOK, SyncInv, NEW s \in Syncs, SaveRename(s) \/ SaveFails(s)
    PROVE  TypeOK' /\ SyncInv'
<1>. USE DEF SaveRename, SaveFails, saved
<1>1. /\ pc[s] \in {"open", "write", "rename"} /\ UNCHANGED tree /\ End(s, "done")
      /\ stored' \in {stored, tmp} /\ tmp' \in {tmp, None}
  OBVIOUS
<1>2. /\ pc' \in [Syncs -> {"idle", "walk", "hash", "upload", "extract", "open", "write",
                            "rename", "done", "failed"}]
      /\ work' \in [Syncs -> Works] /\ pc'[s] = "done"
      /\ \A t \in Syncs \ {s} : pc'[t] = pc[t] /\ work'[t] = work[t]
      /\ Holds(s)' /\ Trusts(s)' /\ Saves(s)'
  BY <1>1, Ended
<1>3. TypeOK'
  BY <1>1, <1>2 DEF TypeOK, tree
<1>4. SoundFile(stored)' /\ SoundFile(tmp)'
  BY <1>1 DEF SyncInv, SoundFile, Sound, tree
<1>5. Knows(s)'
  BY <1>1, <1>2 DEF SyncInv, Knows, KnowsFile, Arrived, Mirrors, Mistaken, tree
<1>. QED
  BY <1>1, <1>2, <1>3, <1>4, <1>5, OneMoves

-----------------------------------------------------------------------------
(* The theorems.                                                           *)

LEMMA StutterInv ==
    ASSUME TypeOK, SyncInv, UNCHANGED vars
    PROVE  TypeOK' /\ SyncInv'
<1>. USE DEF vars, saved
<1>1. TypeOK'
  BY DEF TypeOK, tree
<1>2. \A t \in Syncs :
          Holds(t)' /\ Trusts(t)' /\ (t \notin given' => Saves(t)') /\ Knows(t)'
  BY OthersKeep
<1>. QED
  BY <1>1, <1>2, FilesKeep DEF SyncInv

LEMMA NextInv ==
    ASSUME TypeOK, SyncInv, [Next]_vars
    PROVE  TypeOK' /\ SyncInv'
<1>1. CASE Tick
  BY <1>1, TickStep
<1>2. CASE \E f \in Files : Edit(f) \/ Remove(f)
  BY <1>2, EditStep
<1>3. ASSUME NEW s \in Syncs, Begin(s) \/ Step(s) \/ LateExtract(s)
      PROVE  TypeOK' /\ SyncInv'
  <2>1. CASE Begin(s) \/ LateExtract(s)
    BY <2>1, BeginStep, LateExtractStep
  <2>2. CASE Walk(s) \/ Diff(s) \/ SendChunk(s) \/ Extract(s) \/ Fail(s)
    BY <2>2, WalkStep, DiffStep, SendChunkStep, ExtractStep, FailStep
  <2>3. CASE \E f \in Files : HashFromCache(s, f) \/ HashContent(s, f)
    BY <2>3, HashFromCacheStep, HashContentStep
  <2>4. CASE SaveOpen(s) \/ SaveWrite(s) \/ SaveRename(s) \/ SaveFails(s)
    BY <2>4, SaveOpenStep, SaveWriteStep, SaveEndStep
  <2>. QED
    BY <1>3, <2>1, <2>2, <2>3, <2>4 DEF Step
<1>4. CASE UNCHANGED vars
  BY <1>4, StutterInv
<1>. QED
  BY <1>1, <1>2, <1>3, <1>4 DEF Next

(* The inductive invariant holds: nothing contradicts a settled entry, and *)
(* what a sync knows of a file nobody else touched is true.                *)
THEOREM Inductive == Spec => [](TypeOK /\ SyncInv)
<1>1. TypeOK /\ SyncInv /\ [Next]_vars => (TypeOK /\ SyncInv)'
  BY NextInv
<1>. QED
  BY <1>1, InitInv, PTL DEF Spec

(* An entry of the cache file that a sync would trust has the hash of the  *)
(* file, if it is settled, or was written in time under an mtime that was  *)
(* not set back.                                                           *)
THEOREM TrustedCurrent == Spec => []TrustedEntriesAreCurrent
<1>1. TypeOK /\ SyncInv => TrustedEntriesAreCurrent
  <2>. DEFINE entry(f) == loadStatCache(stored)[f]
  <2>1. SUFFICES ASSUME TypeOK, SyncInv, NEW f \in Files, entry(f) # None, local[f] # None,
                        statSignaturesMatch(entry(f), local[f]),
                        \/ Settled(entry(f))
                        \/ entry(f).mtime = entry(f).ctime /\ InTime(stored, entry(f))
                 PROVE  entry(f).hash = local[f].hash
    BY DEF TrustedEntriesAreCurrent
  <2>2. /\ Sound(entry(f), local[f]) /\ entry(f) \in Entries /\ stored.written \in Nat
        /\ entry(f).mtime < stored.written - Margin
    BY <2>1, LoadedIsSound DEF TypeOK, SyncInv
  <2>. HIDE DEF entry
  <2>3. CASE Settled(entry(f))
    BY <2>1, <2>2, <2>3 DEF Sound
  <2>4. CASE ~Settled(entry(f)) /\ entry(f).mtime = entry(f).ctime /\ InTime(stored, entry(f))
    <3>1. /\ entry(f).seen \in Nat /\ entry(f).mtime \in Nat
          /\ Granularity \in Nat /\ Margin \in Nat
      BY <2>2, SyncAssumption DEF Entries
    <3>2. Stamp(entry(f).seen) \in Nat /\ entry(f).seen < Stamp(entry(f).seen) + Granularity
      BY <3>1, StampLags
    <3>3. Stamp(entry(f).seen) <= entry(f).mtime
      BY <2>2, <2>4, <3>1, <3>2 DEF Settled, Entries
    <3>. QED
      BY <2>2, <2>4, <3>1, <3>2, <3>3 DEF InTime
  <2>. QED
    BY <2>1, <2>3, <2>4
<1>. QED
  BY <1>1, Inductive, PTL

(* A sync that succeeds leaves the machine with every file nobody else     *)
(* touched as it is here, unless it took its hash from an entry that was   *)
(* not settled, or the caller's cache was mistaken.                        *)
THEOREM QuietMirrors == Spec => []QuietSyncMirrors
<1>1. SyncInv => QuietSyncMirrors
  BY DEF SyncInv, Knows, KnowsFile, Arrived, QuietSyncMirrors
<1>. QED
  BY <1>1, Inductive, PTL
=============================================================================
