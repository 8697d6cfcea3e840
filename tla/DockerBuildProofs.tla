------------------------- MODULE DockerBuildProofs -------------------------
(***************************************************************************)
(* Proofs about DockerBuild for any Dockerfiles, contexts, .dockerignore   *)
(* files, downloads and numbers of attempts: a build that fails after its  *)
(* fork deletes the machine, nothing that is ignored is sent, and a machine*)
(* that is returned was built as the Dockerfile says and has all its COPYs *)
(* name.                                                                   *)
(***************************************************************************)
EXTENDS DockerBuild, FiniteSetTheorems, SequenceTheorems, WellFoundedInduction, TLAPS

(* The steps of applySteps and applyCopy: a request each, that leaves the  *)
(* machine up, and goes on or gives up.                                    *)
Apply ==
    \/ Note \/ Command \/ Add
    \/ StartCopy \/ CopyDirectory \/ CopyFile \/ MarkExecutable \/ EndCopy

LEMMA ApplyStep ==
    ASSUME Apply
    PROVE  /\ pc \in {"step", "copy", "sent"}
           /\ pc' \in {"step", "copy", "sent", "deleting"}
           /\ UNCHANGED <<call, context, gone, handle, machine, failures, kept>>
<1>. USE DEF Next_, Abort, deletion
<1>1. CASE Note
  BY <1>1 DEF Note
<1>2. CASE Command
  BY <1>2 DEF Command, RunChecked
<1>3. CASE Add
  BY <1>3 DEF Add, Sync
<1>4. CASE StartCopy
  BY <1>4 DEF StartCopy
<1>5. CASE CopyDirectory
  BY <1>5 DEF CopyDirectory, Sync
<1>6. CASE CopyFile
  BY <1>6 DEF CopyFile, Sync
<1>7. CASE MarkExecutable
  BY <1>7 DEF MarkExecutable, RunChecked, Continue_
<1>8. CASE EndCopy
  BY <1>8 DEF EndCopy, RunChecked
<1>. QED
  BY <1>1, <1>2, <1>3, <1>4, <1>5, <1>6, <1>7, <1>8 DEF Apply

-----------------------------------------------------------------------------
(* The deletion.                                                           *)

LEMMA InitInv == Init => DeletionInv
  BY BuildAssumption DEF Init, DeletionInv, MachineInv, AttemptsInv, FailedBuildIsDeleted

(* Between fork and return, and while nothing has failed, the invariant    *)
(* speaks of pc, handle, machine, failures and kept only.                  *)
LEMMA NextInv == TypeOK /\ DeletionInv /\ [Next]_vars => DeletionInv'
<1>. SUFFICES ASSUME TypeOK, DeletionInv, [Next]_vars
              PROVE  DeletionInv'
  OBVIOUS
<1>. USE DEF DeletionInv, MachineInv, AttemptsInv, FailedBuildIsDeleted
<1>1. failures \in Int /\ Attempts \in Nat \ {0}
  BY BuildAssumption DEF TypeOK
<1>2. CASE Apply
  BY <1>1, <1>2, ApplyStep
<1>3. CASE Refuse \/ Forked \/ ForkFails \/ Finish
  BY <1>1, <1>3 DEF Refuse, Forked, ForkFails, Finish, deletion
<1>4. CASE Delete
  BY <1>4 DEF Delete, TypeOK
<1>5. CASE DeleteFails
  BY <1>1, <1>5 DEF DeleteFails, AttemptsLeft
<1>6. CASE DeleteAgain
  BY <1>6 DEF DeleteAgain, deletion
<1>7. ASSUME NEW p \in context.files, Vanish(p)
      PROVE  DeletionInv'
  BY <1>7 DEF Vanish, deletion
<1>8. CASE UNCHANGED vars
  BY <1>8 DEF vars, deletion
<1>. QED
  BY <1>2, <1>3, <1>4, <1>5, <1>6, <1>7, <1>8 DEF Next, Build, Apply

-----------------------------------------------------------------------------
(* Types.                                                                  *)

LEMMA InitType == Init => TypeOK /\ IsFiniteSet(gone)
<1>. SUFFICES ASSUME Init PROVE TypeOK /\ IsFiniteSet(gone)
  OBVIOUS
<1>1. IsFiniteSet(gone) /\ Cardinality(gone) = 0 /\ gone \subseteq context.files
  BY FS_EmptySet DEF Init
<1>2. Cardinality(gone) \in 0..MaxGone /\ failures \in 0..Attempts
  BY <1>1, BuildAssumption DEF Init
<1>3. handle \in BOOLEAN /\ multiple \in BOOLEAN /\ kept \in BOOLEAN
  BY DEF Init
<1>. QED
  BY <1>1, <1>2, <1>3 DEF Init, TypeOK

LEMMA NextType == TypeOK /\ IsFiniteSet(gone) /\ [Next]_vars => TypeOK' /\ IsFiniteSet(gone)'
<1>. SUFFICES ASSUME TypeOK, IsFiniteSet(gone), [Next]_vars
              PROVE  TypeOK' /\ IsFiniteSet(gone)'
  OBVIOUS
<1>1. ASSUME NEW p \in context.files, Vanish(p)
      PROVE  TypeOK' /\ IsFiniteSet(gone)'
  <2>1. /\ IsFiniteSet(gone')
        /\ Cardinality(gone') = Cardinality(gone) \/ Cardinality(gone') = Cardinality(gone) + 1
    BY <1>1, FS_AddElement DEF Vanish
  <2>2. gone' \subseteq context.files /\ Cardinality(gone') \in 0..MaxGone
    BY <1>1, <2>1, BuildAssumption DEF Vanish, TypeOK
  <2>. QED
    BY <1>1, <2>1, <2>2 DEF Vanish, copying, deletion, TypeOK
<1>2. CASE Apply
  <2>1. multiple' \in BOOLEAN
    <3>1. CASE StartCopy
      <4>1. multiple' = (Len(todo') > 1) \/ multiple' = multiple
        BY <3>1 DEF StartCopy, copying
      <4>2. (Len(todo') > 1) \in BOOLEAN
        OBVIOUS
      <4>. QED
        BY <4>1, <4>2 DEF TypeOK
    <3>2. CASE ~StartCopy
      BY <1>2, <3>2 DEF Apply, Note, Command, Add, CopyDirectory, CopyFile, MarkExecutable, EndCopy,
                        copying, TypeOK
    <3>. QED
      BY <3>1, <3>2
  <2>. QED
    BY <1>2, <2>1, ApplyStep DEF TypeOK
<1>3. CASE Refuse \/ Forked \/ ForkFails \/ Finish
  BY <1>3 DEF Refuse, Forked, ForkFails, Finish, copying, deletion, TypeOK
<1>4. CASE Delete \/ DeleteFails \/ DeleteAgain
  <2>1. failures' \in 0..Attempts
    BY <1>4, BuildAssumption DEF Delete, DeleteFails, DeleteAgain, deletion, TypeOK
  <2>2. kept' \in BOOLEAN
    BY <1>4 DEF Delete, DeleteFails, DeleteAgain, deletion, TypeOK
  <2>3. /\ pc' \in {"deleting", "waiting", "failed"} /\ machine' \in {"none", "up", "deleted"}
        /\ UNCHANGED <<context, gone, handle, multiple>>
    BY <1>4 DEF Delete, DeleteFails, DeleteAgain, copying, deletion, TypeOK
  <2>. QED
    BY <2>1, <2>2, <2>3 DEF TypeOK
<1>5. CASE UNCHANGED vars
  BY <1>5 DEF vars, copying, deletion, TypeOK
<1>. QED
  BY <1>1, <1>2, <1>3, <1>4, <1>5 DEF Next, Build, Apply

(* Every variable keeps its type, and no more files vanish than the bound. *)
THEOREM TypeCorrect == Spec => []TypeOK
<1>1. Init => TypeOK /\ IsFiniteSet(gone)
  BY InitType
<1>. QED
  BY <1>1, NextType, PTL DEF Spec

(* The machine and the attempts to delete it.                              *)
THEOREM Inductive == Spec => [](TypeOK /\ DeletionInv)
<1>. QED
  BY InitInv, NextInv, TypeCorrect, PTL DEF Spec

(* A build that fails after its fork leaves no machine behind, unless      *)
(* every attempt to delete it failed or the server declined to; and a      *)
(* machine that is returned is up (build.ts, deleteAfterFailedBuild).      *)
THEOREM FailedIsDeleted == Spec => []FailedBuildIsDeleted
<1>1. DeletionInv => FailedBuildIsDeleted
  BY DEF DeletionInv
<1>. QED
  BY <1>1, Inductive, PTL

-----------------------------------------------------------------------------
(* Induction, from the least element of a set of numbers.                  *)

LEMMA Least ==
  ASSUME NEW T, T \subseteq Nat, T # {}
  PROVE  \E n \in T : \A m \in T : n <= m
<1>1. PICK n \in T : \A m \in T : ~ (<<m, n>> \in OpToRel(<, Nat))
  BY WFMin, NatLessThanWellFounded
<1>2. \A m, k \in Nat : <<m, k>> \in OpToRel(<, Nat) <=> m < k
  BY DEF OpToRel
<1>3. \A m \in T : ~(m < n)
  BY <1>1, <1>2
<1>4. \A m \in T : n <= m
  BY <1>3
<1>. QED
  BY <1>4

LEMMA Induct ==
  ASSUME NEW S, 0 \in S, \A n \in Nat : n \in S => n + 1 \in S
  PROVE  Nat \subseteq S
<1>. DEFINE T == {n \in Nat : n \notin S}
<1>1. SUFFICES ASSUME T # {} PROVE FALSE
  OBVIOUS
<1>2. PICK n \in T : \A m \in T : n <= m
  <2>1. T \subseteq Nat
    OBVIOUS
  <2>. HIDE DEF T
  <2>. QED
    BY <1>1, <2>1, Least
<1>3. n # 0 /\ n - 1 \in Nat
  OBVIOUS
<1>4. n - 1 \in S
  BY <1>2, <1>3
<1>. QED
  BY <1>3, <1>4

(* A set of numbers below a bound has a greatest one.                      *)
LEMMA Greatest ==
  ASSUME NEW T, NEW N \in Nat, T \subseteq 1..N, T # {}
  PROVE  /\ Max(T) \in T
         /\ \A m \in T : m <= Max(T)
<1>. DEFINE U == {n \in Nat : N - n \in T}
<1>1. U \subseteq Nat /\ U # {}
  <2>1. PICK t \in T : TRUE
    OBVIOUS
  <2>2. N - t \in Nat /\ N - (N - t) = t
    OBVIOUS
  <2>. QED
    BY <2>1, <2>2
<1>2. PICK n \in U : \A m \in U : n <= m
  <2>. HIDE DEF U
  <2>. QED
    BY <1>1, Least
<1>3. N - n \in T /\ \A m \in T : m <= N - n
  <2>1. \A m \in T : N - m \in Nat /\ N - (N - m) = m
    OBVIOUS
  <2>2. \A m \in T : n <= N - m
    BY <1>2, <2>1
  <2>. QED
    BY <2>2
<1>4. \E x \in T : \A y \in T : x >= y
  BY <1>3
<1>. QED
  BY <1>4 DEF Max

-----------------------------------------------------------------------------
(* .dockerignore.                                                          *)

(* The n-th rule of a list, as the loop and the promise read it.           *)
Hits(rules, path, n) == {m \in 1..n : RuleMatches(rules[m], path)}
LastHit(rules, path, n) ==
    Hits(rules, path, n) # {} /\ ~rules[Max(Hits(rules, path, n))].negated

(* One more rule decides if it matches, and else nothing changes.          *)
LEMMA LastHitStep ==
  ASSUME NEW rules, NEW path, NEW n \in Nat
  PROVE  LastHit(rules, path, n + 1) =
             IF RuleMatches(rules[n + 1], path) THEN ~rules[n + 1].negated
             ELSE LastHit(rules, path, n)
<1>1. CASE RuleMatches(rules[n + 1], path)
  <2>1. n + 1 \in Hits(rules, path, n + 1) /\ Hits(rules, path, n + 1) \subseteq 1..n + 1
    BY <1>1 DEF Hits
  <2>2. Max(Hits(rules, path, n + 1)) = n + 1
    <3>1. /\ Max(Hits(rules, path, n + 1)) \in 1..n + 1
          /\ n + 1 <= Max(Hits(rules, path, n + 1))
      BY <2>1, Greatest
    <3>. QED
      BY <3>1
  <2>. QED
    BY <1>1, <2>1, <2>2 DEF LastHit
<1>2. CASE ~RuleMatches(rules[n + 1], path)
  <2>1. Hits(rules, path, n + 1) = Hits(rules, path, n)
    BY <1>2 DEF Hits
  <2>. QED
    BY <1>2, <2>1 DEF LastHit
<1>. QED
  BY <1>1, <1>2

(* What the loop over the rules computes, and the function the model       *)
(* defines it by.                                                          *)
LEMMA IgnoresIsLastHit ==
  ASSUME NEW rules \in Seq([pattern : Seq(STRING), negated : BOOLEAN]), NEW path
  PROVE  Ignores(rules, path) = LastHit(rules, path, Len(rules))
<1>. DEFINE IsLoop(h) ==
              h = [n \in 0..Len(rules) |->
                      IF n = 0 THEN FALSE
                      ELSE IF RuleMatches(rules[n], path) THEN ~rules[n].negated
                      ELSE h[n - 1]]
            g == [n \in 0..Len(rules) |-> LastHit(rules, path, n)]
            f == CHOOSE h : IsLoop(h)
<1>1. Len(rules) \in Nat
  BY LenProperties
<1>2. \A n \in 0..Len(rules) :
          g[n] = IF n = 0 THEN FALSE
                 ELSE IF RuleMatches(rules[n], path) THEN ~rules[n].negated
                 ELSE g[n - 1]
  <2>1. LastHit(rules, path, 0) = FALSE
    BY DEF LastHit, Hits
  <2>2. ASSUME NEW n \in 0..Len(rules), n # 0
        PROVE  g[n] = IF RuleMatches(rules[n], path) THEN ~rules[n].negated ELSE g[n - 1]
    <3>1. n - 1 \in Nat /\ n - 1 \in 0..Len(rules) /\ (n - 1) + 1 = n
      BY <1>1, <2>2
    <3>2. LastHit(rules, path, n) =
              IF RuleMatches(rules[n], path) THEN ~rules[n].negated
              ELSE LastHit(rules, path, n - 1)
      BY <3>1, LastHitStep
    <3>3. g[n] = LastHit(rules, path, n) /\ g[n - 1] = LastHit(rules, path, n - 1)
      BY <3>1
    <3>. QED
      BY <3>2, <3>3
  <2>3. 0 \in 0..Len(rules)
    BY <1>1
  <2>. QED
    BY <2>1, <2>2, <2>3
<1>3. IsLoop(g)
  <2>. DEFINE r == [n \in 0..Len(rules) |->
                      IF n = 0 THEN FALSE
                      ELSE IF RuleMatches(rules[n], path) THEN ~rules[n].negated
                      ELSE g[n - 1]]
  <2>1. \A n \in 0..Len(rules) : g[n] = r[n]
    BY <1>2
  <2>. QED
    BY <2>1
<1>4. IsLoop(f)
  BY <1>3
<1>5. Ignores(rules, path) = f[Len(rules)]
  BY DEF Ignores
<1>6. \A n \in 0..Len(rules) : f[n] = g[n]
  <2>. DEFINE S == {n \in Nat : n \in 0..Len(rules) => f[n] = g[n]}
  <2>1. \A n \in 0..Len(rules) :
          f[n] = IF n = 0 THEN FALSE
                 ELSE IF RuleMatches(rules[n], path) THEN ~rules[n].negated
                 ELSE f[n - 1]
    BY <1>4
  <2>. HIDE DEF f, g
  <2>2. 0 \in S
    BY <1>1, <1>2, <2>1
  <2>3. ASSUME NEW n \in Nat, n \in S
        PROVE  n + 1 \in S
    <3>1. SUFFICES ASSUME n + 1 \in 0..Len(rules) PROVE f[n + 1] = g[n + 1]
      OBVIOUS
    <3>2. n \in 0..Len(rules) /\ n + 1 # 0 /\ (n + 1) - 1 = n
      BY <1>1, <3>1
    <3>3. f[n] = g[n]
      BY <2>3, <3>2
    <3>. QED
      BY <1>2, <2>1, <3>1, <3>2, <3>3
  <2>. HIDE DEF S
  <2>4. Nat \subseteq S
    BY <2>2, <2>3, Induct
  <2>5. 0..Len(rules) \subseteq Nat
    BY <1>1
  <2>. QED
    BY <2>4, <2>5 DEF S
<1>7. Len(rules) \in 0..Len(rules)
  BY <1>1
<1>8. g[Len(rules)] = LastHit(rules, path, Len(rules))
  BY <1>7
<1>9. f[Len(rules)] = g[Len(rules)]
  <2>. HIDE DEF f, g
  <2>. QED
    BY <1>6, <1>7
<1>. QED
  BY <1>5, <1>8, <1>9

(* The loop over the rules does what .dockerignore promises.               *)
LEMMA IgnoredIsExcluded ==
  ASSUME context \in Contexts, NEW path
  PROVE  Ignores(context.rules, path) <=> Excluded(path)
<1>1. context.rules \in Seq([pattern : Seq(STRING), negated : BOOLEAN])
  BY ContextAssumption
<1>2. DOMAIN context.rules = 1..Len(context.rules)
  BY <1>1, LenProperties
<1>3. Excluded(path) <=> LastHit(context.rules, path, Len(context.rules))
  BY <1>2 DEF Excluded, LastHit, Hits
<1>. QED
  BY <1>1, <1>3, IgnoresIsLastHit

-----------------------------------------------------------------------------
(* The list of sources.                                                    *)

(* The loop that flattens has a value on each prefix.                      *)
FlattensTo(s, h, n) == \A i \in 1..n : h[i] = IF i = 1 THEN s[i] ELSE h[i - 1] \o s[i]
Flattens(P, s, n) == \E h \in [1..n -> Seq(P)] : FlattensTo(s, h, n)

LEMMA FlattenLoop ==
  ASSUME NEW P, NEW s \in Seq(Seq(P))
  PROVE  Flattens(P, s, Len(s))
<1>. DEFINE S == {n \in Nat : n <= Len(s) => Flattens(P, s, n)}
<1>1. Len(s) \in Nat /\ \A i \in 1..Len(s) : s[i] \in Seq(P)
  BY LenProperties, ElementOfSeq
<1>2. 0 \in S
  <2>1. <<>> \in [1..0 -> Seq(P)] /\ FlattensTo(s, <<>>, 0)
    BY DEF FlattensTo
  <2>. QED
    BY <2>1 DEF Flattens
<1>3. ASSUME NEW n \in Nat, n \in S
      PROVE  n + 1 \in S
  <2>1. SUFFICES ASSUME n + 1 <= Len(s)
                 PROVE  Flattens(P, s, n + 1)
    OBVIOUS
  <2>2. PICK h \in [1..n -> Seq(P)] : FlattensTo(s, h, n)
    BY <1>1, <1>3, <2>1 DEF Flattens
  <2>. DEFINE next == IF n = 0 THEN s[1] ELSE h[n] \o s[n + 1]
              g == [i \in 1..n + 1 |-> IF i = n + 1 THEN next ELSE h[i]]
  <2>3. next \in Seq(P)
    <3>1. n + 1 \in 1..Len(s) /\ 1 \in 1..Len(s) /\ (n # 0 => n \in 1..n)
      BY <1>1, <2>1
    <3>2. s[n + 1] \in Seq(P) /\ s[1] \in Seq(P) /\ (n # 0 => h[n] \in Seq(P))
      BY <1>1, <3>1
    <3>. QED
      BY <3>2, ConcatProperties
  <2>4. g \in [1..n + 1 -> Seq(P)]
    <3>1. \A i \in 1..n + 1 : i # n + 1 => i \in 1..n
      OBVIOUS
    <3>. HIDE DEF next
    <3>. QED
      BY <2>3, <3>1
  <2>5. FlattensTo(s, g, n + 1)
    <3>1. g[n + 1] = next /\ \A i \in 1..n : g[i] = h[i]
      <4>1. n + 1 \in 1..n + 1 /\ \A i \in 1..n : i \in 1..n + 1 /\ i # n + 1
        OBVIOUS
      <4>. HIDE DEF next
      <4>. QED
        BY <4>1
    <3>2. SUFFICES ASSUME NEW i \in 1..n + 1
                   PROVE  g[i] = IF i = 1 THEN s[i] ELSE g[i - 1] \o s[i]
      BY DEF FlattensTo
    <3>. HIDE DEF g
    <3>3. CASE i = n + 1
      <4>1. n # 0 => n \in 1..n /\ g[n] = h[n]
        BY <3>1
      <4>2. (n + 1) - 1 = n /\ (n + 1 = 1 <=> n = 0)
        OBVIOUS
      <4>. QED
        BY <3>1, <3>3, <4>1, <4>2
    <3>4. CASE i \in 1..n
      <4>1. i # 1 => i - 1 \in 1..n
        BY <3>4
      <4>2. g[i] = h[i] /\ (i # 1 => g[i - 1] = h[i - 1])
        BY <3>1, <3>4, <4>1
      <4>. QED
        BY <2>2, <3>4, <4>2 DEF FlattensTo
    <3>. QED
      BY <3>3, <3>4
  <2>. QED
    <3>. HIDE DEF g
    <3>. QED
      BY <2>4, <2>5 DEF Flattens
<1>4. Nat \subseteq S
  <2>. HIDE DEF S
  <2>. QED
    BY <1>2, <1>3, Induct
<1>. QED
  BY <1>1, <1>4

LEMMA FlattenValue ==
  ASSUME NEW P, NEW s \in Seq(Seq(P)), Len(s) # 0
  PROVE  \E f : FlattensTo(s, f, Len(s)) /\ FlattenSeq(s) = f[Len(s)]
<1>. DEFINE N == Len(s)
            IsLoop(h) == h = [i \in 1..N |-> IF i = 1 THEN s[i] ELSE h[i - 1] \o s[i]]
            f == CHOOSE h : IsLoop(h)
<1>1. FlattenSeq(s) = f[N]
  BY DEF FlattenSeq
<1>2. \E h : IsLoop(h)
  <2>1. PICK h \in [1..N -> Seq(P)] :
            \A i \in 1..N : h[i] = IF i = 1 THEN s[i] ELSE h[i - 1] \o s[i]
    BY FlattenLoop DEF Flattens, FlattensTo
  <2>2. h = [i \in 1..N |-> h[i]]
    OBVIOUS
  <2>3. IsLoop(h)
    BY <2>1, <2>2
  <2>. QED
    BY <2>3
<1>3. FlattensTo(s, f, N)
  BY <1>2 DEF FlattensTo
<1>. HIDE DEF f
<1>. QED
  BY <1>1, <1>3

LEMMA FlattenEmpty == FlattenSeq(<<>>) = <<>>
  BY EmptySeq DEF FlattenSeq

(* The elements of a flattened sequence are those of its parts.            *)
LEMMA FlattenType ==
  ASSUME NEW P, NEW s \in Seq(Seq(P))
  PROVE  FlattenSeq(s) \in Seq(P)
<1>1. Len(s) \in Nat /\ \A i \in 1..Len(s) : s[i] \in Seq(P)
  BY LenProperties, ElementOfSeq
<1>2. CASE Len(s) = 0
  <2>1. s = <<>>
    BY <1>2, EmptySeq
  <2>. QED
    BY <2>1, FlattenEmpty, EmptySeq
<1>3. CASE Len(s) # 0
  <2>1. PICK f : FlattensTo(s, f, Len(s)) /\ FlattenSeq(s) = f[Len(s)]
    BY <1>3, FlattenValue
  <2>2. \A i \in 1..Len(s) : f[i] = IF i = 1 THEN s[i] ELSE f[i - 1] \o s[i]
    BY <2>1 DEF FlattensTo
  <2>. DEFINE S == {n \in Nat : n + 1 \in 1..Len(s) => f[n + 1] \in Seq(P)}
  <2>3. 0 \in S
    BY <1>1, <2>2
  <2>4. ASSUME NEW n \in Nat, n \in S
        PROVE  n + 1 \in S
    <3>1. SUFFICES ASSUME n + 2 \in 1..Len(s) PROVE f[n + 2] \in Seq(P)
      OBVIOUS
    <3>2. n + 1 \in 1..Len(s) /\ (n + 2) - 1 = n + 1 /\ n + 2 # 1
      BY <1>1, <3>1
    <3>3. f[n + 1] \in Seq(P) /\ s[n + 2] \in Seq(P)
      BY <1>1, <2>4, <3>1, <3>2
    <3>4. f[n + 2] = f[n + 1] \o s[n + 2]
      BY <2>2, <3>1, <3>2
    <3>. QED
      BY <3>3, <3>4, ConcatProperties
  <2>5. Nat \subseteq S
    <3>. HIDE DEF S
    <3>. QED
      BY <2>3, <2>4, Induct
  <2>6. Len(s) - 1 \in Nat /\ (Len(s) - 1) + 1 = Len(s) /\ Len(s) \in 1..Len(s)
    BY <1>1, <1>3
  <2>. QED
    BY <2>1, <2>5, <2>6
<1>. QED
  BY <1>2, <1>3

(* One more part is one more piece of the whole.                           *)
LEMMA FlattenAppend ==
  ASSUME NEW P, NEW s \in Seq(Seq(P)), NEW x \in Seq(P)
  PROVE  FlattenSeq(s \o <<x>>) = FlattenSeq(s) \o x
<1>. DEFINE t == s \o <<x>>
            N == Len(s)
<1>1. /\ t \in Seq(Seq(P)) /\ N \in Nat /\ Len(t) = N + 1
      /\ t[N + 1] = x /\ \A i \in 1..N : t[i] = s[i]
  <2>1. <<x>> \in Seq(Seq(P)) /\ Len(<<x>>) = 1 /\ <<x>>[1] = x /\ N \in Nat
    BY LenProperties
  <2>. QED
    BY <2>1, ConcatProperties
<1>. HIDE DEF t
<1>2. PICK g : FlattensTo(t, g, N + 1) /\ FlattenSeq(t) = g[N + 1]
  <2>1. Len(t) # 0
    BY <1>1
  <2>. QED
    BY <1>1, <2>1, FlattenValue
<1>3. \A i \in 1..N + 1 : g[i] = IF i = 1 THEN t[i] ELSE g[i - 1] \o t[i]
  BY <1>2 DEF FlattensTo
<1>4. FlattenSeq(t) = FlattenSeq(s) \o x
  <2>1. CASE N = 0
    <3>1. s = <<>>
      BY <2>1, EmptySeq
    <3>2. g[1] = x /\ FlattenSeq(t) = g[1]
      BY <1>1, <1>2, <1>3, <2>1
    <3>. QED
      BY <3>1, <3>2, FlattenEmpty, ConcatEmptySeq
  <2>2. CASE N # 0
    <3>1. PICK f : FlattensTo(s, f, N) /\ FlattenSeq(s) = f[N]
      BY <2>2, FlattenValue
    <3>2. \A i \in 1..N : f[i] = IF i = 1 THEN s[i] ELSE f[i - 1] \o s[i]
      BY <3>1 DEF FlattensTo
    <3>. DEFINE S == {n \in Nat : n + 1 \in 1..N => f[n + 1] = g[n + 1]}
    <3>3. 0 \in S
      <4>1. 1 \in 1..N => 1 \in 1..N + 1
        BY <1>1
      <4>. QED
        BY <1>1, <1>3, <3>2, <4>1
    <3>4. ASSUME NEW n \in Nat, n \in S
          PROVE  n + 1 \in S
      <4>1. SUFFICES ASSUME n + 2 \in 1..N PROVE f[n + 2] = g[n + 2]
        OBVIOUS
      <4>2. n + 1 \in 1..N /\ n + 2 \in 1..N + 1 /\ (n + 2) - 1 = n + 1 /\ n + 2 # 1
        BY <1>1, <4>1
      <4>3. f[n + 1] = g[n + 1] /\ t[n + 2] = s[n + 2]
        BY <1>1, <3>4, <4>1, <4>2
      <4>4. f[n + 2] = f[n + 1] \o s[n + 2]
        BY <3>2, <4>1, <4>2
      <4>5. g[n + 2] = g[n + 1] \o t[n + 2]
        BY <1>3, <4>2
      <4>. QED
        BY <4>3, <4>4, <4>5
    <3>5. Nat \subseteq S
      <4>. HIDE DEF S
      <4>. QED
        BY <3>3, <3>4, Induct
    <3>6. N - 1 \in Nat /\ (N - 1) + 1 = N /\ N \in 1..N /\ N + 1 \in 1..N + 1 /\ (N + 1) - 1 = N /\ N + 1 # 1
      BY <1>1, <2>2
    <3>7. f[N] = g[N]
      BY <3>5, <3>6
    <3>8. g[N + 1] = g[N] \o t[N + 1]
      BY <1>3, <3>6
    <3>. QED
      BY <1>1, <1>2, <3>1, <3>7, <3>8
  <2>. QED
    BY <2>1, <2>2
<1>. QED
  BY <1>4 DEF t

LEMMA FlattenOne ==
  ASSUME NEW P, NEW x \in Seq(P)
  PROVE  FlattenSeq(<<x>>) = x
<1>1. <<>> \in Seq(Seq(P)) /\ <<>> \o <<x>> = <<x>> /\ <<>> \o x = x
  BY ConcatEmptySeq
<1>2. FlattenSeq(<<>> \o <<x>>) = FlattenSeq(<<>>) \o x
  BY <1>1, FlattenAppend
<1>. QED
  BY <1>1, <1>2, FlattenEmpty

LEMMA Joined ==
  ASSUME NEW S, NEW a \in Seq(S), NEW b \in Seq(S), NEW c \in Seq(S)
  PROVE  (a \o b) \o c = a \o (b \o c)
  BY ConcatAssociative

(* Flattening two sequences and joining the results.                       *)
LEMMA FlattenConcat ==
  ASSUME NEW P, NEW s \in Seq(Seq(P)), NEW t \in Seq(Seq(P))
  PROVE  FlattenSeq(s \o t) = FlattenSeq(s) \o FlattenSeq(t)
<1>. DEFINE u(n) == SubSeq(t, 1, n)
            S == {n \in Nat : n <= Len(t) => FlattenSeq(s \o u(n)) = FlattenSeq(s) \o FlattenSeq(u(n))}
<1>1. Len(t) \in Nat /\ FlattenSeq(s) \in Seq(P)
  BY LenProperties, FlattenType
<1>2. 0 \in S
  <2>1. u(0) = <<>>
    BY SubSeqEmpty
  <2>2. FlattenSeq(s \o <<>>) = FlattenSeq(s) \o FlattenSeq(<<>>)
    BY <1>1, FlattenEmpty, ConcatEmptySeq
  <2>. QED
    BY <2>1, <2>2
<1>3. ASSUME NEW n \in Nat, n \in S
      PROVE  n + 1 \in S
  <2>1. SUFFICES ASSUME n + 1 <= Len(t)
                 PROVE  FlattenSeq(s \o u(n + 1)) = FlattenSeq(s) \o FlattenSeq(u(n + 1))
    OBVIOUS
  <2>2. FlattenSeq(s \o u(n)) = FlattenSeq(s) \o FlattenSeq(u(n))
    BY <1>1, <1>3, <2>1
  <2>3. u(n) \in Seq(Seq(P)) /\ t[n + 1] \in Seq(P) /\ <<t[n + 1]>> \in Seq(Seq(P))
    <3>1. n + 1 \in 1..Len(t) /\ \A i \in 1..n : i \in 1..Len(t)
      BY <1>1, <2>1
    <3>2. t[n + 1] \in Seq(P) /\ \A i \in 1..n : t[i] \in Seq(P)
      BY <3>1, ElementOfSeq
    <3>3. 1 \in Int /\ n \in Int
      OBVIOUS
    <3>4. u(n) \in Seq(Seq(P))
      BY <3>2, <3>3, SubSeqProperties, Zenon
    <3>. QED
      BY <3>2, <3>4
  <2>4. u(n + 1) = u(n) \o <<t[n + 1]>>
    <3>1. 1 \in 1..Len(t) /\ n + 1 \in 1..Len(t) /\ (n + 1) - 1 = n
      BY <1>1, <2>1
    <3>. QED
      BY <3>1, SubSeqRecursiveSecond
  <2>. DEFINE v == u(n)
              x == t[n + 1]
  <2>5. v \in Seq(Seq(P)) /\ x \in Seq(P) /\ <<x>> \in Seq(Seq(P)) /\ u(n + 1) = v \o <<x>>
        /\ FlattenSeq(s \o v) = FlattenSeq(s) \o FlattenSeq(v)
    BY <2>2, <2>3, <2>4
  <2>. HIDE DEF u, v, x
  <2>6. s \o u(n + 1) = (s \o v) \o <<x>> /\ s \o v \in Seq(Seq(P))
    <3>1. s \o v \in Seq(Seq(P))
      BY <2>5, ConcatProperties
    <3>2. v \in Seq(Seq(P)) /\ <<x>> \in Seq(Seq(P))
      BY <2>5
    <3>3. (s \o v) \o <<x>> = s \o (v \o <<x>>)
      BY <3>2, Joined
    <3>. QED
      BY <2>5, <3>1, <3>3
  <2>7. FlattenSeq(s \o u(n + 1)) = (FlattenSeq(s) \o FlattenSeq(v)) \o x
    BY <2>5, <2>6, FlattenAppend
  <2>8. FlattenSeq(u(n + 1)) = FlattenSeq(v) \o x /\ FlattenSeq(v) \in Seq(P)
    BY <2>5, FlattenAppend, FlattenType
  <2>9. (FlattenSeq(s) \o FlattenSeq(v)) \o x = FlattenSeq(s) \o (FlattenSeq(v) \o x)
    <3>1. FlattenSeq(s) \in Seq(P) /\ FlattenSeq(v) \in Seq(P) /\ x \in Seq(P)
      BY <1>1, <2>5, <2>8
    <3>. QED
      BY <3>1, Joined
  <2>. QED
    BY <2>7, <2>8, <2>9
<1>4. Nat \subseteq S
  <2>. HIDE DEF S
  <2>. QED
    BY <1>2, <1>3, Induct
<1>5. u(Len(t)) = t
  BY SubSeqFull
<1>. HIDE DEF u
<1>6. Len(t) \in S /\ Len(t) <= Len(t)
  BY <1>1, <1>4
<1>. QED
  BY <1>5, <1>6

(* Where the elements of the parts of a sequence are; and that flattening  *)
(* it keeps each, once.                                                    *)
PositionsIn(n, part) == {<<n, m>> : m \in DOMAIN part}
Positions(s) == UNION {PositionsIn(n, s[n]) : n \in DOMAIN s}

Keeps(s, t) ==
    /\ \A pos \in Positions(s) : \E i \in DOMAIN t : t[i] = s[pos[1]][pos[2]]
    /\ Len(t) # 0 <=> Positions(s) # {}
    /\ Len(t) > 1 <=> Several(Positions(s))

LEMMA KeepsOneMore ==
  ASSUME NEW P, NEW s \in Seq(Seq(P)), NEW x \in Seq(P), NEW t \in Seq(P), Keeps(s, t)
  PROVE  Keeps(s \o <<x>>, t \o x)
<1>. DEFINE v == s \o <<x>>
            w == t \o x
            N == Len(s)
<1>1. /\ N \in Nat /\ DOMAIN s = 1..N /\ DOMAIN v = 1..N + 1
      /\ v[N + 1] = x /\ \A i \in 1..N : v[i] = s[i]
  <2>1. <<x>> \in Seq(Seq(P)) /\ Len(<<x>>) = 1 /\ <<x>>[1] = x /\ N \in Nat
    BY LenProperties
  <2>2. v \in Seq(Seq(P)) /\ Len(v) = N + 1 /\ v[N + 1] = x /\ \A i \in 1..N : v[i] = s[i]
    BY <2>1, ConcatProperties
  <2>. HIDE DEF v
  <2>. QED
    BY <2>1, <2>2, LenProperties
<1>2. /\ Len(t) \in Nat /\ Len(x) \in Nat /\ DOMAIN t = 1..Len(t) /\ DOMAIN x = 1..Len(x)
      /\ DOMAIN w = 1..Len(w) /\ Len(w) = Len(t) + Len(x)
      /\ \A i \in 1..Len(t) : w[i] = t[i]
      /\ \A i \in 1..Len(x) : w[Len(t) + i] = x[i]
  <2>1. Len(t) \in Nat /\ Len(x) \in Nat /\ DOMAIN t = 1..Len(t) /\ DOMAIN x = 1..Len(x)
    BY LenProperties
  <2>2. w \in Seq(P) /\ Len(w) = Len(t) + Len(x)
        /\ \A i \in 1..Len(w) : w[i] = IF i <= Len(t) THEN t[i] ELSE x[i - Len(t)]
    BY ConcatProperties
  <2>. HIDE DEF w
  <2>3. DOMAIN w = 1..Len(w)
    BY <2>2, LenProperties
  <2>4. \A i \in 1..Len(x) : Len(t) + i \in 1..Len(w) /\ ~(Len(t) + i <= Len(t)) /\ (Len(t) + i) - Len(t) = i
    BY <2>1, <2>2
  <2>5. \A i \in 1..Len(t) : i \in 1..Len(w) /\ i <= Len(t)
    BY <2>1, <2>2
  <2>. QED
    BY <2>1, <2>2, <2>3, <2>4, <2>5
<1>. HIDE DEF v, w, N
<1>. DEFINE more == PositionsIn(N + 1, x)
<1>3. Positions(v) = Positions(s) \cup more
  <2>1. \A pos : pos \in Positions(v) <=> \E n \in 1..N + 1 : pos \in PositionsIn(n, v[n])
    BY <1>1 DEF Positions
  <2>2. \A pos : pos \in Positions(s) <=> \E n \in 1..N : pos \in PositionsIn(n, s[n])
    BY <1>1 DEF Positions
  <2>3. \A n : n \in 1..N + 1 <=> n \in 1..N \/ n = N + 1
    BY <1>1
  <2>4. more = PositionsIn(N + 1, v[N + 1])
    BY <1>1, <1>2
  <2>. HIDE DEF more
  <2>5. \A n \in 1..N : PositionsIn(n, v[n]) = PositionsIn(n, s[n])
    BY <1>1
  <2>6. \A pos : pos \in Positions(v) => pos \in Positions(s) \/ pos \in more
    BY <2>1, <2>2, <2>3, <2>4, <2>5
  <2>7. \A pos : pos \in Positions(s) => pos \in Positions(v)
    BY <2>1, <2>2, <2>3, <2>5
  <2>8. \A pos : pos \in more => pos \in Positions(v)
    BY <2>1, <2>3, <2>4
  <2>. QED
    BY <2>6, <2>7, <2>8
<1>4. \A pos \in Positions(s) : pos[1] \in 1..N /\ pos[2] \in DOMAIN s[pos[1]]
  BY <1>1 DEF Positions, PositionsIn
<1>5. ASSUME NEW pos \in Positions(v)
      PROVE  \E i \in DOMAIN w : w[i] = v[pos[1]][pos[2]]
  <2>1. CASE pos \in Positions(s)
    <3>1. PICK i \in DOMAIN t : t[i] = s[pos[1]][pos[2]]
      BY <2>1 DEF Keeps
    <3>2. v[pos[1]] = s[pos[1]]
      BY <1>1, <1>4, <2>1
    <3>3. i \in DOMAIN w /\ w[i] = t[i]
      BY <1>2
    <3>. QED
      BY <3>1, <3>2, <3>3
  <2>2. CASE pos \in more
    <3>1. pos[1] = N + 1 /\ pos[2] \in 1..Len(x)
      BY <1>2, <2>2 DEF PositionsIn
    <3>2. w[Len(t) + pos[2]] = x[pos[2]] /\ Len(t) + pos[2] \in DOMAIN w
      BY <1>2, <3>1
    <3>. QED
      BY <1>1, <3>1, <3>2
  <2>. QED
    BY <1>3, <2>1, <2>2
<1>6. Len(x) # 0 <=> more # {}
  <2>1. Len(x) # 0 => <<N + 1, 1>> \in more
    BY <1>2 DEF PositionsIn
  <2>2. Len(x) = 0 => more = {}
    BY <1>2 DEF PositionsIn
  <2>. QED
    BY <2>1, <2>2
<1>7. Len(x) > 1 <=> Several(more)
  <2>1. ASSUME Len(x) > 1 PROVE Several(more)
    <3>1. <<N + 1, 1>> \in more /\ <<N + 1, 2>> \in more /\ <<N + 1, 1>> # <<N + 1, 2>>
      BY <1>2, <2>1 DEF PositionsIn
    <3>. HIDE DEF more
    <3>. QED
      BY <3>1 DEF Several
  <2>2. ASSUME Several(more) PROVE Len(x) > 1
    <3>1. PICK a, b \in more : a # b
      BY <2>2 DEF Several
    <3>2. PICK k, l \in 1..Len(x) : a = <<N + 1, k>> /\ b = <<N + 1, l>>
      BY <1>2 DEF PositionsIn
    <3>. QED
      BY <1>2, <3>1, <3>2
  <2>. QED
    BY <2>1, <2>2
<1>8. \A pos \in Positions(s) : pos \notin more
  BY <1>1, <1>4 DEF PositionsIn
<1>. HIDE DEF more
<1>9. Several(Positions(v)) <=> \/ Several(Positions(s))
                                \/ Several(more)
                                \/ Positions(s) # {} /\ more # {}
  BY <1>3, <1>8 DEF Several
<1>10. Len(w) > 1 <=> \/ Len(t) > 1
                      \/ Len(x) > 1
                      \/ Len(t) # 0 /\ Len(x) # 0
  BY <1>2
<1>11. Len(w) # 0 <=> Len(t) # 0 \/ Len(x) # 0
  BY <1>2
<1>12. /\ Len(t) # 0 <=> Positions(s) # {}
       /\ Len(t) > 1 <=> Several(Positions(s))
  BY DEF Keeps
<1>13. Keeps(v, w)
  <2>1. Len(w) # 0 <=> Positions(v) # {}
    BY <1>3, <1>6, <1>11, <1>12
  <2>2. Len(w) > 1 <=> Several(Positions(v))
    BY <1>6, <1>7, <1>9, <1>10, <1>12
  <2>. QED
    BY <1>5, <2>1, <2>2 DEF Keeps
<1>. QED
  BY <1>13 DEF v, w

LEMMA FlattenKeeps ==
  ASSUME NEW P, NEW s \in Seq(Seq(P))
  PROVE  Keeps(s, FlattenSeq(s))
<1>. DEFINE u(n) == SubSeq(s, 1, n)
            S == {n \in Nat : n <= Len(s) => u(n) \in Seq(Seq(P)) /\ Keeps(u(n), FlattenSeq(u(n)))}
<1>1. Len(s) \in Nat
  BY LenProperties
<1>2. 0 \in S
  <2>1. u(0) = <<>>
    BY SubSeqEmpty
  <2>2. Keeps(<<>>, <<>>)
    BY DEF Keeps, Positions, Several
  <2>. QED
    BY <2>1, <2>2, FlattenEmpty, EmptySeq
<1>3. ASSUME NEW n \in Nat, n \in S
      PROVE  n + 1 \in S
  <2>1. SUFFICES ASSUME n + 1 <= Len(s)
                 PROVE  u(n + 1) \in Seq(Seq(P)) /\ Keeps(u(n + 1), FlattenSeq(u(n + 1)))
    OBVIOUS
  <2>2. u(n) \in Seq(Seq(P)) /\ Keeps(u(n), FlattenSeq(u(n)))
    BY <1>1, <1>3, <2>1
  <2>3. 1 \in 1..Len(s) /\ n + 1 \in 1..Len(s) /\ (n + 1) - 1 = n
    BY <1>1, <2>1
  <2>4. s[n + 1] \in Seq(P) /\ u(n + 1) = u(n) \o <<s[n + 1]>>
    BY <2>3, ElementOfSeq, SubSeqRecursiveSecond
  <2>. HIDE DEF u
  <2>. DEFINE x == s[n + 1]
              v == u(n)
  <2>5. v \in Seq(Seq(P)) /\ Keeps(v, FlattenSeq(v)) /\ x \in Seq(P) /\ u(n + 1) = v \o <<x>>
    BY <2>2, <2>4
  <2>. HIDE DEF x, v
  <2>6. FlattenSeq(v) \in Seq(P) /\ FlattenSeq(v \o <<x>>) = FlattenSeq(v) \o x
    BY <2>5, FlattenType, FlattenAppend
  <2>7. Keeps(v \o <<x>>, FlattenSeq(v) \o x)
    BY <2>5, <2>6, KeepsOneMore
  <2>8. v \o <<x>> \in Seq(Seq(P))
    <3>1. <<x>> \in Seq(Seq(P))
      BY <2>5
    <3>. QED
      BY <2>5, <3>1, ConcatProperties
  <2>. QED
    BY <2>5, <2>6, <2>7, <2>8
<1>4. Nat \subseteq S
  <2>. HIDE DEF S
  <2>. QED
    BY <1>2, <1>3, Induct
<1>5. u(Len(s)) = s
  BY SubSeqFull
<1>. HIDE DEF u
<1>6. Len(s) \in S /\ Len(s) <= Len(s)
  BY <1>1, <1>4
<1>. QED
  BY <1>5, <1>6

(* The sequence of a finite set has only its elements.                     *)
LEMMA SetToSeqType ==
  ASSUME NEW T, IsFiniteSet(T)
  PROVE  SetToSeq(T) \in [1..Cardinality(T) -> T]
<1>1. PICK f \in [1..Cardinality(T) -> T] : IsInjective(f)
  <2>1. PICK f \in Bijection(1..Cardinality(T), T) : TRUE
    BY FS_CardinalityType DEF ExistsBijection
  <2>2. f \in [1..Cardinality(T) -> T] /\ \A a, b \in 1..Cardinality(T) : f[a] = f[b] => a = b
    BY DEF Bijection, Injection, IsInjective
  <2>. QED
    BY <2>2 DEF IsInjective
<1>. QED
  BY <1>1 DEF SetToSeq

(* And each of them once.                                                  *)
LEMMA SetToSeqOnce ==
  ASSUME NEW T, IsFiniteSet(T)
  PROVE  /\ \A i, j \in 1..Cardinality(T) : SetToSeq(T)[i] = SetToSeq(T)[j] => i = j
         /\ \A x \in T : \E i \in 1..Cardinality(T) : SetToSeq(T)[i] = x
<1>. DEFINE N == Cardinality(T)
            f == SetToSeq(T)
<1>1. N \in Nat
  BY FS_CardinalityType
<1>2. f \in [1..N -> T] /\ IsInjective(f)
  <2>1. PICK g \in [1..N -> T] : IsInjective(g)
    <3>1. PICK g \in Bijection(1..N, T) : TRUE
      BY FS_CardinalityType DEF ExistsBijection
    <3>2. g \in [1..N -> T] /\ \A a, b \in 1..N : g[a] = g[b] => a = b
      BY DEF Bijection, Injection, IsInjective
    <3>. QED
      BY <3>2 DEF IsInjective
  <2>. QED
    BY <2>1 DEF SetToSeq
<1>. HIDE DEF f, N
<1>3. \A i, j \in 1..N : f[i] = f[j] => i = j
  BY <1>2 DEF IsInjective
<1>4. ASSUME NEW x \in T, \A i \in 1..N : f[i] # x
      PROVE  FALSE
  <2>1. f \in [1..N -> T \ {x}]
    BY <1>2, <1>4
  <2>2. IsFiniteSet(T \ {x}) /\ Cardinality(T \ {x}) = N - 1
    BY FS_RemoveElement DEF N
  <2>3. IsFiniteSet(1..N) /\ Cardinality(1..N) = N
    <3>1. 1 \in Int /\ N \in Int /\ (N - 1) + 1 = N /\ (1 > N => N = 0)
      BY <1>1
    <3>. QED
      BY <3>1, FS_Interval
  <2>4. Cardinality(T \ {x}) < Cardinality(1..N)
    BY <1>1, <2>2, <2>3
  <2>5. \E i, j \in 1..N : i # j /\ f[i] = f[j]
    BY <2>1, <2>2, <2>3, <2>4, FS_PigeonHole
  <2>. QED
    BY <1>3, <2>5
<1>. QED
  BY <1>3, <1>4 DEF f, N

(* A context that lost some of its files has no others.                    *)
LEMMA PresentContext ==
  ASSUME context \in Contexts
  PROVE  /\ Present.rules = context.rules
         /\ Exists(Present) \subseteq Exists(context) /\ IsFiniteSet(Exists(Present))
<1>1. /\ Present.rules = context.rules /\ Present.dirs = context.dirs
      /\ Present.links = context.links /\ Present.files = context.files \ gone
  BY DEF Present
<1>2. Exists(Present) \subseteq Exists(context)
  BY <1>1 DEF Exists
<1>3. IsFiniteSet(Exists(context))
  BY ContextAssumption
<1>. QED
  BY <1>1, <1>2, <1>3, FS_Subset

(* What a COPY transfers is there, and no rule ignores it.                 *)
LEMMA ResolvedType ==
  ASSUME context \in Contexts, NEW U, NEW sources \in Seq(U),
         \A n \in DOMAIN sources : Resolves(Present, sources[n])
  PROVE  Resolved(Present, sources) \in Seq({p \in Exists(context) : ~Ignores(context.rules, p)})
<1>. DEFINE P == {p \in Exists(context) : ~Ignores(context.rules, p)}
            keeps(n) == Kept(Present, sources[n])
            found(n) == SetToSeq(keeps(n))
            part(n) == [m \in DOMAIN found(n) |-> Real(Present, found(n)[m])]
            parts == [n \in DOMAIN sources |-> part(n)]
<1>1. Len(sources) \in Nat /\ DOMAIN sources = 1..Len(sources)
  BY LenProperties
<1>2. ASSUME NEW n \in DOMAIN sources
      PROVE  part(n) \in Seq(P)
  <2>1. IsFiniteSet(keeps(n))
    <3>1. Matched(Present, sources[n]) \subseteq {sources[n]}
              \/ Matched(Present, sources[n]) \subseteq Exists(Present)
      BY DEF Matched
    <3>2. keeps(n) \subseteq {sources[n]} \/ keeps(n) \subseteq Exists(Present)
      BY <3>1 DEF Kept
    <3>3. IsFiniteSet({sources[n]}) /\ IsFiniteSet(Exists(Present))
      BY FS_Singleton, PresentContext
    <3>. HIDE DEF keeps
    <3>. QED
      BY <3>2, <3>3, FS_Subset
  <2>2. \A p \in keeps(n) : Real(Present, p) \in P
    <3>1. \A p \in keeps(n) : Real(Present, p) \in Exists(Present)
      BY DEF Kept, Resolves
    <3>2. \A p \in keeps(n) : ~Ignores(Present.rules, Real(Present, p))
      BY DEF Kept
    <3>. HIDE DEF keeps
    <3>. QED
      BY <3>1, <3>2, PresentContext
  <2>3. Cardinality(keeps(n)) \in Nat /\ found(n) \in [1..Cardinality(keeps(n)) -> keeps(n)]
    <3>. HIDE DEF keeps
    <3>. QED
      BY <2>1, SetToSeqType, FS_CardinalityType
  <2>. HIDE DEF keeps, found, P
  <2>4. part(n) \in [1..Cardinality(keeps(n)) -> P]
    BY <2>2, <2>3
  <2>. QED
    BY <2>3, <2>4, SeqDef
<1>3. parts \in Seq(Seq(P))
  <2>. HIDE DEF part, P
  <2>1. parts \in [1..Len(sources) -> Seq(P)]
    BY <1>1, <1>2
  <2>. QED
    BY <1>1, <2>1, SeqDef
<1>4. FlattenSeq(parts) \in Seq(P)
  <2>. HIDE DEF parts, P
  <2>. QED
    BY <1>3, FlattenType
<1>5. Resolved(Present, sources) = FlattenSeq(parts)
  BY DEF Resolved
<1>. QED
  BY <1>4, <1>5

(* What a COPY names.                                                      *)
LEMMA SourcesType ==
  ASSUME NEW args, Len(args) \in Nat
  PROVE  Front(args) \in Seq({args[i] : i \in 1..Len(args) - 1})
<1>. DEFINE U == {args[i] : i \in 1..Len(args) - 1}
<1>1. \A i \in 1..Len(args) - 1 : args[i] \in U
  OBVIOUS
<1>2. 1 \in Int /\ Len(args) - 1 \in Int
  OBVIOUS
<1>. HIDE DEF U
<1>3. SubSeq(args, 1, Len(args) - 1) \in Seq(U)
  BY <1>1, <1>2, SubSeqProperties, Zenon
<1>. QED
  BY <1>3 DEF Front, U

(* A context that lost nothing is the context.                             *)
LEMMA PresentWhole ==
  ASSUME context \in Contexts, gone = {}, NEW s
  PROVE  /\ Kept(Present, s) = {p \in Matched(context, s) : ~Excluded(Real(context, p))}
         /\ \A p : Real(Present, p) = Real(context, p)
<1>1. /\ Present.rules = context.rules /\ Present.dirs = context.dirs
      /\ Present.links = context.links /\ Present.files = context.files
  BY DEF Present
<1>2. Exists(Present) = Exists(context)
  BY <1>1 DEF Exists
<1>3. Matched(Present, s) = Matched(context, s)
  BY <1>2 DEF Matched
<1>4. \A p : Real(Present, p) = Real(context, p)
  BY <1>1 DEF Real
<1>5. \A p : Ignores(Present.rules, Real(Present, p)) <=> Excluded(Real(context, p))
  BY <1>1, <1>4, IgnoredIsExcluded
<1>6. Kept(Present, s) = {p \in Matched(context, s) : ~Excluded(Real(context, p))}
  BY <1>3, <1>5 DEF Kept
<1>. QED
  BY <1>4, <1>6

(* Re-anchoring what syncDir asks about gives the path in the context.     *)
LEMMA Reanchored ==
  ASSUME NEW U, NEW p \in Seq(U), NEW dir, dir = Root \/ dir \in Seq(U), Below(dir, p)
  PROVE  Anchored(dir, Relative(dir, p)) = p
<1>1. CASE dir = Root
  BY <1>1 DEF Anchored, Relative
<1>2. CASE dir # Root
  <2>1. Len(dir) <= Len(p) /\ SubSeq(dir, 1, Len(dir)) = SubSeq(p, 1, Len(dir))
    BY <1>2 DEF Below, IsStrictPrefix, IsPrefix
  <2>2. Len(dir) \in Nat /\ Len(p) \in Nat
    BY <1>2, LenProperties
  <2>3. SubSeq(dir, 1, Len(dir)) = dir /\ SubSeq(p, 1, Len(p)) = p
    BY <1>2, SubSeqFull
  <2>4. SubSeq(p, 1, Len(dir)) \o SubSeq(p, Len(dir) + 1, Len(p)) = SubSeq(p, 1, Len(p))
    <3>1. 1 \in 1..Len(p) + 1 /\ Len(dir) \in 1 - 1..Len(p) /\ Len(p) \in Len(dir)..Len(p)
      BY <2>1, <2>2
    <3>. QED
      BY <3>1, ConcatAdjacentSubSeq
  <2>. QED
    BY <1>2, <2>1, <2>3, <2>4 DEF Anchored, Relative
<1>. QED
  BY <1>1, <1>2

-----------------------------------------------------------------------------
(* The steps of a Dockerfile.                                              *)

(* A sequence of steps, whose arguments are counted.                       *)
IsProgram(s) ==
    /\ s \in Seq({s[n] : n \in DOMAIN s})
    /\ \A n \in DOMAIN s : Len(s[n].args) \in Nat

LEMMA EmptyProgram == IsProgram(<<>>)
  BY EmptySeq DEF IsProgram

LEMMA ProgramConcat ==
  ASSUME NEW s, NEW t, IsProgram(s), IsProgram(t)
  PROVE  IsProgram(s \o t)
<1>. DEFINE S == {s[n] : n \in DOMAIN s}
            T == {t[n] : n \in DOMAIN t}
            u == s \o t
<1>1. \A x \in S \cup T : Len(x.args) \in Nat
  BY DEF IsProgram
<1>2. s \in Seq(S \cup T) /\ t \in Seq(S \cup T)
  <2>1. s \in Seq(S) /\ t \in Seq(T) /\ S \subseteq S \cup T /\ T \subseteq S \cup T
    BY DEF IsProgram
  <2>. HIDE DEF S, T
  <2>. QED
    BY <2>1, SeqMonotonic
<1>. HIDE DEF S, T
<1>3. u \in Seq(S \cup T)
  BY <1>2, ConcatProperties
<1>. HIDE DEF u
<1>4. Len(u) \in Nat /\ DOMAIN u = 1..Len(u) /\ u = [n \in 1..Len(u) |-> u[n]]
  BY <1>3, LenProperties
<1>5. \A n \in DOMAIN u : u[n] \in S \cup T
  BY <1>3, <1>4, ElementOfSeq
<1>6. u \in Seq({u[n] : n \in DOMAIN u})
  <2>1. u \in [1..Len(u) -> {u[n] : n \in DOMAIN u}]
    BY <1>4
  <2>. QED
    BY <1>4, <2>1, SeqDef
<1>7. IsProgram(u)
  BY <1>1, <1>5, <1>6 DEF IsProgram
<1>. QED
  BY <1>7 DEF u

LEMMA StepsOfProgram ==
  ASSUME NEW i, NEW shell, Counted(i.args)
  PROVE  IsProgram(StepsOf(i, shell))
<1>. DEFINE Step(args) == [word |-> i.word, args |-> args, chown |-> i.chown,
                           checksum |-> i.checksum, shell |-> CommandLine(i, shell)]
<1>1. \A args : Step(args).args = args
  OBVIOUS
<1>2. CASE i.word \in {"FROM", "SHELL"}
  <2>1. StepsOf(i, shell) = <<>>
    BY <1>2 DEF StepsOf
  <2>. QED
    BY <2>1, EmptyProgram
<1>3. CASE i.word = "ARG"
  <2>. DEFINE s == [n \in DOMAIN i.args |-> Step(<<i.args[n]>>)]
  <2>1. StepsOf(i, shell) = s
    BY <1>3 DEF StepsOf
  <2>2. DOMAIN s = 1..Len(i.args) /\ Len(i.args) \in Nat
    BY DEF Counted
  <2>3. \A n \in DOMAIN s : Len(s[n].args) = 1
    BY <1>1
  <2>. HIDE DEF Step
  <2>4. s \in [1..Len(i.args) -> {s[n] : n \in DOMAIN s}]
    BY <2>2
  <2>5. s \in Seq({s[n] : n \in DOMAIN s})
    <3>. HIDE DEF s
    <3>. QED
      BY <2>2, <2>4, SeqDef
  <2>. QED
    BY <2>1, <2>3, <2>5 DEF IsProgram
<1>4. CASE i.word \notin {"FROM", "SHELL", "ARG"}
  <2>1. StepsOf(i, shell) = <<Step(i.args)>>
    BY <1>4 DEF StepsOf
  <2>2. Len(Step(i.args).args) \in Nat
    BY <1>1 DEF Counted
  <2>. HIDE DEF Step
  <2>3. <<Step(i.args)>> \in Seq({Step(i.args)}) /\ DOMAIN <<Step(i.args)>> = {1}
        /\ <<Step(i.args)>>[1] = Step(i.args)
    OBVIOUS
  <2>4. {<<Step(i.args)>>[n] : n \in {1}} = {Step(i.args)}
    OBVIOUS
  <2>. QED
    BY <2>1, <2>2, <2>3, <2>4 DEF IsProgram
<1>. QED
  BY <1>2, <1>3, <1>4

(* The loop over the instructions has a value after each of them.          *)
Read(i, before) ==
    [shell |-> IF i.word = "SHELL" THEN i.args ELSE before.shell,
     steps |-> before.steps \o StepsOf(i, before.shell)]
ReadsTo(d, h, n) ==
    \A k \in 0..n : h[k] = IF k = 0 THEN [shell |-> None, steps |-> <<>>]
                           ELSE Read(d[k], h[k - 1])
Reads(d, n) == \E h : h = [k \in 0..n |-> h[k]] /\ ReadsTo(d, h, n)

LEMMA ReadLoop ==
  ASSUME NEW d, NEW N \in Nat
  PROVE  Reads(d, N)
<1>. DEFINE S == {n \in Nat : Reads(d, n)}
<1>1. 0 \in S
  <2>. DEFINE h == [k \in 0..0 |-> [shell |-> None, steps |-> <<>>]]
  <2>1. h = [k \in 0..0 |-> h[k]] /\ ReadsTo(d, h, 0)
    BY DEF ReadsTo
  <2>. HIDE DEF h
  <2>. QED
    BY <2>1 DEF Reads
<1>2. ASSUME NEW n \in Nat, n \in S
      PROVE  n + 1 \in S
  <2>1. PICK h : h = [k \in 0..n |-> h[k]] /\ ReadsTo(d, h, n)
    BY <1>2 DEF Reads
  <2>. DEFINE next == Read(d[n + 1], h[n])
              g == [k \in 0..n + 1 |-> IF k = n + 1 THEN next ELSE h[k]]
  <2>2. g = [k \in 0..n + 1 |-> g[k]]
    OBVIOUS
  <2>3. g[n + 1] = next /\ \A k \in 0..n : g[k] = h[k]
    <3>1. n + 1 \in 0..n + 1 /\ \A k \in 0..n : k \in 0..n + 1 /\ k # n + 1
      OBVIOUS
    <3>. HIDE DEF next
    <3>. QED
      BY <3>1
  <2>. HIDE DEF g
  <2>4. ReadsTo(d, g, n + 1)
    <3>1. SUFFICES ASSUME NEW k \in 0..n + 1
                   PROVE  g[k] = IF k = 0 THEN [shell |-> None, steps |-> <<>>]
                                 ELSE Read(d[k], g[k - 1])
      BY DEF ReadsTo
    <3>2. CASE k = n + 1
      <4>1. n \in 0..n /\ (n + 1) - 1 = n /\ n + 1 # 0
        OBVIOUS
      <4>. QED
        BY <2>3, <3>2, <4>1
    <3>3. CASE k \in 0..n
      <4>1. g[k] = h[k] /\ (k # 0 => g[k - 1] = h[k - 1])
        BY <2>3, <3>3
      <4>. QED
        BY <2>1, <3>3, <4>1 DEF ReadsTo
    <3>. QED
      BY <3>2, <3>3
  <2>. QED
    BY <2>2, <2>4 DEF Reads
<1>3. Nat \subseteq S
  <2>. HIDE DEF S
  <2>. QED
    BY <1>1, <1>2, Induct
<1>. QED
  BY <1>3

LEMMA StepsLoop ==
  ASSUME NEW d, Len(d) \in Nat
  PROVE  \E f : ReadsTo(d, f, Len(d)) /\ Steps(d) = f[Len(d)].steps
<1>. DEFINE N == Len(d)
            IsLoop(h) == h = [k \in 0..N |-> IF k = 0 THEN [shell |-> None, steps |-> <<>>]
                                             ELSE Read(d[k], h[k - 1])]
            f == CHOOSE h : IsLoop(h)
<1>1. \E h : IsLoop(h)
  <2>1. PICK h : h = [k \in 0..N |-> h[k]] /\ ReadsTo(d, h, N)
    BY ReadLoop DEF Reads
  <2>2. IsLoop(h)
    BY <2>1 DEF ReadsTo
  <2>. QED
    BY <2>2
<1>2. \A k \in 0..N : f[k] = IF k = 0 THEN [shell |-> None, steps |-> <<>>]
                             ELSE Read(d[k], f[k - 1])
  BY <1>1
<1>3. Steps(d) = f[N].steps
  BY DEF Steps, Read
<1>. HIDE DEF f
<1>. QED
  BY <1>2, <1>3 DEF ReadsTo

(* The steps of a Dockerfile are a program.                                *)
LEMMA StepsProgram ==
  ASSUME NEW d, Counted(d), \A k \in DOMAIN d : Counted(d[k].args)
  PROVE  IsProgram(Steps(d))
<1>1. Len(d) \in Nat /\ \A k \in 1..Len(d) : Counted(d[k].args)
  BY DEF Counted
<1>2. PICK f : ReadsTo(d, f, Len(d)) /\ Steps(d) = f[Len(d)].steps
  BY <1>1, StepsLoop
<1>. DEFINE N == Len(d)
            S == {n \in Nat : n \in 0..N => IsProgram(f[n].steps)}
<1>3. \A k \in 0..N : f[k] = IF k = 0 THEN [shell |-> None, steps |-> <<>>]
                             ELSE Read(d[k], f[k - 1])
  BY <1>2 DEF ReadsTo
<1>4. Steps(d) = f[N].steps
  BY <1>2
<1>5. 0 \in S
  <2>1. f[0].steps = <<>>
    BY <1>1, <1>3
  <2>. QED
    BY <2>1, EmptyProgram
<1>6. ASSUME NEW n \in Nat, n \in S
      PROVE  n + 1 \in S
  <2>1. SUFFICES ASSUME n + 1 \in 0..N PROVE IsProgram(f[n + 1].steps)
    OBVIOUS
  <2>2. n \in 0..N /\ n + 1 # 0 /\ (n + 1) - 1 = n /\ n + 1 \in 1..N
    BY <1>1, <2>1
  <2>3. f[n + 1] = Read(d[n + 1], f[n])
    BY <1>3, <2>1, <2>2
  <2>4. f[n + 1].steps = f[n].steps \o StepsOf(d[n + 1], f[n].shell)
    <3>1. \A i, before : Read(i, before).steps = before.steps \o StepsOf(i, before.shell)
      BY DEF Read
    <3>. QED
      BY <2>3, <3>1
  <2>5. IsProgram(f[n].steps)
    BY <1>6, <2>2
  <2>6. IsProgram(StepsOf(d[n + 1], f[n].shell))
    BY <1>1, <2>2, StepsOfProgram
  <2>. QED
    BY <2>4, <2>5, <2>6, ProgramConcat
<1>7. Nat \subseteq S
  <2>. HIDE DEF S
  <2>. QED
    BY <1>5, <1>6, Induct
<1>8. N \in 0..N
  BY <1>1
<1>. QED
  BY <1>1, <1>4, <1>7, <1>8

-----------------------------------------------------------------------------
(* What is left of the Dockerfile.                                         *)

Remaining(all, left) ==
    Len(left) \in 0..Len(all) /\ left = SubSeq(all, Len(all) - Len(left) + 1, Len(all))

LEMMA RemainingTail ==
  ASSUME NEW all, IsProgram(all), NEW left, Remaining(all, left), left # <<>>
  PROVE  /\ Remaining(all, Tail(left))
         /\ Len(Head(left).args) \in Nat
         /\ Len(all) - Len(left) \in Nat /\ Len(Tail(left)) = Len(left) - 1
         /\ Head(left) = all[Len(all) - Len(left) + 1]
<1>. DEFINE S == {all[n] : n \in DOMAIN all}
            m == Len(all) - Len(left) + 1
<1>1. all \in Seq(S) /\ \A n \in DOMAIN all : Len(all[n].args) \in Nat
  BY DEF IsProgram
<1>. HIDE DEF S
<1>2. Len(all) \in Nat /\ DOMAIN all = 1..Len(all) /\ \A n \in 1..Len(all) : all[n] \in S
  BY <1>1, LenProperties, ElementOfSeq
<1>3. Len(left) \in 0..Len(all) /\ left = SubSeq(all, m, Len(all)) /\ m \in Int
  BY <1>2 DEF Remaining
<1>4. left \in Seq(S)
  <2>1. \A i \in m..Len(all) : all[i] \in S
    BY <1>2, <1>3
  <2>. QED
    <3>1. Len(all) \in Int
      BY <1>2
    <3>. HIDE DEF m
    <3>2. SubSeq(all, m, Len(all)) \in Seq(S)
      BY <1>3, <2>1, <3>1, SubSeqProperties, Zenon
    <3>. QED
      BY <1>3, <3>2, Zenon
<1>5. Len(left) >= 1 /\ m \in 1..Len(all) /\ Len(all) \in m..Len(all)
  <2>1. Len(left) \in Nat \ {0}
    BY <1>4, EmptySeq
  <2>. QED
    BY <1>2, <1>3, <2>1
<1>6. Head(left) = all[m] /\ Tail(left) = SubSeq(all, m + 1, Len(all))
  BY <1>1, <1>3, <1>5, HeadTailOfSubSeq
<1>7. Len(Tail(left)) = Len(left) - 1
  BY <1>4, HeadTailProperties
<1>8. Len(all) - Len(Tail(left)) + 1 = m + 1 /\ Len(Tail(left)) \in 0..Len(all)
  BY <1>2, <1>3, <1>5, <1>7
<1>9. Remaining(all, Tail(left))
  BY <1>6, <1>8 DEF Remaining
<1>10. Len(Head(left).args) \in Nat
  BY <1>1, <1>2, <1>5, <1>6
<1>11. Len(all) - Len(left) \in Nat
  BY <1>2, <1>3
<1>. QED
  BY <1>6, <1>7, <1>9, <1>10, <1>11

(* The steps of the call, while they are applied.                          *)
LEMMA CallProgram ==
  ASSUME StepsInv, pc \in {"step", "copy", "sent"}
  PROVE  IsProgram(Steps(call.dockerfile)) /\ Remaining(Steps(call.dockerfile), steps)
<1>1. call.dockerfile # None /\ call \in Calls
  BY DEF StepsInv
<1>2. Counted(call.dockerfile)
      /\ \A k \in DOMAIN call.dockerfile : Counted(call.dockerfile[k].args)
  BY <1>1, CallAssumption
<1>3. Remaining(Steps(call.dockerfile), steps)
  BY DEF StepsInv, Remaining
<1>. QED
  BY <1>2, <1>3, StepsProgram

LEMMA InitSteps == Init => StepsInv
  BY DEF Init, StepsInv

(* A step of the build leaves the steps alone or takes the first.          *)
LEMMA NextSteps == StepsInv /\ [Next]_vars => StepsInv'
<1>. SUFFICES ASSUME StepsInv, [Next]_vars
              PROVE  StepsInv'
  OBVIOUS
<1>. DEFINE all == Steps(call.dockerfile)
<1>1. call' = call /\ call \in Calls
  <2>1. CASE Apply
    BY <2>1, ApplyStep DEF StepsInv
  <2>2. CASE ~Apply
    BY <2>2 DEF StepsInv, Next, Build, Apply, Vanish, Refuse, Forked, ForkFails, Finish, Delete,
                DeleteFails, DeleteAgain, vars
  <2>. QED
    BY <2>1, <2>2
<1>2. ASSUME pc \in {"step", "copy", "sent"}, steps # <<>>, pc' = "step", steps' = Tail(steps)
      PROVE  StepsInv'
  <2>1. Remaining(all, Tail(steps)) /\ call.dockerfile # None
    BY <1>2, CallProgram, RemainingTail DEF StepsInv
  <2>. QED
    BY <1>1, <1>2, <2>1 DEF StepsInv, Remaining
<1>3. ASSUME pc \in {"step", "copy", "sent"}, pc' \in {"step", "copy", "sent"}, UNCHANGED steps,
             pc' \in {"copy", "sent"} => steps # <<>> /\ step.word = "COPY"
      PROVE  StepsInv'
  BY <1>1, <1>3 DEF StepsInv, step
<1>4. ASSUME pc' \notin {"step", "copy", "sent"}
      PROVE  StepsInv'
  BY <1>1, <1>4 DEF StepsInv
<1>5. CASE Apply
  <2>. USE DEF Next_, Abort
  <2>1. CASE Note
    BY <1>2, <2>1 DEF Note
  <2>2. CASE Command
    BY <1>2, <1>4, <2>2 DEF Command, RunChecked
  <2>3. CASE Add
    BY <1>2, <1>4, <2>3 DEF Add, Sync
  <2>4. CASE StartCopy
    BY <1>3, <1>4, <2>4 DEF StartCopy
  <2>5. CASE CopyDirectory \/ CopyFile
    BY <1>3, <1>4, <2>5 DEF CopyDirectory, CopyFile, Sync, StepsInv
  <2>6. CASE MarkExecutable
    BY <1>3, <1>4, <2>6 DEF MarkExecutable, RunChecked, Continue_, StepsInv
  <2>7. CASE EndCopy
    BY <1>2, <1>4, <2>7 DEF EndCopy, RunChecked, StepsInv
  <2>. QED
    BY <1>5, <2>1, <2>2, <2>3, <2>4, <2>5, <2>6, <2>7 DEF Apply
<1>6. CASE Forked
  <2>1. CASE call.dockerfile = None
    BY <1>4, <1>6, <2>1 DEF Forked
  <2>2. CASE call.dockerfile # None
    <3>1. steps' = all /\ pc' = "step"
      BY <1>6, <2>2 DEF Forked
    <3>2. IsProgram(all)
      <4>1. Counted(call.dockerfile)
            /\ \A k \in DOMAIN call.dockerfile : Counted(call.dockerfile[k].args)
        BY <1>1, <2>2, CallAssumption
      <4>. QED
        BY <4>1, StepsProgram
    <3>. HIDE DEF all
    <3>3. all \in Seq({all[n] : n \in DOMAIN all})
      BY <3>2 DEF IsProgram
    <3>4. Len(all) \in 0..Len(all) /\ all = SubSeq(all, Len(all) - Len(all) + 1, Len(all))
      <4>1. Len(all) \in Nat /\ SubSeq(all, 1, Len(all)) = all
        BY <3>3, LenProperties, SubSeqFull
      <4>. QED
        BY <4>1
    <3>. QED
      BY <1>1, <2>2, <3>1, <3>4 DEF StepsInv, all
  <2>. QED
    BY <2>1, <2>2
<1>7. CASE Refuse \/ ForkFails \/ Finish \/ Delete \/ DeleteFails \/ DeleteAgain
  BY <1>4, <1>7 DEF Refuse, ForkFails, Finish, Delete, DeleteFails, DeleteAgain
<1>8. ASSUME NEW p \in context.files, Vanish(p)
      PROVE  StepsInv'
  BY <1>8 DEF Vanish, StepsInv, step
<1>9. CASE UNCHANGED vars
  BY <1>9 DEF vars, StepsInv, step
<1>. QED
  BY <1>5, <1>6, <1>7, <1>8, <1>9 DEF Next, Build, Apply

-----------------------------------------------------------------------------
(* What is sent.                                                           *)

Home(p) == p \in context.files => ~Ignores(context.rules, p)

LEMMA InitHome == Init => HomeInv
<1>. SUFFICES ASSUME Init PROVE HomeInv
  OBVIOUS
<1>1. todo \in Seq({p \in Exists(context) : ~Ignores(context.rules, p)})
  BY EmptySeq DEF Init
<1>2. DOMAIN files = {}
  BY DEF Init
<1>. QED
  BY <1>1, <1>2 DEF Init, HomeInv

(* A write of what may leave keeps what is there.                          *)
LEMMA SyncHome ==
  ASSUME NEW write, files' \in {files, Written(write)},
         \A q \in DOMAIN files : Home(files[q]), \A q \in DOMAIN write : Home(write[q])
  PROVE  \A q \in DOMAIN files' : Home(files'[q])
<1>1. CASE files' = files
  BY <1>1
<1>2. CASE files' = Written(write)
  BY <1>2 DEF Written
<1>. QED
  BY <1>1, <1>2

(* A file below a copied directory is sent if no rule ignores it.          *)
LEMMA SentHome ==
  ASSUME HomeInv, NEW dir \in Exists(context) \cup {Root}, NEW p \in Sent(context, dir, gone)
  PROVE  ~Ignores(context.rules, p)
<1>1. /\ p \in context.files /\ Below(dir, p)
      /\ ~Ignores(context.rules, Anchored(dir, Relative(dir, p)))
  BY DEF Sent
<1>2. p \in Exists(context) /\ Exists(context) \subseteq Seq(STRING)
  BY <1>1, ContextAssumption DEF HomeInv, Exists
<1>3. (dir = Root \/ dir \in Seq(STRING)) /\ p \in Seq(STRING)
  BY <1>2
<1>. QED
  BY <1>1, <1>3, Reanchored

(* Steps that write nothing and add nothing to the list.                   *)
LEMMA QuietHome ==
  ASSUME HomeInv, UNCHANGED <<context, files>>,
         \/ UNCHANGED todo
         \/ todo # <<>> /\ todo' = Tail(todo),
         pc' # "sent" \/ UNCHANGED <<pc, todo>>
  PROVE  HomeInv'
<1>. DEFINE P == {p \in Exists(context) : ~Ignores(context.rules, p)}
<1>1. todo' \in Seq(P)
  <2>1. todo \in Seq(P)
    BY DEF HomeInv
  <2>. HIDE DEF P
  <2>. QED
    BY <2>1, HeadTailProperties
<1>2. P' = P
  BY DEF Exists
<1>. QED
  BY <1>1, <1>2 DEF HomeInv

LEMMA NextHome == StepsInv /\ HomeInv /\ [Next]_vars => HomeInv'
<1>. SUFFICES ASSUME StepsInv, HomeInv, [Next]_vars
              PROVE  HomeInv'
  OBVIOUS
<1>. DEFINE P == {p \in Exists(context) : ~Ignores(context.rules, p)}
<1>1. /\ context \in Contexts /\ todo \in Seq(P) /\ (pc = "sent" => todo # <<>>)
      /\ \A q \in DOMAIN files : Home(files[q])
  BY DEF HomeInv, Home
<1>2. ASSUME UNCHANGED context, todo' \in Seq(P), pc' = "sent" => todo' # <<>>,
             \A q \in DOMAIN files' : Home(files'[q])
      PROVE  HomeInv'
  <2>1. P' = P
    BY <1>2 DEF Exists
  <2>2. \A q \in DOMAIN files' : files'[q] \in context'.files => ~Ignores(context'.rules, files'[q])
    BY <1>2 DEF Home
  <2>. QED
    BY <1>1, <1>2, <2>1, <2>2 DEF HomeInv
<1>3. todo # <<>> => Tail(todo) \in Seq(P) /\ todo[1] \in P
  <2>. HIDE DEF P
  <2>. QED
    BY <1>1, HeadTailProperties, EmptySeq, ElementOfSeq
<1>4. CASE Apply
  <2>. USE DEF Next_, Abort
  <2>1. UNCHANGED context
    BY <1>4, ApplyStep
  <2>2. CASE Note
    BY <2>2, QuietHome DEF Note, copying
  <2>3. CASE Command
    BY <2>3, QuietHome DEF Command, RunChecked, copying
  <2>4. CASE Add
    <3>1. UNCHANGED todo /\ pc' # "sent"
      BY <2>4 DEF Add, Sync, copying
    <3>2. CASE UNCHANGED files
      BY <1>1, <1>2, <2>1, <3>1, <3>2
    <3>3. CASE \E payload \in Payloads :
                   files' \in {files, Written(At(step.args[2].path, payload))}
      <4>1. PICK payload \in Payloads : files' \in {files, Written(At(step.args[2].path, payload))}
        BY <3>3
      <4>2. payload \notin context.files
        BY <1>1, ContextAssumption
      <4>3. \A q \in DOMAIN At(step.args[2].path, payload) :
                Home(At(step.args[2].path, payload)[q])
        BY <4>2 DEF At, Home
      <4>4. \A q \in DOMAIN files' : Home(files'[q])
        BY <1>1, <4>1, <4>3, SyncHome
      <4>. QED
        BY <1>1, <1>2, <2>1, <3>1, <4>4
    <3>. QED
      BY <2>4, <3>2, <3>3 DEF Add, Sync
  <2>5. CASE StartCopy
    <3>1. UNCHANGED files /\ pc' # "sent"
      BY <2>5 DEF StartCopy
    <3>2. todo' \in Seq(P)
      <4>1. CASE UNCHANGED todo
        BY <1>1, <4>1
      <4>2. CASE ~UNCHANGED todo
        <5>. DEFINE sources == Front(step.args)
        <5>1. /\ \A n \in DOMAIN sources : Resolves(Present, sources[n])
              /\ todo' = Resolved(Present, sources)
          BY <2>5, <4>2 DEF StartCopy, copying
        <5>2. Len(step.args) \in Nat
          BY <2>5, CallProgram, RemainingTail DEF StartCopy, step
        <5>. DEFINE U == {step.args[i] : i \in 1..Len(step.args) - 1}
        <5>3. sources \in Seq(U)
          BY <5>2, SourcesType
        <5>. HIDE DEF U, sources
        <5>. QED
          BY <1>1, <5>1, <5>3, ResolvedType
      <4>. QED
        BY <4>1, <4>2
    <3>. QED
      BY <1>1, <1>2, <2>1, <3>1, <3>2
  <2>6. CASE CopyDirectory
    <3>. DEFINE sent == Sent(context, todo[1], gone)
                at(p) == Dest.path \o Relative(todo[1], p)
                write == [q \in {at(p) : p \in sent} |-> CHOOSE p \in sent : at(p) = q]
    <3>1. todo # <<>> /\ todo' = Tail(todo) /\ pc' # "sent" /\ files' \in {files, Written(write)}
      BY <2>6 DEF CopyDirectory, Sync
    <3>2. todo[1] \in Exists(context)
      BY <1>3, <3>1
    <3>3. \A p \in sent : Home(p)
      BY <3>2, SentHome DEF Home
    <3>4. \A q \in DOMAIN write : write[q] \in sent
      <4>. HIDE DEF sent
      <4>. QED
        OBVIOUS
    <3>5. \A q \in DOMAIN write : Home(write[q])
      <4>. HIDE DEF write, sent
      <4>. QED
        BY <3>3, <3>4
    <3>6. \A q \in DOMAIN files' : Home(files'[q])
      <4>. HIDE DEF write
      <4>. QED
        BY <1>1, <3>1, <3>5, SyncHome
    <3>. QED
      BY <1>2, <1>3, <2>1, <3>1, <3>6
  <2>7. CASE CopyFile
    <3>. DEFINE write == At(DestinationFor(Dest, todo[1], multiple), todo[1])
    <3>1. todo # <<>> /\ UNCHANGED todo /\ files' \in {files, Written(write)}
      BY <2>7 DEF CopyFile, Sync, copying
    <3>2. Home(todo[1])
      BY <1>3, <3>1 DEF Home
    <3>3. \A q \in DOMAIN write : Home(write[q])
      BY <3>2 DEF At
    <3>4. \A q \in DOMAIN files' : Home(files'[q])
      <4>. HIDE DEF write
      <4>. QED
        BY <1>1, <3>1, <3>3, SyncHome
    <3>. QED
      BY <1>1, <1>2, <2>1, <3>1, <3>4
  <2>8. CASE MarkExecutable
    BY <1>1, <2>1, <2>8, QuietHome DEF MarkExecutable, RunChecked, Continue_
  <2>9. CASE EndCopy
    BY <2>1, <2>9, QuietHome DEF EndCopy, RunChecked, copying
  <2>. QED
    BY <1>4, <2>2, <2>3, <2>4, <2>5, <2>6, <2>7, <2>8, <2>9 DEF Apply
<1>5. CASE Refuse \/ Forked \/ ForkFails \/ Finish \/ Delete \/ DeleteFails \/ DeleteAgain
  BY <1>5, QuietHome DEF Refuse, Forked, ForkFails, Finish, Delete, DeleteFails, DeleteAgain, copying
<1>6. ASSUME NEW p \in context.files, Vanish(p)
      PROVE  HomeInv'
  BY <1>6, QuietHome DEF Vanish, copying
<1>7. CASE UNCHANGED vars
  BY <1>7, QuietHome DEF vars, copying
<1>. QED
  BY <1>4, <1>5, <1>6, <1>7 DEF Next, Build, Apply

(* The Dockerfile is applied step by step, and what is listed or sent was  *)
(* asked about.                                                            *)
THEOREM HomeInductive == Spec => [](StepsInv /\ HomeInv)
<1>. QED
  BY InitSteps, NextSteps, InitHome, NextHome, PTL DEF Spec

(* No file .dockerignore excludes reaches the machine (build.ts,           *)
(* applyCopy; dockerignore.ts, ignores).                                   *)
THEOREM HomeKept == Spec => []IgnoredStaysHome
<1>1. HomeInv => IgnoredStaysHome
  BY IgnoredIsExcluded DEF HomeInv, IgnoredStaysHome
<1>. QED
  BY <1>1, HomeInductive, PTL

-----------------------------------------------------------------------------
(* What the steps stand for, and what has run.                             *)

LEMMA Extend ==
  ASSUME NEW Q, NEW n \in Nat, NEW f \in [1..n -> Q], NEW g \in [1..n + 1 -> Q],
         \A i \in 1..n : g[i] = f[i]
  PROVE  f \in Seq(Q) /\ g \in Seq(Q) /\ g = f \o <<g[n + 1]>>
<1>1. f \in Seq(Q) /\ g \in Seq(Q)
  BY SeqDef
<1>2. Len(f) = n /\ Len(g) = n + 1 /\ n + 1 \in 1..n + 1
  BY <1>1
<1>3. g[n + 1] \in Q
  BY <1>2
<1>. DEFINE x == g[n + 1]
            h == f \o <<x>>
<1>4. <<x>> \in Seq(Q) /\ Len(<<x>>) = 1 /\ <<x>>[1] = x
  BY <1>3
<1>. HIDE DEF x
<1>5. h \in Seq(Q) /\ Len(h) = n + 1
      /\ \A i \in 1..n + 1 : h[i] = IF i <= n THEN f[i] ELSE <<x>>[i - n]
  BY <1>1, <1>2, <1>4, ConcatProperties
<1>6. \A i \in 1..n + 1 : h[i] = g[i]
  <2>1. ASSUME NEW i \in 1..n + 1 PROVE h[i] = g[i]
    <3>1. CASE i <= n
      <4>1. i \in 1..n
        BY <3>1
      <4>. QED
        BY <1>5, <3>1, <4>1
    <3>2. CASE i = n + 1
      <4>1. i - n = 1 /\ ~(i <= n)
        BY <3>2
      <4>2. h[i] = <<x>>[1]
        BY <1>5, <4>1
      <4>. QED
        BY <1>4, <3>2, <4>2 DEF x
    <3>. QED
      BY <3>1, <3>2
  <2>. QED
    BY <2>1
<1>. HIDE DEF h
<1>7. g = h
  BY <1>1, <1>2, <1>5, <1>6, SeqEqual
<1>. QED
  BY <1>1, <1>7 DEF h, x

(* A sequence is one of what it holds.                                     *)
LEMMA OwnRange ==
  ASSUME NEW P, NEW t \in Seq(P)
  PROVE  IsSequence(t)
<1>. DEFINE U == {t[n] : n \in DOMAIN t}
<1>1. Len(t) \in Nat /\ DOMAIN t = 1..Len(t) /\ t \in [1..Len(t) -> P]
  BY LenProperties
<1>2. \A n \in 1..Len(t) : t[n] \in U
  BY <1>1
<1>. HIDE DEF U
<1>3. t \in [1..Len(t) -> U]
  BY <1>1, <1>2
<1>4. t \in Seq(U)
  BY <1>1, <1>3, SeqDef
<1>. QED
  BY <1>4 DEF U, IsSequence

(* One more entry of the log.                                              *)
LEMMA CommandsAppend ==
  ASSUME NEW s, IsSequence(s), NEW e
  PROVE  /\ IsSequence(Append(s, e))
         /\ e.word \notin {"chmod", "chown"} => Commands(Append(s, e)) = Commands(s) \o <<e>>
         /\ e.word \in {"chmod", "chown"} => Commands(Append(s, e)) = Commands(s)
<1>. DEFINE P == {s[n] : n \in DOMAIN s} \cup {e}
            N == Len(s)
            t == Append(s, e)
            part(x) == IF x.word \in {"chmod", "chown"} THEN <<>> ELSE <<x>>
            f == [n \in DOMAIN s |-> part(s[n])]
            g == [n \in DOMAIN t |-> part(t[n])]
<1>1. s \in Seq(P) /\ e \in P
  <2>1. {s[n] : n \in DOMAIN s} \subseteq P
    OBVIOUS
  <2>2. e \in P
    OBVIOUS
  <2>3. s \in Seq({s[n] : n \in DOMAIN s})
    BY DEF IsSequence
  <2>. HIDE DEF P
  <2>. QED
    BY <2>1, <2>2, <2>3, SeqMonotonic
<1>. HIDE DEF P
<1>2. /\ t \in Seq(P) /\ N \in Nat /\ Len(t) = N + 1 /\ DOMAIN t = 1..N + 1 /\ DOMAIN s = 1..N
      /\ t[N + 1] = e /\ \A i \in 1..N : t[i] = s[i]
  BY <1>1, AppendProperties, LenProperties
<1>. HIDE DEF t
<1>3. IsSequence(t)
  BY <1>2, OwnRange
<1>4. \A x \in P : part(x) \in Seq(P)
  OBVIOUS
<1>5. (\A i \in 1..N : s[i] \in P) /\ (\A i \in 1..N + 1 : t[i] \in P)
  BY <1>1, <1>2, ElementOfSeq
<1>6. f \in [1..N -> Seq(P)] /\ g \in [1..N + 1 -> Seq(P)]
  <2>. HIDE DEF part
  <2>. QED
    BY <1>2, <1>4, <1>5
<1>7. (\A i \in 1..N : g[i] = f[i]) /\ g[N + 1] = part(e)
  <2>1. N + 1 \in 1..N + 1 /\ \A i \in 1..N : i \in 1..N + 1
    BY <1>2
  <2>. HIDE DEF part
  <2>. QED
    BY <1>2, <2>1
<1>8. Commands(s) = FlattenSeq(f) /\ Commands(t) = FlattenSeq(g)
  BY DEF Commands
<1>. HIDE DEF f, g
<1>9. f \in Seq(Seq(P)) /\ g = f \o <<part(e)>> /\ part(e) \in Seq(P)
  <2>1. part(e) \in Seq(P)
    BY <1>1, <1>4
  <2>. DEFINE Q == Seq(P)
  <2>2. f \in [1..N -> Q] /\ g \in [1..N + 1 -> Q]
    BY <1>6
  <2>. HIDE DEF part, N, Q
  <2>3. f \in Seq(Q) /\ g = f \o <<g[N + 1]>>
    BY <1>2, <1>7, <2>2, Extend
  <2>. QED
    BY <1>7, <2>1, <2>3 DEF Q
<1>10. Commands(t) = Commands(s) \o part(e) /\ Commands(s) \in Seq(P)
  <2>. HIDE DEF part
  <2>. QED
    BY <1>8, <1>9, FlattenAppend, FlattenType
<1>11. ASSUME e.word \in {"chmod", "chown"}
       PROVE  Commands(t) = Commands(s)
  <2>1. part(e) = <<>>
    BY <1>11
  <2>. HIDE DEF part
  <2>. QED
    BY <1>10, <2>1, ConcatEmptySeq
<1>12. ASSUME e.word \notin {"chmod", "chown"}
       PROVE  Commands(t) = Commands(s) \o <<e>>
  BY <1>10, <1>12
<1>. QED
  BY <1>3, <1>11, <1>12 DEF t

(* One more step.                                                          *)
LEMMA CommandsOfStep ==
  ASSUME NEW all, NEW n \in Nat
  PROVE  /\ CommandsOf(all, n + 1) = CommandsOf(all, n) \o Piece(all, n + 1)
         /\ ~Runs(all[n + 1]) => CommandsOf(all, n + 1) = CommandsOf(all, n)
<1>. DEFINE entry(m) == Entry(all[m], UserAfter(all, m - 1))
            P == {entry(m) : m \in 1..n + 1}
            f == [m \in 1..n |-> Piece(all, m)]
            g == [m \in 1..n + 1 |-> Piece(all, m)]
<1>1. \A m \in 1..n + 1 : Piece(all, m) \in Seq(P)
  <2>1. \A m \in 1..n + 1 : entry(m) \in P /\ Piece(all, m) = IF Runs(all[m]) THEN <<entry(m)>> ELSE <<>>
    BY DEF Piece
  <2>. HIDE DEF P, entry
  <2>2. ASSUME NEW m \in 1..n + 1 PROVE Piece(all, m) \in Seq(P)
    <3>1. CASE Runs(all[m])
      <4>1. Piece(all, m) = <<entry(m)>> /\ entry(m) \in P
        BY <2>1, <3>1
      <4>. QED
        BY <4>1
    <3>2. CASE ~Runs(all[m])
      <4>1. Piece(all, m) = <<>>
        BY <2>1, <3>2
      <4>. QED
        BY <4>1, EmptySeq
    <3>. QED
      BY <3>1, <3>2
  <2>. QED
    BY <2>2
<1>. HIDE DEF P
<1>2. n + 1 \in 1..n + 1 /\ \A m \in 1..n : m \in 1..n + 1
  OBVIOUS
<1>3. f \in [1..n -> Seq(P)] /\ g \in [1..n + 1 -> Seq(P)]
      /\ g[n + 1] = Piece(all, n + 1) /\ \A m \in 1..n : g[m] = f[m]
  BY <1>1, <1>2
<1>4. CommandsOf(all, n) = FlattenSeq(f) /\ CommandsOf(all, n + 1) = FlattenSeq(g)
  BY DEF CommandsOf
<1>. HIDE DEF f, g
<1>5. f \in Seq(Seq(P)) /\ g = f \o <<Piece(all, n + 1)>>
  BY <1>3, Extend
<1>6. CommandsOf(all, n + 1) = CommandsOf(all, n) \o Piece(all, n + 1) /\ CommandsOf(all, n) \in Seq(P)
  BY <1>1, <1>2, <1>4, <1>5, FlattenAppend, FlattenType
<1>7. ASSUME ~Runs(all[n + 1])
      PROVE  CommandsOf(all, n + 1) = CommandsOf(all, n)
  <2>1. Piece(all, n + 1) = <<>>
    BY <1>7 DEF Piece
  <2>. QED
    BY <1>6, <2>1, ConcatEmptySeq
<1>. QED
  BY <1>6, <1>7

LEMMA CommandsOfNone == \A all : CommandsOf(all, 0) = <<>>
<1>1. \A all : [m \in 1..0 |-> Piece(all, m)] = <<>>
  OBVIOUS
<1>. QED
  BY <1>1, FlattenEmpty DEF CommandsOf

LEMMA UserAfterStep ==
  ASSUME NEW all, NEW n \in Nat
  PROVE  UserAfter(all, n + 1) = IF all[n + 1].word = "USER" THEN all[n + 1].args[1]
                                 ELSE UserAfter(all, n)
<1>. DEFINE said(k) == {m \in 1..k : all[m].word = "USER"}
<1>1. CASE all[n + 1].word = "USER"
  <2>1. n + 1 \in said(n + 1) /\ said(n + 1) \subseteq 1..n + 1
    BY <1>1
  <2>. HIDE DEF said
  <2>2. Max(said(n + 1)) = n + 1 /\ said(n + 1) # {}
    <3>1. Max(said(n + 1)) \in 1..n + 1 /\ n + 1 <= Max(said(n + 1))
      BY <2>1, Greatest
    <3>. QED
      BY <2>1, <3>1
  <2>. QED
    BY <1>1, <2>2 DEF UserAfter, said
<1>2. CASE all[n + 1].word # "USER"
  <2>1. said(n + 1) = said(n)
    BY <1>2
  <2>. QED
    BY <1>2, <2>1 DEF UserAfter
<1>. QED
  BY <1>1, <1>2

(* The first step that is left is done: what it stands for has run.        *)
LEMMA StepBuilt ==
  ASSUME StepsInv, BuiltInv, pc \in {"step", "copy", "sent"}, steps # <<>>,
         UNCHANGED call, pc' = "step", steps' = Tail(steps),
         IsSequence(log'),
         Runs(step) => Commands(log') = Commands(log) \o <<Entry(step, user)>>,
         ~Runs(step) => Commands(log') = Commands(log),
         user' = IF step.word = "USER" THEN step.args[1] ELSE user
  PROVE  BuiltInv'
<1>. DEFINE all == Steps(call.dockerfile)
            applied == Len(all) - Len(steps)
<1>1. IsProgram(all) /\ Remaining(all, steps)
  BY CallProgram
<1>2. Commands(log) = CommandsOf(all, applied) /\ user = UserAfter(all, applied)
  BY DEF BuiltInv
<1>. HIDE DEF all
<1>3. /\ applied \in Nat /\ step = all[applied + 1]
      /\ Len(Tail(steps)) = Len(steps) - 1
      /\ Len(all) \in Nat /\ Len(steps) \in Nat
  <2>1. Len(all) \in Nat
    BY <1>1, LenProperties DEF IsProgram
  <2>2. Len(steps) \in Nat
    BY <1>1, <2>1 DEF Remaining
  <2>. QED
    BY <1>1, <2>1, <2>2, RemainingTail DEF step
<1>4. Len(all) - Len(steps') = applied + 1 /\ (applied + 1) - 1 = applied
  BY <1>3
<1>. HIDE DEF applied
<1>5. user' = UserAfter(all, applied + 1)
  BY <1>2, <1>3, UserAfterStep
<1>6. Runs(step) => Piece(all, applied + 1) = <<Entry(step, user)>>
  BY <1>2, <1>3, <1>4 DEF Piece
<1>7. Commands(log') = CommandsOf(all, applied + 1)
  <2>1. CASE Runs(step)
    BY <1>2, <1>3, <1>6, <2>1, CommandsOfStep
  <2>2. CASE ~Runs(step)
    BY <1>2, <1>3, <2>2, CommandsOfStep
  <2>. QED
    BY <2>1, <2>2
<1>8. all' = all
  BY DEF all
<1>9. Steps(call'.dockerfile) = all
  BY DEF all
<1>. QED
  BY <1>4, <1>5, <1>7, <1>9 DEF BuiltInv

(* A step that is not done yet, or never will be.                          *)
LEMMA QuietBuilt ==
  ASSUME StepsInv, BuiltInv, UNCHANGED call,
         IsSequence(log'),
         \/ pc' \in {"deleting", "waiting", "failed"}
         \/ /\ UNCHANGED <<steps, user>>
            /\ Commands(log') = Commands(log)
            /\ pc \in {"step", "copy", "sent"} /\ pc' \in {"step", "copy", "sent"}
  PROVE  BuiltInv'
BY DEF BuiltInv

LEMMA InitBuilt == Init => BuiltInv
<1>. SUFFICES ASSUME Init PROVE BuiltInv
  OBVIOUS
<1>1. log = <<>> /\ user = None /\ pc = "called"
  BY DEF Init
<1>2. IsSequence(log)
  BY <1>1, EmptySeq DEF IsSequence
<1>. QED
  BY <1>1, <1>2 DEF BuiltInv

LEMMA NextBuilt == StepsInv /\ BuiltInv /\ [Next]_vars => BuiltInv'
<1>. SUFFICES ASSUME StepsInv, BuiltInv, [Next]_vars
              PROVE  BuiltInv'
  OBVIOUS
<1>. DEFINE all == Steps(call.dockerfile)
<1>1. IsSequence(log)
  BY DEF BuiltInv
<1>2. UNCHANGED log => IsSequence(log')
  BY <1>1
<1>3. ASSUME NEW entry, log' \in {log, Append(log, entry)},
             entry.word \in {"chmod", "chown"} \/ UNCHANGED log
      PROVE  IsSequence(log') /\ Commands(log') = Commands(log)
  <2>1. CASE log' = Append(log, entry)
    <3>1. /\ IsSequence(Append(log, entry))
          /\ entry.word \in {"chmod", "chown"} => Commands(Append(log, entry)) = Commands(log)
      BY <1>1, CommandsAppend
    <3>. QED
      BY <1>2, <1>3, <2>1, <3>1
  <2>. QED
    BY <1>2, <1>3, <2>1
<1>4. ASSUME NEW entry, log' = Append(log, entry), entry.word \notin {"chmod", "chown"}
      PROVE  IsSequence(log') /\ Commands(log') = Commands(log) \o <<entry>>
  <2>1. /\ IsSequence(Append(log, entry))
        /\ entry.word \notin {"chmod", "chown"} =>
               Commands(Append(log, entry)) = Commands(log) \o <<entry>>
    BY <1>1, CommandsAppend
  <2>. QED
    BY <1>4, <2>1
<1>5. CASE Apply
  <2>. USE DEF Next_, Abort
  <2>1. UNCHANGED call
    BY <1>5, ApplyStep
  <2>2. CASE Note
    <3>1. ~Runs(step)
      BY <2>2 DEF Note, Runs
    <3>. QED
      BY <1>2, <2>1, <2>2, <3>1, StepBuilt DEF Note
  <2>3. CASE Command
    <3>. DEFINE entry == Entry(step, user)
    <3>1. /\ pc = "step" /\ steps # <<>> /\ Runs(step) /\ UNCHANGED user
          /\ \/ log' = Append(log, entry) /\ pc' = "step" /\ steps' = Tail(steps)
             \/ log' \in {log, Append(log, entry)} /\ pc' = "deleting"
      BY <2>3 DEF Command, RunChecked, Succeeded
    <3>2. entry.word \notin {"chmod", "chown"} /\ step.word # "USER"
      BY <3>1 DEF Entry, Runs
    <3>. HIDE DEF entry
    <3>3. IsSequence(log')
      BY <1>2, <1>4, <3>1, <3>2
    <3>4. CASE log' = Append(log, entry) /\ pc' = "step" /\ steps' = Tail(steps)
      <4>1. Commands(log') = Commands(log) \o <<entry>>
        BY <1>4, <3>2, <3>4
      <4>2. Runs(step) /\ Commands(log') = Commands(log) \o <<Entry(step, user)>>
        BY <3>1, <4>1 DEF entry
      <4>. QED
        <5>1. user' = IF step.word = "USER" THEN step.args[1] ELSE user
          BY <3>1, <3>2
        <5>2. IsSequence(log')
          BY <3>3
        <5>3. pc \in {"step", "copy", "sent"} /\ steps # <<>> /\ pc' = "step" /\ steps' = Tail(steps)
          BY <3>1, <3>4
        <5>. QED
          BY <2>1, <4>2, <5>1, <5>2, <5>3, StepBuilt
    <3>5. CASE pc' = "deleting"
      BY <2>1, <3>3, <3>5, QuietBuilt
    <3>. QED
      BY <3>1, <3>4, <3>5
  <2>4. CASE Add
    <3>1. pc = "step" /\ steps # <<>> /\ step.word = "ADD" /\ UNCHANGED <<user, log>>
          /\ \/ pc' = "deleting"
             \/ pc' = "step" /\ steps' = Tail(steps)
      BY <2>4 DEF Add, Sync
    <3>2. ~Runs(step)
      BY <3>1 DEF Runs
    <3>3. CASE pc' = "deleting"
      BY <1>2, <2>1, <3>1, <3>3, QuietBuilt
    <3>4. CASE pc' = "step" /\ steps' = Tail(steps)
      <4>1. pc \in {"step", "copy", "sent"} /\ user' = IF step.word = "USER" THEN step.args[1] ELSE user
        BY <3>1
      <4>2. IsSequence(log') /\ Commands(log') = Commands(log)
        BY <1>2, <3>1
      <4>. QED
        BY <2>1, <3>1, <3>2, <3>4, <4>1, <4>2, StepBuilt
    <3>. QED
      BY <3>1, <3>3, <3>4
  <2>5. CASE StartCopy
    BY <1>2, <2>1, <2>5, QuietBuilt DEF StartCopy
  <2>6. CASE CopyDirectory \/ CopyFile
    BY <1>2, <2>1, <2>6, QuietBuilt DEF CopyDirectory, CopyFile, Sync
  <2>7. CASE MarkExecutable
    <3>. DEFINE entry == [word |-> "chmod", args |-> DestinationFor(Dest, todo[1], multiple),
                          shell |-> None, user |-> None]
    <3>1. /\ pc = "sent" /\ UNCHANGED user /\ log' \in {log, Append(log, entry)}
          /\ \/ pc' = "deleting"
             \/ pc' = "copy" /\ UNCHANGED steps
      BY <2>7 DEF MarkExecutable, RunChecked, Continue_
    <3>2. entry.word \in {"chmod", "chown"}
      OBVIOUS
    <3>. HIDE DEF entry
    <3>3. IsSequence(log') /\ Commands(log') = Commands(log)
      BY <1>3, <3>1, <3>2
    <3>. QED
      BY <2>1, <3>1, <3>3, QuietBuilt
  <2>8. CASE EndCopy
    <3>. DEFINE entry == [word |-> "chown", args |-> Dest.path, shell |-> None,
                          user |-> step.chown]
    <3>1. /\ pc = "copy" /\ UNCHANGED user /\ log' \in {log, Append(log, entry)}
          /\ \/ pc' = "deleting"
             \/ pc' = "step" /\ steps' = Tail(steps)
      BY <2>8 DEF EndCopy, RunChecked
    <3>2. entry.word \in {"chmod", "chown"}
      OBVIOUS
    <3>. HIDE DEF entry
    <3>3. IsSequence(log') /\ Commands(log') = Commands(log)
      BY <1>3, <3>1, <3>2
    <3>4. steps # <<>> /\ step.word = "COPY"
      BY <3>1 DEF StepsInv
    <3>5. ~Runs(step)
      BY <3>4 DEF Runs
    <3>6. CASE pc' = "deleting"
      BY <2>1, <3>3, <3>6, QuietBuilt
    <3>7. CASE pc' = "step" /\ steps' = Tail(steps)
      <4>1. pc \in {"step", "copy", "sent"} /\ user' = IF step.word = "USER" THEN step.args[1] ELSE user
        BY <3>1, <3>4
      <4>2. IsSequence(log')
        BY <3>3
      <4>. QED
        BY <2>1, <3>3, <3>4, <3>5, <3>7, <4>1, <4>2, StepBuilt
    <3>. QED
      BY <3>1, <3>6, <3>7
  <2>. QED
    BY <1>5, <2>2, <2>3, <2>4, <2>5, <2>6, <2>7, <2>8 DEF Apply
<1>6. CASE Forked
  <2>1. log = <<>> /\ user = None /\ UNCHANGED <<call, log, user>>
    BY <1>6 DEF Forked, BuiltInv
  <2>2. CASE call.dockerfile = None
    <3>1. pc' = "returned"
      BY <1>6, <2>2 DEF Forked
    <3>. QED
      BY <1>2, <2>1, <2>2, <3>1 DEF BuiltInv
  <2>3. CASE call.dockerfile # None
    <3>1. steps' = all /\ pc' = "step"
      BY <1>6, <2>3 DEF Forked
    <3>2. Len(all) \in Nat
      <4>1. call \in Calls
        BY DEF StepsInv
      <4>2. Counted(call.dockerfile)
            /\ \A k \in DOMAIN call.dockerfile : Counted(call.dockerfile[k].args)
        BY <2>3, <4>1, CallAssumption
      <4>3. IsProgram(all)
        BY <4>2, StepsProgram
      <4>. HIDE DEF all
      <4>. QED
        BY <4>3, LenProperties DEF IsProgram
    <3>. HIDE DEF all
    <3>3. Len(all) - Len(steps') = 0
      BY <3>1, <3>2
    <3>4. Commands(log') = <<>>
      BY <2>1, FlattenEmpty DEF Commands
    <3>5. UserAfter(all, 0) = None
      BY DEF UserAfter
    <3>6. Commands(log') = CommandsOf(all, 0) /\ user' = UserAfter(all, 0)
      BY <2>1, <3>4, <3>5, CommandsOfNone
    <3>. QED
      BY <1>2, <2>1, <3>1, <3>3, <3>6 DEF BuiltInv, all
  <2>. QED
    BY <2>2, <2>3
<1>7. CASE Finish
  <2>1. pc = "step" /\ steps = <<>> /\ pc' = "returned" /\ UNCHANGED <<call, log>>
    BY <1>7 DEF Finish
  <2>2. Len(all) - Len(steps) = Len(all)
    <3>1. IsProgram(all)
      BY <2>1, CallProgram
    <3>. HIDE DEF all
    <3>2. Len(all) \in Nat
      BY <3>1, LenProperties DEF IsProgram
    <3>. QED
      BY <2>1, <3>2
  <2>. QED
    BY <1>2, <2>1, <2>2 DEF BuiltInv
<1>8. CASE Refuse \/ ForkFails \/ Delete \/ DeleteFails \/ DeleteAgain
  BY <1>2, <1>8, QuietBuilt DEF Refuse, ForkFails, Delete, DeleteFails, DeleteAgain
<1>9. CASE UNCHANGED <<call, pc, steps, user, log>>
  BY <1>9 DEF BuiltInv
<1>10. ASSUME NEW p \in context.files, Vanish(p)
       PROVE  BuiltInv'
  BY <1>9, <1>10 DEF Vanish
<1>11. CASE UNCHANGED vars
  BY <1>9, <1>11 DEF vars
<1>. QED
  BY <1>5, <1>6, <1>7, <1>8, <1>10, <1>11 DEF Next, Build, Apply

-----------------------------------------------------------------------------
(* What the steps of a Dockerfile stand for.                               *)

(* What the steps t stand for, when u runs them.                           *)
Said(t, u) == FlattenSeq([n \in 1..Len(t) |-> IF Runs(t[n]) THEN <<Entry(t[n], u)>> ELSE <<>>])

(* The user after the steps s, and what they stand for, once others follow.*)
LEMMA UserBefore ==
  ASSUME NEW s, NEW v, NEW N \in Nat, NEW m \in 0..N, \A i \in 1..N : v[i] = s[i]
  PROVE  UserAfter(v, m) = UserAfter(s, m)
<1>. DEFINE said == {i \in 1..m : s[i].word = "USER"}
<1>1. said = {i \in 1..m : v[i].word = "USER"}
  OBVIOUS
<1>2. CASE said = {}
  BY <1>1, <1>2 DEF UserAfter
<1>3. CASE said # {}
  <2>1. Max(said) \in 1..N /\ m \in Nat
    <3>1. m \in Nat /\ said \subseteq 1..m
      OBVIOUS
    <3>. HIDE DEF said
    <3>2. Max(said) \in said
      BY <1>3, <3>1, Greatest
    <3>. QED
      BY <3>1, <3>2
  <2>2. v[Max(said)] = s[Max(said)]
    BY <2>1
  <2>. QED
    BY <1>1, <1>3, <2>2 DEF UserAfter
<1>. QED
  BY <1>2, <1>3

(* The M steps t, of which only the last may be a USER, after the N steps s.*)
Follow(v, s, N, t, M) ==
    /\ \A i \in 1..N : v[i] = s[i]
    /\ \A i \in 1..M : v[N + i] = t[i]
    /\ \A i \in 1..M : i < M => t[i].word # "USER"

UserStays(v, s, N, t, M) ==
    /\ \A m \in 1..M : UserAfter(v, (N + m) - 1) = UserAfter(s, N)
    /\ UserAfter(v, N + M) = IF M # 0 /\ t[M].word = "USER" THEN t[M].args[1]
                             ELSE UserAfter(s, N)

LEMMA UserWithin ==
  ASSUME NEW s, NEW t, NEW v, NEW N \in Nat, NEW M \in Nat, Follow(v, s, N, t, M)
  PROVE  UserStays(v, s, N, t, M)
<1>. USE DEF Follow, UserStays
<1>1. ASSUME NEW m \in 1..M
      PROVE  UserAfter(v, (N + m) - 1) = UserAfter(v, N)
  <2>1. \A i \in 1..(N + m) - 1 : v[i].word = "USER" => i \in 1..N
    <3>1. ASSUME NEW i \in 1..(N + m) - 1, i > N
          PROVE  v[i].word # "USER"
      <4>1. i - N \in 1..M /\ i - N < M /\ N + (i - N) = i
        BY <3>1
      <4>. QED
        BY <4>1
    <3>. QED
      BY <3>1
  <2>2. {i \in 1..(N + m) - 1 : v[i].word = "USER"} = {i \in 1..N : v[i].word = "USER"}
    BY <2>1
  <2>. QED
    BY <2>2 DEF UserAfter
<1>2. UserAfter(v, N) = UserAfter(s, N)
  BY UserBefore
<1>3. CASE M = 0
  BY <1>2, <1>3
<1>4. CASE M # 0
  <2>1. /\ (N + M) - 1 \in Nat /\ ((N + M) - 1) + 1 = N + M /\ M \in 1..M
    BY <1>4
  <2>2. UserAfter(v, N + M) = IF v[N + M].word = "USER" THEN v[N + M].args[1]
                              ELSE UserAfter(v, (N + M) - 1)
    BY <2>1, UserAfterStep
  <2>3. v[N + M] = t[M] /\ UserAfter(v, (N + M) - 1) = UserAfter(s, N)
    BY <1>1, <1>2, <2>1
  <2>4. CASE t[M].word = "USER"
    BY <1>1, <1>2, <1>4, <2>2, <2>3, <2>4
  <2>5. CASE t[M].word # "USER"
    BY <1>1, <1>2, <1>4, <2>2, <2>3, <2>5
  <2>. QED
    BY <2>4, <2>5
<1>. QED
  BY <1>1, <1>2, <1>3, <1>4

(* What two sequences joined hold.                                         *)
LEMMA SequencesJoined ==
  ASSUME NEW s, NEW t, IsSequence(s), IsSequence(t)
  PROVE  /\ Len(s) \in Nat /\ Len(t) \in Nat /\ Len(s \o t) = Len(s) + Len(t)
         /\ \A i \in 1..Len(s) : (s \o t)[i] = s[i]
         /\ \A i \in 1..Len(t) : (s \o t)[Len(s) + i] = t[i]
<1>. DEFINE S == {s[n] : n \in DOMAIN s}
            T == {t[n] : n \in DOMAIN t}
            v == s \o t
            N == Len(s)
            M == Len(t)
<1>1. s \in Seq(S) /\ t \in Seq(T) /\ S \subseteq S \cup T /\ T \subseteq S \cup T
  BY DEF IsSequence
<1>. HIDE DEF S, T
<1>2. s \in Seq(S \cup T) /\ t \in Seq(S \cup T)
  BY <1>1, SeqMonotonic
<1>. HIDE DEF v
<1>3. N \in Nat /\ M \in Nat
  BY <1>2, LenProperties
<1>4. Len(v) = N + M /\ \A i \in 1..N + M : v[i] = IF i <= N THEN s[i] ELSE t[i - N]
  BY <1>2, ConcatProperties DEF v
<1>5. \A i \in 1..N : i \in 1..N + M /\ i <= N
  BY <1>3
<1>6. \A i \in 1..M : N + i \in 1..N + M /\ ~(N + i <= N) /\ (N + i) - N = i
  BY <1>3
<1>7. Len(v) = N + M /\ (\A i \in 1..N : v[i] = s[i]) /\ (\A i \in 1..M : v[N + i] = t[i])
  BY <1>3, <1>4, <1>5, <1>6
<1>. QED
  BY <1>3, <1>7 DEF v

(* What s and then t stand for.                                            *)
LEMMA CommandsConcat ==
  ASSUME NEW s, NEW t, IsSequence(s), IsSequence(t),
         \A i \in 1..Len(t) : i < Len(t) => t[i].word # "USER"
  PROVE  /\ CommandsOf(s \o t, Len(s \o t)) = CommandsOf(s, Len(s)) \o Said(t, UserAfter(s, Len(s)))
         /\ UserAfter(s \o t, Len(s \o t)) =
                IF Len(t) # 0 /\ t[Len(t)].word = "USER" THEN t[Len(t)].args[1]
                ELSE UserAfter(s, Len(s))
<1>. DEFINE v == s \o t
            N == Len(s)
            M == Len(t)
            u == UserAfter(s, N)
<1>1. /\ N \in Nat /\ M \in Nat /\ Len(v) = N + M
      /\ \A i \in 1..N : v[i] = s[i]
      /\ \A i \in 1..M : v[N + i] = t[i]
  BY SequencesJoined
<1>. HIDE DEF v, N, M
<1>2. /\ \A m \in 1..M : UserAfter(v, (N + m) - 1) = u
      /\ UserAfter(v, N + M) = IF M # 0 /\ t[M].word = "USER" THEN t[M].args[1] ELSE u
  <2>1. \A i \in 1..M : i < M => t[i].word # "USER"
    BY DEF M
  <2>2. N \in Nat /\ M \in Nat /\ Follow(v, s, N, t, M)
    BY <1>1, <2>1 DEF Follow
  <2>. HIDE DEF u
  <2>3. UserStays(v, s, N, t, M)
    BY <2>2, UserWithin
  <2>. QED
    BY <2>3 DEF u, UserStays
<1>3. \A m \in 1..N : UserAfter(v, m - 1) = UserAfter(s, m - 1)
  <2>1. \A m \in 1..N : m - 1 \in 0..N
    BY <1>1
  <2>. QED
    BY <1>1, <2>1, UserBefore
<1>. DEFINE f == [m \in 1..N |-> Piece(s, m)]
            g == [m \in 1..M |-> IF Runs(t[m]) THEN <<Entry(t[m], u)>> ELSE <<>>]
            h == [m \in 1..N + M |-> Piece(v, m)]
            P == {Entry(s[m], UserAfter(s, m - 1)) : m \in 1..N} \cup {Entry(t[m], u) : m \in 1..M}
<1>. HIDE DEF u
<1>4. f \in Seq(Seq(P)) /\ Len(f) = N
  <2>1. \A m \in 1..N : Piece(s, m) \in Seq(P)
    <3>1. \A m \in 1..N : Entry(s[m], UserAfter(s, m - 1)) \in P
      OBVIOUS
    <3>. HIDE DEF P
    <3>2. ASSUME NEW m \in 1..N PROVE Piece(s, m) \in Seq(P)
      <4>1. Piece(s, m) \in {<<>>, <<Entry(s[m], UserAfter(s, m - 1))>>}
        BY DEF Piece
      <4>2. Entry(s[m], UserAfter(s, m - 1)) \in P
        BY <3>1
      <4>3. CASE Piece(s, m) = <<>>
        BY <4>3, EmptySeq
      <4>4. CASE Piece(s, m) = <<Entry(s[m], UserAfter(s, m - 1))>>
        BY <4>2, <4>4
      <4>. QED
        BY <4>1, <4>3, <4>4
    <3>. QED
      BY <3>2
  <2>. HIDE DEF P
  <2>2. f \in [1..N -> Seq(P)]
    BY <2>1
  <2>. DEFINE Q == Seq(P)
  <2>3. f \in [1..N -> Q]
    BY <2>2
  <2>. HIDE DEF f, Q
  <2>4. f \in Seq(Q) /\ Len(f) = N
    BY <1>1, <2>3, SeqDef
  <2>. QED
    BY <2>4 DEF Q
<1>5. g \in Seq(Seq(P)) /\ Len(g) = M
  <2>. DEFINE piece(m) == IF Runs(t[m]) THEN <<Entry(t[m], u)>> ELSE <<>>
  <2>1. \A m \in 1..M : piece(m) \in Seq(P)
    <3>1. \A m \in 1..M : Entry(t[m], u) \in P
      OBVIOUS
    <3>. HIDE DEF P
    <3>2. ASSUME NEW m \in 1..M PROVE piece(m) \in Seq(P)
      <4>1. piece(m) \in {<<>>, <<Entry(t[m], u)>>}
        OBVIOUS
      <4>2. Entry(t[m], u) \in P
        BY <3>1
      <4>. HIDE DEF piece
      <4>3. CASE piece(m) = <<>>
        BY <4>3, EmptySeq
      <4>4. CASE piece(m) = <<Entry(t[m], u)>>
        BY <4>2, <4>4
      <4>. QED
        BY <4>1, <4>3, <4>4
    <3>. QED
      BY <3>2
  <2>. HIDE DEF P
  <2>. DEFINE Q == Seq(P)
  <2>2. g \in [1..M -> Q]
    <3>1. g = [m \in 1..M |-> piece(m)]
      OBVIOUS
    <3>. HIDE DEF g, piece
    <3>. QED
      BY <2>1, <3>1
  <2>. HIDE DEF g, Q
  <2>3. g \in Seq(Q) /\ Len(g) = M
    BY <1>1, <2>2, SeqDef
  <2>. QED
    BY <2>3 DEF Q
<1>6. \A m \in 1..N : h[m] = f[m]
  <2>1. ASSUME NEW m \in 1..N PROVE Piece(v, m) = Piece(s, m)
    <3>1. v[m] = s[m] /\ UserAfter(v, m - 1) = UserAfter(s, m - 1)
      BY <1>1, <1>3
    <3>. QED
      BY <3>1 DEF Piece
  <2>2. \A m \in 1..N : m \in 1..N + M
    BY <1>1
  <2>. QED
    BY <2>1, <2>2
<1>7. \A m \in 1..M : h[N + m] = g[m]
  <2>1. ASSUME NEW m \in 1..M PROVE Piece(v, N + m) = g[m]
    <3>1. v[N + m] = t[m] /\ UserAfter(v, (N + m) - 1) = u
      BY <1>1, <1>2
    <3>2. g[m] = IF Runs(t[m]) THEN <<Entry(t[m], u)>> ELSE <<>>
      OBVIOUS
    <3>3. Piece(v, N + m) = IF Runs(v[N + m]) THEN <<Entry(v[N + m], UserAfter(v, (N + m) - 1))>>
                            ELSE <<>>
      BY DEF Piece
    <3>. HIDE DEF g
    <3>. QED
      BY <3>1, <3>2, <3>3
  <2>2. \A m \in 1..M : N + m \in 1..N + M
    BY <1>1
  <2>. QED
    BY <2>1, <2>2
<1>8. h = f \o g
  <2>1. \A m \in 1..N + M : h[m] = IF m <= N THEN f[m] ELSE g[m - N]
    <3>1. ASSUME NEW m \in 1..N + M PROVE h[m] = IF m <= N THEN f[m] ELSE g[m - N]
      <4>1. CASE m <= N
        <5>1. m \in 1..N
          BY <1>1, <4>1
        <5>. HIDE DEF h, f, g
        <5>. QED
          BY <1>6, <4>1, <5>1
      <4>2. CASE ~(m <= N)
        <5>1. m - N \in 1..M /\ N + (m - N) = m
          BY <1>1, <4>2
        <5>. HIDE DEF h, f, g
        <5>. QED
          BY <1>7, <4>2, <5>1
      <4>. QED
        BY <4>1, <4>2
    <3>. QED
      BY <3>1
  <2>. DEFINE Q == Seq(P)
              w == f \o g
  <2>2. f \in Seq(Q) /\ g \in Seq(Q)
    BY <1>4, <1>5
  <2>. HIDE DEF f, g, Q
  <2>3. w \in Seq(Q) /\ Len(w) = N + M
        /\ \A m \in 1..N + M : w[m] = IF m <= N THEN f[m] ELSE g[m - N]
    BY <1>4, <1>5, <2>2, ConcatProperties
  <2>. HIDE DEF w
  <2>4. w = [m \in 1..N + M |-> w[m]]
    BY <1>1, <2>3, LenProperties
  <2>5. h = [m \in 1..N + M |-> h[m]]
    OBVIOUS
  <2>. HIDE DEF h
  <2>6. \A m \in 1..N + M : h[m] = w[m]
    BY <2>1, <2>3
  <2>7. h = w
    BY <2>4, <2>5, <2>6
  <2>. QED
    BY <2>7 DEF w
<1>9. FlattenSeq(h) = FlattenSeq(f) \o FlattenSeq(g)
  <2>. HIDE DEF h, f, g, P
  <2>. QED
    BY <1>4, <1>5, <1>8, FlattenConcat
<1>10. /\ FlattenSeq(h) = CommandsOf(v, N + M)
       /\ FlattenSeq(f) = CommandsOf(s, N)
       /\ FlattenSeq(g) = Said(t, u)
  BY DEF CommandsOf, Said, M
<1>. HIDE DEF h, f, g
<1>11. CommandsOf(v, N + M) = CommandsOf(s, N) \o Said(t, u)
  BY <1>9, <1>10
<1>12. Len(v) = N + M
  BY <1>1
<1>13. CommandsOf(v, Len(v)) = CommandsOf(s, N) \o Said(t, u)
  BY <1>11, <1>12
<1>14. UserAfter(v, Len(v)) = IF M # 0 /\ t[M].word = "USER" THEN t[M].args[1] ELSE u
  BY <1>2, <1>12
<1>. QED
  BY <1>13, <1>14 DEF v, N, M, u

(* What an instruction stands for under this interpreter and user.         *)
Wanted(i, shell, u) ==
    LET InSession(args) == [word |-> i.word, args |-> args, shell |-> None, user |-> None]
    IN  CASE i.word = "RUN" ->
               <<[word |-> "RUN", args |-> i.args, shell |-> IF i.exec THEN None ELSE shell,
                  user |-> u]>>
          [] i.word \in {"ENV", "WORKDIR"} -> <<InSession(i.args)>>
          [] i.word = "ARG" ->
               FlattenSeq([n \in DOMAIN i.args |-> IF i.args[n].default = None THEN <<>>
                                                   ELSE <<InSession(<<i.args[n]>>)>>])
          [] OTHER -> <<>>

(* One step stands for a command or for nothing.                           *)
LEMMA SaidOne ==
  ASSUME NEW x, NEW u
  PROVE  Said(<<x>>, u) = IF Runs(x) THEN <<Entry(x, u)>> ELSE <<>>
<1>. DEFINE part(y) == IF Runs(y) THEN <<Entry(y, u)>> ELSE <<>>
            f == [n \in 1..Len(<<x>>) |-> part(<<x>>[n])]
<1>1. part(x) \in Seq({Entry(x, u)})
  <2>1. CASE Runs(x)
    BY <2>1
  <2>2. CASE ~Runs(x)
    BY <2>2, EmptySeq
  <2>. QED
    BY <2>1, <2>2
<1>2. Said(<<x>>, u) = FlattenSeq(f)
  BY DEF Said
<1>. HIDE DEF part
<1>3. f = <<part(x)>>
  <2>1. Len(<<x>>) = 1 /\ <<x>>[1] = x
    OBVIOUS
  <2>2. f = [n \in 1..1 |-> part(x)]
    BY <2>1
  <2>. HIDE DEF f
  <2>. QED
    BY <2>2
<1>4. Said(<<x>>, u) = part(x)
  <2>. HIDE DEF f
  <2>. QED
    BY <1>1, <1>2, <1>3, FlattenOne
<1>. QED
  BY <1>4 DEF part

(* The steps of an instruction stand for what it does.                     *)
LEMMA SaidIsWanted ==
  ASSUME NEW i, NEW shell, NEW u, Counted(i.args)
  PROVE  Said(StepsOf(i, shell), u) = Wanted(i, shell, u)
<1>. DEFINE Step(args) == [word |-> i.word, args |-> args, chown |-> i.chown,
                           checksum |-> i.checksum, shell |-> CommandLine(i, shell)]
            InSession(args) == [word |-> i.word, args |-> args, shell |-> None, user |-> None]
<1>1. CASE i.word \in {"FROM", "SHELL"}
  <2>1. StepsOf(i, shell) = <<>> /\ Wanted(i, shell, u) = <<>>
    BY <1>1 DEF StepsOf, Wanted
  <2>2. Said(<<>>, u) = <<>>
    BY FlattenEmpty DEF Said
  <2>. QED
    BY <2>1, <2>2
<1>2. CASE i.word = "ARG"
  <2>. DEFINE t == [n \in DOMAIN i.args |-> Step(<<i.args[n]>>)]
              f == [n \in 1..Len(t) |-> IF Runs(t[n]) THEN <<Entry(t[n], u)>> ELSE <<>>]
              g == [n \in DOMAIN i.args |-> IF i.args[n].default = None THEN <<>>
                                            ELSE <<InSession(<<i.args[n]>>)>>]
  <2>1. StepsOf(i, shell) = t /\ Wanted(i, shell, u) = FlattenSeq(g)
    BY <1>2 DEF StepsOf, Wanted
  <2>2. DOMAIN i.args = 1..Len(i.args) /\ Len(i.args) \in Nat
    BY DEF Counted
  <2>3. Len(t) = Len(i.args)
    <3>1. t \in Seq({t[n] : n \in DOMAIN t}) /\ DOMAIN t = 1..Len(i.args)
      <4>1. IsProgram(t)
        BY <2>1, StepsOfProgram
      <4>. HIDE DEF Step
      <4>2. DOMAIN t = 1..Len(i.args)
        BY <2>2
      <4>. HIDE DEF t
      <4>. QED
        BY <4>1, <4>2 DEF IsProgram
    <3>. HIDE DEF t
    <3>. QED
      BY <2>2, <3>1, LenProperties
  <2>4. ASSUME NEW n \in DOMAIN i.args
        PROVE  (IF Runs(t[n]) THEN <<Entry(t[n], u)>> ELSE <<>>) = g[n]
    <3>. DEFINE x == t[n]
    <3>1. x = Step(<<i.args[n]>>)
      OBVIOUS
    <3>2. x.word = "ARG" /\ x.args = <<i.args[n]>> /\ x.shell = None /\ x.args[1] = i.args[n]
      BY <1>2, <3>1 DEF CommandLine
    <3>3. g[n] = IF i.args[n].default = None THEN <<>> ELSE <<InSession(<<i.args[n]>>)>>
      OBVIOUS
    <3>. HIDE DEF x, t, g
    <3>4. CASE i.args[n].default = None
      <4>1. ~Runs(x)
        BY <3>2, <3>4 DEF Runs
      <4>. QED
        BY <3>3, <3>4, <4>1 DEF x
    <3>5. CASE i.args[n].default # None
      <4>1. Runs(x)
        BY <3>2, <3>5 DEF Runs
      <4>2. Entry(x, u) = InSession(<<i.args[n]>>)
        BY <1>2, <3>2 DEF Entry
      <4>. QED
        BY <3>3, <3>5, <4>1, <4>2 DEF x
    <3>. QED
      BY <3>4, <3>5
  <2>5. f = g
    <3>. HIDE DEF Step, InSession
    <3>. QED
      BY <2>2, <2>3, <2>4
  <2>6. Said(t, u) = FlattenSeq(f)
    BY DEF Said
  <2>. HIDE DEF t, f, g
  <2>. QED
    BY <2>1, <2>5, <2>6
<1>3. CASE i.word \notin {"FROM", "SHELL", "ARG"}
  <2>. DEFINE x == Step(i.args)
  <2>1. StepsOf(i, shell) = <<x>>
    BY <1>3 DEF StepsOf
  <2>2. x.word = i.word /\ x.args = i.args /\ x.shell = CommandLine(i, shell)
    OBVIOUS
  <2>. HIDE DEF x
  <2>3. Said(<<x>>, u) = IF Runs(x) THEN <<Entry(x, u)>> ELSE <<>>
    BY SaidOne
  <2>4. CASE i.word = "RUN"
    <3>1. Runs(x)
      BY <2>2, <2>4 DEF Runs
    <3>2. Entry(x, u) = [word |-> "RUN", args |-> i.args,
                         shell |-> IF i.exec THEN None ELSE shell, user |-> u]
      BY <2>2, <2>4 DEF Entry, CommandLine
    <3>3. Wanted(i, shell, u) = <<[word |-> "RUN", args |-> i.args,
                                   shell |-> IF i.exec THEN None ELSE shell, user |-> u]>>
      BY <2>4 DEF Wanted
    <3>. QED
      BY <2>1, <2>3, <3>1, <3>2, <3>3
  <2>5. CASE i.word \in {"ENV", "WORKDIR"}
    <3>1. Runs(x)
      BY <2>2, <2>5 DEF Runs
    <3>2. Entry(x, u) = InSession(i.args)
      BY <2>2, <2>5 DEF Entry, CommandLine
    <3>3. Wanted(i, shell, u) = <<InSession(i.args)>>
      BY <2>5 DEF Wanted
    <3>. QED
      BY <2>1, <2>3, <3>1, <3>2, <3>3
  <2>6. CASE i.word \notin {"RUN", "ENV", "WORKDIR"}
    <3>1. ~Runs(x)
      BY <1>3, <2>2, <2>6 DEF Runs
    <3>2. Wanted(i, shell, u) = <<>>
      BY <1>3, <2>6 DEF Wanted
    <3>. QED
      BY <2>1, <2>3, <3>1, <3>2
  <2>. QED
    BY <2>4, <2>5, <2>6
<1>. QED
  BY <1>1, <1>2, <1>3

(* The last instruction before the next but one.                           *)
LEMMA LastBeforeStep ==
  ASSUME NEW word, NEW k \in Nat \ {0}
  PROVE  LastBefore(word, k + 1) = IF call.dockerfile[k].word = word THEN call.dockerfile[k].args
                                   ELSE LastBefore(word, k)
<1>. DEFINE said(n) == {j \in 1..n - 1 : call.dockerfile[j].word = word}
<1>1. CASE call.dockerfile[k].word = word
  <2>1. k \in said(k + 1) /\ said(k + 1) \subseteq 1..k
    BY <1>1
  <2>. HIDE DEF said
  <2>2. Max(said(k + 1)) = k /\ said(k + 1) # {}
    <3>1. Max(said(k + 1)) \in 1..k /\ k <= Max(said(k + 1))
      BY <2>1, Greatest
    <3>. QED
      BY <2>1, <3>1
  <2>. QED
    BY <1>1, <2>2 DEF LastBefore, said
<1>2. CASE call.dockerfile[k].word # word
  <2>1. said(k + 1) = said(k)
    BY <1>2
  <2>. QED
    BY <1>2, <2>1 DEF LastBefore
<1>. QED
  BY <1>1, <1>2

LEMMA SaidType ==
  ASSUME NEW t, IsSequence(t), NEW u
  PROVE  IsSequence(Said(t, u))
<1>. DEFINE part(y) == IF Runs(y) THEN <<Entry(y, u)>> ELSE <<>>
            M == Len(t)
            P == {Entry(t[n], u) : n \in 1..M}
            Q == Seq(P)
            f == [n \in 1..M |-> part(t[n])]
<1>1. M \in Nat
  <2>. DEFINE T == {t[n] : n \in DOMAIN t}
  <2>1. t \in Seq(T)
    BY DEF IsSequence
  <2>. HIDE DEF T
  <2>. QED
    BY <2>1, LenProperties
<1>2. ASSUME NEW n \in 1..M PROVE part(t[n]) \in Q
  <2>1. Entry(t[n], u) \in P
    OBVIOUS
  <2>. HIDE DEF P
  <2>2. CASE Runs(t[n])
    BY <2>1, <2>2
  <2>3. CASE ~Runs(t[n])
    BY <2>3, EmptySeq
  <2>. QED
    BY <2>2, <2>3
<1>3. Said(t, u) = FlattenSeq(f)
  BY DEF Said
<1>. HIDE DEF part, Q, M
<1>4. f \in [1..M -> Q]
  BY <1>2
<1>. HIDE DEF f
<1>5. f \in Seq(Q)
  BY <1>1, <1>4, SeqDef
<1>6. f \in Seq(Seq(P))
  BY <1>5 DEF Q
<1>. HIDE DEF P
<1>7. Said(t, u) \in Seq(P)
  BY <1>3, <1>6, FlattenType
<1>. QED
  BY <1>7, OwnRange

(* What a Dockerfile says is what its steps stand for.                     *)
LEMMA StepsStandFor ==
  ASSUME call \in Calls, call.dockerfile # None
  PROVE  CommandsOf(Steps(call.dockerfile), Len(Steps(call.dockerfile))) =
             FlattenSeq([k \in DOMAIN call.dockerfile |-> Expected(k)])
<1>. DEFINE d == call.dockerfile
            N == Len(d)
            U(k) == LET w == LastBefore("USER", k) IN IF w = None THEN None ELSE w[1]
<1>1. /\ N \in Nat /\ DOMAIN d = 1..N
      /\ \A k \in 1..N : Counted(d[k].args) /\ d[k].args # None
  <2>1. Counted(d) /\ \A k \in DOMAIN d : Counted(d[k].args) /\ d[k].args # None
    BY CallAssumption
  <2>. QED
    BY <2>1 DEF Counted
<1>2. PICK f : ReadsTo(d, f, N) /\ Steps(d) = f[N].steps
  BY <1>1, StepsLoop
<1>. HIDE DEF N
<1>3. /\ f[0] = [shell |-> None, steps |-> <<>>]
      /\ \A k \in 0..N : k # N => f[k + 1] = Read(d[k + 1], f[k])
  <2>1. 0 \in 0..N /\ \A k \in 0..N : k # N => k + 1 \in 0..N /\ k + 1 # 0 /\ (k + 1) - 1 = k
    BY <1>1
  <2>. QED
    BY <1>2, <2>1 DEF ReadsTo
<1>4. \A k \in 1..N : Expected(k) = Wanted(d[k], LastBefore("SHELL", k), U(k))
  BY DEF Expected, Wanted
<1>. DEFINE P == UNION {{Expected(k)[m] : m \in DOMAIN Expected(k)} : k \in 1..N}
<1>5. \A k \in 1..N : Expected(k) \in Seq(P)
  <2>1. ASSUME NEW k \in 1..N PROVE Expected(k) \in Seq(P)
    <3>. DEFINE t == StepsOf(d[k], LastBefore("SHELL", k))
                E == {Expected(k)[m] : m \in DOMAIN Expected(k)}
    <3>. HIDE DEF U
    <3>1. IsSequence(t)
      <4>1. IsProgram(t)
        BY <1>1, StepsOfProgram
      <4>. HIDE DEF t
      <4>. QED
        BY <4>1 DEF IsProgram, IsSequence
    <3>2. Expected(k) = Said(t, U(k))
      BY <1>1, <1>4, SaidIsWanted
    <3>3. IsSequence(Expected(k))
      <4>. HIDE DEF t
      <4>. QED
        BY <3>1, <3>2, SaidType
    <3>4. Expected(k) \in Seq(E) /\ E \subseteq P
      BY <3>3 DEF IsSequence
    <3>. HIDE DEF E, P
    <3>. QED
      BY <3>4, SeqMonotonic
  <2>. QED
    BY <2>1
<1>. HIDE DEF P
<1>. DEFINE e(n) == [k \in 1..n |-> Expected(k)]
            StandsFor(n) ==
              LET s == f[n].steps
              IN  /\ IsProgram(s)
                  /\ f[n].shell = LastBefore("SHELL", n + 1)
                  /\ UserAfter(s, Len(s)) = U(n + 1)
                  /\ CommandsOf(s, Len(s)) = FlattenSeq(e(n))
            S == {n \in Nat : n \in 0..N => StandsFor(n)}
<1>6. 0 \in S
  <2>1. f[0].steps = <<>> /\ f[0].shell = None /\ Len(<<>>) = 0
    BY <1>3
  <2>2. \A word : LastBefore(word, 0 + 1) = None
    BY DEF LastBefore
  <2>3. UserAfter(<<>>, 0) = None
    BY DEF UserAfter
  <2>4. CommandsOf(<<>>, 0) = <<>>
    BY CommandsOfNone
  <2>5. FlattenSeq(e(0)) = <<>>
    <3>1. e(0) = <<>>
      OBVIOUS
    <3>. QED
      BY <3>1, FlattenEmpty
  <2>6. U(0 + 1) = None
    BY <2>2
  <2>. HIDE DEF U, e
  <2>. QED
    BY <2>1, <2>2, <2>3, <2>4, <2>5, <2>6, EmptyProgram
<1>7. ASSUME NEW n \in Nat, n \in S
      PROVE  n + 1 \in S
  <2>1. SUFFICES ASSUME n + 1 \in 0..N PROVE StandsFor(n + 1)
    OBVIOUS
  <2>2. n \in 0..N /\ n # N /\ n + 1 \in 1..N /\ n + 1 \in Nat \ {0}
    BY <1>1, <2>1
  <2>. DEFINE i == d[n + 1]
              s == f[n].steps
              t == StepsOf(i, f[n].shell)
  <2>3. StandsFor(n)
    BY <1>7, <2>2
  <2>4. f[n + 1].steps = s \o t
        /\ f[n + 1].shell = IF i.word = "SHELL" THEN i.args ELSE f[n].shell
    <3>1. f[n + 1] = Read(i, f[n])
      BY <1>3, <2>2
    <3>. HIDE DEF i
    <3>2. Read(i, f[n]).steps = s \o t
          /\ Read(i, f[n]).shell = IF i.word = "SHELL" THEN i.args ELSE f[n].shell
      BY DEF Read
    <3>. QED
      BY <3>1, <3>2
  <2>5. IsProgram(s) /\ IsProgram(t) /\ IsProgram(s \o t)
    <3>1. IsProgram(s) /\ IsProgram(t)
      BY <1>1, <2>2, <2>3, StepsOfProgram
    <3>. HIDE DEF t, s
    <3>. QED
      BY <3>1, ProgramConcat
  <2>6. f[n + 1].shell = LastBefore("SHELL", (n + 1) + 1)
    BY <2>2, <2>3, <2>4, LastBeforeStep
  <2>7. \A m \in 1..Len(t) : /\ m < Len(t) => t[m].word # "USER"
                             /\ t[m].word = "USER" => i.word = "USER"
    <3>. HIDE DEF i
    <3>1. CASE i.word \in {"FROM", "SHELL"}
      <4>1. t = <<>>
        BY <3>1 DEF StepsOf
      <4>. QED
        BY <4>1
    <3>2. CASE i.word = "ARG"
      <4>1. Len(t) \in Nat /\ DOMAIN t = 1..Len(t)
        <5>. HIDE DEF t
        <5>. QED
          BY <2>5, LenProperties DEF IsProgram
      <4>2. \A m \in DOMAIN t : t[m].word = "ARG"
        BY <3>2 DEF StepsOf
      <4>. HIDE DEF t
      <4>. QED
        BY <4>1, <4>2
    <3>3. CASE i.word \notin {"FROM", "SHELL", "ARG"}
      <4>1. Len(t) = 1 /\ t[1].word = i.word
        BY <3>3 DEF StepsOf
      <4>. HIDE DEF t
      <4>. QED
        BY <4>1
    <3>. QED
      BY <3>1, <3>2, <3>3
  <2>8. i.word = "USER" => Len(t) = 1 /\ t[1].word = "USER" /\ t[1].args = i.args
    <3>. HIDE DEF i
    <3>. QED
      BY DEF StepsOf
  <2>9. /\ CommandsOf(s \o t, Len(s \o t)) = CommandsOf(s, Len(s)) \o Said(t, UserAfter(s, Len(s)))
        /\ UserAfter(s \o t, Len(s \o t)) =
               IF Len(t) # 0 /\ t[Len(t)].word = "USER" THEN t[Len(t)].args[1]
               ELSE UserAfter(s, Len(s))
    <3>1. IsSequence(s) /\ IsSequence(t)
      BY <2>5 DEF IsProgram, IsSequence
    <3>2. \A m \in 1..Len(t) : m < Len(t) => t[m].word # "USER"
      BY <2>7
    <3>. HIDE DEF s, t
    <3>. QED
      BY <3>1, <3>2, CommandsConcat
  <2>10. UserAfter(s \o t, Len(s \o t)) = U((n + 1) + 1)
    <3>1. LastBefore("USER", (n + 1) + 1) = IF i.word = "USER" THEN i.args ELSE LastBefore("USER", n + 1)
      BY <2>2, LastBeforeStep
    <3>2. CASE i.word = "USER"
      <4>1. UserAfter(s \o t, Len(s \o t)) = i.args[1]
        <5>. HIDE DEF s, t, i
        <5>1. Len(t) = 1 /\ t[1].word = "USER" /\ t[1].args = i.args
          BY <2>8, <3>2
        <5>2. Len(t) # 0 /\ t[Len(t)].word = "USER" /\ t[Len(t)].args = i.args
          BY <5>1
        <5>. QED
          BY <2>9, <5>2
      <4>2. i.args # None
        BY <1>1, <2>2
      <4>3. U((n + 1) + 1) = i.args[1]
        <5>. HIDE DEF i
        <5>. QED
          BY <3>1, <3>2, <4>2
      <4>. QED
        BY <4>1, <4>3
    <3>3. CASE i.word # "USER"
      <4>1. ~(Len(t) # 0 /\ t[Len(t)].word = "USER")
        <5>1. Len(t) \in Nat
          <6>. HIDE DEF t
          <6>. QED
            BY <2>5, LenProperties DEF IsProgram
        <5>. HIDE DEF t, i
        <5>. QED
          BY <2>7, <3>3, <5>1
      <4>2. UserAfter(s \o t, Len(s \o t)) = UserAfter(s, Len(s))
        <5>. HIDE DEF s, t
        <5>. QED
          BY <2>9, <4>1
      <4>3. U((n + 1) + 1) = U(n + 1)
        BY <3>1, <3>3
      <4>. QED
        BY <2>3, <4>2, <4>3
    <3>. QED
      BY <3>2, <3>3
  <2>11. Said(t, UserAfter(s, Len(s))) = Expected(n + 1)
    <3>1. /\ f[n].shell = LastBefore("SHELL", n + 1)
          /\ UserAfter(s, Len(s)) = U(n + 1)
      BY <2>3
    <3>2. Counted(i.args)
      BY <1>1, <2>2
    <3>3. Expected(n + 1) = Wanted(i, LastBefore("SHELL", n + 1), U(n + 1))
      BY <1>4, <2>2
    <3>. HIDE DEF i, U, s
    <3>. QED
      BY <3>1, <3>2, <3>3, SaidIsWanted
  <2>12. FlattenSeq(e(n + 1)) = FlattenSeq(e(n)) \o Expected(n + 1)
    <3>. DEFINE Q == Seq(P)
    <3>1. \A k \in 1..n + 1 : Expected(k) \in Q
      BY <1>1, <1>5, <2>2
    <3>2. Expected(n + 1) \in Q /\ \A k \in 1..n : k \in 1..n + 1
      BY <3>1
    <3>. HIDE DEF Q
    <3>3. e(n) \in [1..n -> Q] /\ e(n + 1) \in [1..n + 1 -> Q]
          /\ e(n + 1)[n + 1] = Expected(n + 1) /\ \A k \in 1..n : e(n + 1)[k] = e(n)[k]
      BY <3>1, <3>2
    <3>. HIDE DEF e
    <3>4. e(n) \in Seq(Q) /\ e(n + 1) = e(n) \o <<Expected(n + 1)>>
      BY <3>3, Extend
    <3>5. e(n) \in Seq(Seq(P)) /\ Expected(n + 1) \in Seq(P)
      BY <3>2, <3>4 DEF Q
    <3>. QED
      BY <3>4, <3>5, FlattenAppend
  <2>13. CommandsOf(s \o t, Len(s \o t)) = FlattenSeq(e(n + 1))
    <3>1. CommandsOf(s, Len(s)) = FlattenSeq(e(n))
      BY <2>3
    <3>. HIDE DEF s, t, e
    <3>. QED
      BY <2>9, <2>11, <2>12, <3>1
  <2>. HIDE DEF s, t, e, U
  <2>. QED
    BY <2>4, <2>5, <2>6, <2>10, <2>13
<1>8. Nat \subseteq S
  <2>. HIDE DEF S
  <2>. QED
    BY <1>6, <1>7, Induct
<1>9. StandsFor(N)
  <2>1. N \in 0..N /\ N \in S
    BY <1>1, <1>8
  <2>. HIDE DEF StandsFor
  <2>. QED
    BY <1>1, <2>1
<1>. QED
  BY <1>1, <1>2, <1>9

(* What has run is what the steps that are gone stand for.                 *)
THEOREM BuiltInductive == Spec => [](StepsInv /\ BuiltInv)
<1>. QED
  BY InitSteps, NextSteps, InitBuilt, NextBuilt, PTL DEF Spec

(* A returned machine has run every command after the FROM that its        *)
(* Dockerfile begins with, once, in its order, as its user and under its   *)
(* shell, and no other (buildSpec.ts, parseDockerfile; build.ts,           *)
(* applySteps).                                                            *)
THEOREM BuiltCorrect == Spec => []BuiltAsWritten
<1>1. StepsInv /\ BuiltInv => BuiltAsWritten
  <2>. SUFFICES ASSUME StepsInv, BuiltInv, pc = "returned", call.dockerfile # None
                PROVE  Commands(log) = FlattenSeq([k \in DOMAIN call.dockerfile |-> Expected(k)])
    BY DEF BuiltAsWritten
  <2>1. call \in Calls
    BY DEF StepsInv
  <2>2. Commands(log) = CommandsOf(Steps(call.dockerfile), Len(Steps(call.dockerfile)))
    BY DEF BuiltInv
  <2>. QED
    BY <2>1, <2>2, StepsStandFor
<1>. QED
  BY <1>1, BuiltInductive, PTL

-----------------------------------------------------------------------------
(* What has arrived.                                                       *)

(* In a context that lost nothing a COPY lists each source it is to        *)
(* transfer, and takes them for several if they are.                       *)
LEMMA ResolvedLists ==
  ASSUME context \in Contexts, gone = {}, NEW args, Len(args) \in Nat,
         \A n \in DOMAIN Front(args) : Resolves(Present, Front(args)[n])
  PROVE  LET names == NotExcluded(Names(args))
             list == Resolved(Present, Front(args))
         IN  /\ \A name \in names : \E i \in DOMAIN list : list[i] = Source(name)
             /\ Len(list) > 1 <=> Several(names)
<1>. DEFINE names == NotExcluded(Names(args))
            sources == Front(args)
            keeps(n) == Kept(Present, sources[n])
            found(n) == SetToSeq(keeps(n))
            part(n) == [m \in DOMAIN found(n) |-> Real(Present, found(n)[m])]
            parts == [n \in DOMAIN sources |-> part(n)]
            P == {Real(Present, p) : p \in UNION {keeps(n) : n \in DOMAIN sources}}
<1>1. Len(sources) \in Nat /\ DOMAIN sources = 1..Len(sources)
  BY SourcesType, LenProperties
<1>2. \A name : name \in names <=>
          \E n \in DOMAIN sources : \E p \in keeps(n) : name = <<n, p>>
  <2>1. \A n : keeps(n) = {p \in Matched(context, sources[n]) : ~Excluded(Real(context, p))}
    BY PresentWhole
  <2>. HIDE DEF keeps, sources
  <2>2. \A name : name \in Names(args) <=>
            \E n \in DOMAIN sources : \E p \in Matched(context, sources[n]) : name = <<n, p>>
    BY DEF Names, sources
  <2>. QED
    BY <2>1, <2>2 DEF NotExcluded, Source
<1>3. ASSUME NEW n \in DOMAIN sources
      PROVE  /\ Cardinality(keeps(n)) \in Nat
             /\ found(n) \in [1..Cardinality(keeps(n)) -> keeps(n)]
             /\ \A i, j \in 1..Cardinality(keeps(n)) : found(n)[i] = found(n)[j] => i = j
             /\ \A p \in keeps(n) : \E i \in 1..Cardinality(keeps(n)) : found(n)[i] = p
  <2>1. IsFiniteSet(keeps(n))
    <3>1. Matched(Present, sources[n]) \subseteq {sources[n]}
              \/ Matched(Present, sources[n]) \subseteq Exists(Present)
      BY DEF Matched
    <3>2. keeps(n) \subseteq {sources[n]} \/ keeps(n) \subseteq Exists(Present)
      BY <3>1 DEF Kept
    <3>3. IsFiniteSet({sources[n]}) /\ IsFiniteSet(Exists(Present))
      BY FS_Singleton, PresentContext
    <3>. HIDE DEF keeps
    <3>. QED
      BY <3>2, <3>3, FS_Subset
  <2>. HIDE DEF keeps
  <2>. QED
    BY <2>1, SetToSeqType, SetToSeqOnce, FS_CardinalityType
<1>. DEFINE size(n) == Cardinality(keeps(n))
<1>4. \A n \in DOMAIN sources :
          /\ size(n) \in Nat /\ found(n) \in [1..size(n) -> keeps(n)]
          /\ \A i, j \in 1..size(n) : found(n)[i] = found(n)[j] => i = j
          /\ \A p \in keeps(n) : \E i \in 1..size(n) : found(n)[i] = p
  BY <1>3
<1>5. \A n \in DOMAIN sources :
          /\ parts[n] \in Seq(P) /\ DOMAIN parts[n] = 1..size(n)
          /\ \A i \in 1..size(n) : parts[n][i] = Real(context, found(n)[i])
  <2>. HIDE DEF keeps, found, size
  <2>1. ASSUME NEW n \in DOMAIN sources
        PROVE  part(n) \in Seq(P) /\ DOMAIN part(n) = 1..size(n)
               /\ \A i \in 1..size(n) : part(n)[i] = Real(context, found(n)[i])
    <3>1. DOMAIN found(n) = 1..size(n) /\ \A i \in 1..size(n) : found(n)[i] \in keeps(n)
      BY <1>4
    <3>2. \A i \in 1..size(n) : Real(Present, found(n)[i]) \in P
      BY <3>1
    <3>. HIDE DEF P
    <3>3. part(n) \in [1..size(n) -> P]
      BY <3>1, <3>2
    <3>4. part(n) \in Seq(P)
      <4>. HIDE DEF part
      <4>. QED
        BY <1>4, <3>3, SeqDef
    <3>. QED
      BY <3>1, <3>4, PresentWhole
  <2>. HIDE DEF part
  <2>. QED
    BY <2>1
<1>6. DOMAIN parts = DOMAIN sources /\ parts \in Seq(Seq(P))
  <2>1. parts \in [1..Len(sources) -> Seq(P)]
    <3>. HIDE DEF P, part, keeps, sources
    <3>. QED
      BY <1>1, <1>5
  <2>. HIDE DEF parts, P, sources
  <2>. QED
    BY <1>1, <2>1, SeqDef
<1>. HIDE DEF P, size, part, parts, found, keeps, names, sources
<1>7. Keeps(parts, FlattenSeq(parts))
  BY <1>6, FlattenKeeps
<1>8. \A pos : pos \in Positions(parts) <=>
          \E n \in DOMAIN sources : \E i \in 1..size(n) : pos = <<n, i>>
  <2>1. \A n \in DOMAIN sources : \A pos : pos \in PositionsIn(n, parts[n]) <=>
            \E i \in 1..size(n) : pos = <<n, i>>
    BY <1>5 DEF PositionsIn
  <2>2. \A pos : pos \in Positions(parts) <=>
            \E n \in DOMAIN sources : pos \in PositionsIn(n, parts[n])
    BY <1>6 DEF Positions
  <2>. QED
    BY <2>1, <2>2
<1>. DEFINE list == FlattenSeq(parts)
<1>9. ASSUME NEW name \in names
      PROVE  \E i \in DOMAIN list : list[i] = Source(name)
  <2>1. PICK n \in DOMAIN sources : \E p \in keeps(n) : name = <<n, p>>
    BY <1>2
  <2>2. PICK p \in keeps(n) : name = <<n, p>>
    BY <2>1
  <2>3. PICK i \in 1..size(n) : found(n)[i] = p
    BY <1>4
  <2>4. <<n, i>> \in Positions(parts) /\ parts[n][i] = Source(name)
    BY <1>5, <1>8, <2>2, <2>3 DEF Source
  <2>. QED
    BY <1>7, <2>4 DEF Keeps
<1>10. Several(Positions(parts)) <=> Several(names)
  <2>1. ASSUME Several(Positions(parts)) PROVE Several(names)
    <3>1. PICK a, b \in Positions(parts) : a # b
      BY <2>1 DEF Several
    <3>2. PICK n \in DOMAIN sources : \E i \in 1..size(n) : a = <<n, i>>
      BY <1>8
    <3>3. PICK i \in 1..size(n) : a = <<n, i>>
      BY <3>2
    <3>4. PICK m \in DOMAIN sources : \E j \in 1..size(m) : b = <<m, j>>
      BY <1>8
    <3>5. PICK j \in 1..size(m) : b = <<m, j>>
      BY <3>4
    <3>6. found(n)[i] \in keeps(n) /\ found(m)[j] \in keeps(m)
      BY <1>4
    <3>7. <<n, found(n)[i]>> \in names /\ <<m, found(m)[j]>> \in names
      BY <1>2, <3>6
    <3>8. <<n, found(n)[i]>> # <<m, found(m)[j]>>
      BY <1>4, <3>1, <3>3, <3>5
    <3>. QED
      BY <3>7, <3>8 DEF Several
  <2>2. ASSUME Several(names) PROVE Several(Positions(parts))
    <3>1. PICK a, b \in names : a # b
      BY <2>2 DEF Several
    <3>2. PICK n \in DOMAIN sources : \E p \in keeps(n) : a = <<n, p>>
      BY <1>2
    <3>3. PICK p \in keeps(n) : a = <<n, p>>
      BY <3>2
    <3>4. PICK m \in DOMAIN sources : \E q \in keeps(m) : b = <<m, q>>
      BY <1>2
    <3>5. PICK q \in keeps(m) : b = <<m, q>>
      BY <3>4
    <3>6. PICK i \in 1..size(n) : found(n)[i] = p
      BY <1>4
    <3>7. PICK j \in 1..size(m) : found(m)[j] = q
      BY <1>4
    <3>8. <<n, i>> \in Positions(parts) /\ <<m, j>> \in Positions(parts)
      BY <1>8
    <3>9. <<n, i>> # <<m, j>>
      BY <3>1, <3>3, <3>5, <3>6, <3>7
    <3>. QED
      BY <3>8, <3>9 DEF Several
  <2>. QED
    BY <2>1, <2>2
<1>11. Resolved(Present, Front(args)) = list
  BY DEF Resolved, parts, part, found, keeps, sources
<1>12. Len(list) > 1 <=> Several(names)
  BY <1>7, <1>10 DEF Keeps
<1>. QED
  <2>1. names = NotExcluded(Names(args))
    BY DEF names
  <2>. HIDE DEF list
  <2>. QED
    BY <1>9, <1>11, <1>12, <2>1

(* Each COPY of a Dockerfile is one of its steps.                          *)
HasStep(s, i) == \E j \in 1..Len(s) : s[j].word = "COPY" /\ s[j].args = i.args

LEMMA CopyHasStep ==
  ASSUME call \in Calls, call.dockerfile # None, NEW k \in CopiesOf
  PROVE  HasStep(Steps(call.dockerfile), call.dockerfile[k])
<1>. DEFINE d == call.dockerfile
            N == Len(d)
<1>1. N \in Nat /\ DOMAIN d = 1..N /\ \A m \in 1..N : Counted(d[m].args)
  <2>1. Counted(d) /\ \A m \in DOMAIN d : Counted(d[m].args)
    BY CallAssumption
  <2>. QED
    BY <2>1 DEF Counted
<1>2. k \in 1..N /\ d[k].word = "COPY"
  BY <1>1 DEF CopiesOf
<1>. HIDE DEF d
<1>3. PICK f : ReadsTo(d, f, N) /\ Steps(d) = f[N].steps
  BY <1>1, StepsLoop
<1>. HIDE DEF N
<1>4. /\ f[0] = [shell |-> None, steps |-> <<>>]
      /\ \A n \in 0..N : n # N => f[n + 1] = Read(d[n + 1], f[n])
  <2>1. 0 \in 0..N /\ \A n \in 0..N : n # N => n + 1 \in 0..N /\ n + 1 # 0 /\ (n + 1) - 1 = n
    BY <1>1
  <2>. QED
    BY <1>3, <2>1 DEF ReadsTo
<1>. DEFINE S == {n \in Nat : n \in 0..N => /\ IsProgram(f[n].steps)
                                            /\ k <= n => HasStep(f[n].steps, d[k])}
<1>5. 0 \in S
  BY <1>2, <1>4, EmptyProgram
<1>6. ASSUME NEW n \in Nat, n \in S
      PROVE  n + 1 \in S
  <2>1. SUFFICES ASSUME n + 1 \in 0..N
                 PROVE  /\ IsProgram(f[n + 1].steps)
                        /\ k <= n + 1 => HasStep(f[n + 1].steps, d[k])
    OBVIOUS
  <2>2. n \in 0..N /\ n # N /\ n + 1 \in 1..N
    BY <1>1, <2>1
  <2>. DEFINE s == f[n].steps
              t == StepsOf(d[n + 1], f[n].shell)
  <2>3. IsProgram(s) /\ (k <= n => HasStep(s, d[k]))
    BY <1>6, <2>2
  <2>4. f[n + 1].steps = s \o t
    <3>1. f[n + 1] = Read(d[n + 1], f[n])
      BY <1>4, <2>2
    <3>2. \A i, before : Read(i, before).steps = before.steps \o StepsOf(i, before.shell)
      BY DEF Read
    <3>. QED
      BY <3>1, <3>2
  <2>5. IsProgram(t)
    BY <1>1, <2>2, StepsOfProgram
  <2>6. k = n + 1 => Len(t) = 1 /\ t[1].word = "COPY" /\ t[1].args = d[k].args
    <3>1. \A i, shell : i.word = "COPY" =>
              LET u == StepsOf(i, shell) IN Len(u) = 1 /\ u[1].word = "COPY" /\ u[1].args = i.args
      BY DEF StepsOf
    <3>. QED
      BY <1>2, <3>1
  <2>. HIDE DEF s, t
  <2>7. IsProgram(s \o t)
    BY <2>3, <2>5, ProgramConcat
  <2>8. /\ Len(s) \in Nat /\ Len(t) \in Nat /\ Len(s \o t) = Len(s) + Len(t)
        /\ \A i \in 1..Len(s) : (s \o t)[i] = s[i]
        /\ \A i \in 1..Len(t) : (s \o t)[Len(s) + i] = t[i]
    <3>1. IsSequence(s) /\ IsSequence(t)
      BY <2>3, <2>5 DEF IsProgram, IsSequence
    <3>. QED
      BY <3>1, SequencesJoined
  <2>9. ASSUME k <= n + 1
        PROVE  HasStep(s \o t, d[k])
    <3>1. CASE k <= n
      <4>1. PICK j \in 1..Len(s) : s[j].word = "COPY" /\ s[j].args = d[k].args
        BY <2>3, <3>1 DEF HasStep
      <4>2. (s \o t)[j] = s[j] /\ j \in 1..Len(s \o t)
        BY <2>8
      <4>. QED
        BY <4>1, <4>2 DEF HasStep
    <3>2. CASE k = n + 1
      <4>1. (s \o t)[Len(s) + 1] = t[1] /\ Len(s) + 1 \in 1..Len(s \o t)
        <5>1. 1 \in 1..Len(t) /\ Len(t) = 1
          <6>1. Len(t) = 1
            BY <2>6, <3>2
          <6>. QED
            BY <6>1
        <5>2. Len(s) + 1 \in 1..Len(s \o t)
          BY <2>8, <5>1
        <5>. QED
          BY <2>8, <5>1, <5>2
      <4>. QED
        BY <2>6, <3>2, <4>1 DEF HasStep
    <3>. QED
      BY <1>2, <2>9, <3>1, <3>2
  <2>. QED
    BY <2>4, <2>7, <2>9
<1>7. Nat \subseteq S
  <2>. HIDE DEF S
  <2>. QED
    BY <1>5, <1>6, Induct
<1>8. N \in 0..N /\ N \in S /\ k <= N
  BY <1>1, <1>2, <1>7
<1>9. HasStep(Steps(d), d[k])
  BY <1>3, <1>8
<1>. QED
  BY <1>9 DEF d

(* Nothing that has arrived goes away, and a COPY names the same sources.  *)
LEMMA SameNames ==
  ASSUME UNCHANGED context
  PROVE  /\ \A args : NotExcluded(Names(args))' = NotExcluded(Names(args))
         /\ \A name : Source(name)' = Source(name)
<1>1. \A name : Source(name)' = Source(name)
  BY DEF Source
<1>2. \A args : Names(args)' = Names(args)
  BY DEF Names
<1>3. \A p : Excluded(p)' <=> Excluded(p)
  BY DEF Excluded
<1>4. \A args : NotExcluded(Names(args))' = NotExcluded(Names(args))
  BY <1>1, <1>2, <1>3 DEF NotExcluded
<1>. QED
  BY <1>1, <1>4

LEMMA StillArrived ==
  ASSUME UNCHANGED context, DOMAIN files \subseteq DOMAIN files'
  PROVE  /\ \A dest, several, s :
                SourceArrived(dest, several, s) => SourceArrived(dest, several, s)'
         /\ \A args : Arrived(args) => Arrived(args)'
<1>1. \A p : Excluded(p)' <=> Excluded(p)
  BY DEF Excluded
<1>2. \A dest, several, s :
          SourceArrived(dest, several, s) => SourceArrived(dest, several, s)'
  BY <1>1 DEF SourceArrived
<1>3. \A args : Arrived(args) => Arrived(args)'
  BY <1>2, SameNames DEF Arrived, HasArrived
<1>. QED
  BY <1>2, <1>3

(* Whatever the steps do, nothing is taken from the machine.               *)
LEMMA FilesStay == [Next]_vars => DOMAIN files \subseteq DOMAIN files'
<1>1. ASSUME NEW write, files' \in {files, Written(write)}
      PROVE  DOMAIN files \subseteq DOMAIN files'
  BY <1>1 DEF Written
<1>2. ASSUME UNCHANGED files
      PROVE  DOMAIN files \subseteq DOMAIN files'
  BY <1>2
<1>. SUFFICES ASSUME [Next]_vars PROVE DOMAIN files \subseteq DOMAIN files'
  OBVIOUS
<1>3. CASE Note \/ Command \/ StartCopy \/ MarkExecutable \/ EndCopy
  BY <1>2, <1>3 DEF Note, Command, StartCopy, MarkExecutable, EndCopy
<1>4. CASE Add
  BY <1>1, <1>2, <1>4 DEF Add, Sync
<1>5. CASE CopyDirectory
  BY <1>1, <1>5 DEF CopyDirectory, Sync
<1>6. CASE CopyFile
  BY <1>1, <1>2, <1>6 DEF CopyFile, Sync
<1>7. CASE Refuse \/ Forked \/ ForkFails \/ Finish \/ Delete \/ DeleteFails \/ DeleteAgain
  BY <1>2, <1>7 DEF Refuse, Forked, ForkFails, Finish, Delete, DeleteFails, DeleteAgain
<1>8. ASSUME NEW p \in context.files, Vanish(p)
      PROVE  DOMAIN files \subseteq DOMAIN files'
  BY <1>2, <1>8 DEF Vanish
<1>9. CASE UNCHANGED vars
  BY <1>2, <1>9 DEF vars
<1>. QED
  BY <1>3, <1>4, <1>5, <1>6, <1>7, <1>8, <1>9 DEF Next, Build

(* A step is done: if it is a COPY, everything has arrived.                *)
LEMMA StepCopied ==
  ASSUME StepsInv, CopiedInv, gone = {}, pc \in {"step", "copy", "sent"}, steps # <<>>,
         UNCHANGED <<call, context>>, DOMAIN files \subseteq DOMAIN files',
         pc' = "step", steps' = Tail(steps),
         NEW args, args = step.args, step.word = "COPY" => Arrived(args)'
  PROVE  CopiedInv'
<1>1. PICK all : all = Steps(call.dockerfile)
  OBVIOUS
<1>2. IsProgram(all) /\ Remaining(all, steps)
  BY <1>1, CallProgram
<1>3. PICK applied : applied = Len(all) - Len(steps)
  OBVIOUS
<1>4. /\ applied \in Nat /\ step = all[applied + 1] /\ Len(all) - Len(steps') = applied + 1
  <2>1. Len(all) \in Nat
    BY <1>2, LenProperties DEF IsProgram
  <2>2. Len(steps) \in Nat
    BY <1>2, <2>1 DEF Remaining
  <2>3. step = all[applied + 1] /\ Len(Tail(steps)) = Len(steps) - 1 /\ applied \in Nat
    BY <1>2, <1>3, RemainingTail DEF step
  <2>. QED
    BY <1>3, <2>1, <2>2, <2>3
<1>5. CopiedUpTo(all, applied)
  BY <1>1, <1>3 DEF CopiedInv
<1>6. \A j \in 1..applied : all[j].word = "COPY" => Arrived(all[j].args)'
  BY <1>5, StillArrived DEF CopiedUpTo
<1>7. \A j \in 1..applied + 1 : all[j].word = "COPY" => Arrived(all[j].args)'
  <2>1. \A j \in 1..applied + 1 : j \in 1..applied \/ j = applied + 1
    BY <1>4
  <2>2. all[applied + 1].word = "COPY" => Arrived(all[applied + 1].args)'
    BY <1>4
  <2>. QED
    BY <1>6, <2>1, <2>2
<1>8. CopiedUpTo(all, applied + 1)'
  BY <1>7 DEF CopiedUpTo
<1>9. Steps(call'.dockerfile) = all
  BY <1>1
<1>. QED
  BY <1>4, <1>8, <1>9 DEF CopiedInv

(* A COPY goes on.                                                         *)
LEMMA OnTheWay ==
  ASSUME StepsInv, CopiedInv, gone = {}, pc \in {"step", "copy", "sent"},
         UNCHANGED <<call, context, steps>>, DOMAIN files \subseteq DOMAIN files',
         pc' \in {"copy", "sent"}, UnderWay', pc' = "sent" => InPlace'
  PROVE  CopiedInv'
<1>1. PICK all : all = Steps(call.dockerfile)
  OBVIOUS
<1>2. PICK applied : applied = Len(all) - Len(steps)
  OBVIOUS
<1>3. CopiedUpTo(all, applied)
  BY <1>1, <1>2 DEF CopiedInv
<1>4. CopiedUpTo(all, applied)'
  BY <1>3, StillArrived DEF CopiedUpTo
<1>5. Steps(call'.dockerfile) = all /\ Len(all) - Len(steps') = applied
  BY <1>1, <1>2
<1>. QED
  BY <1>4, <1>5 DEF CopiedInv

LEMMA GivenUp ==
  ASSUME pc' \notin {"step", "copy", "sent", "returned"} \/ gone' # {}
  PROVE  CopiedInv'
  BY DEF CopiedInv

(* A source leaves the list once all of it has arrived.                    *)
LEMMA SourceDone ==
  ASSUME UnderWay, UNCHANGED <<context, steps, multiple>>, DOMAIN files \subseteq DOMAIN files',
         NEW T, todo \in Seq(T), todo # <<>>, todo' = Tail(todo),
         NEW first, first = todo[1], NEW dest, dest = Dest, NEW several, several = multiple,
         SourceArrived(dest, several, first)'
  PROVE  UnderWay'
<1>1. PICK args : args = step.args
  OBVIOUS
<1>2. PICK names : names = NotExcluded(Names(args))
  OBVIOUS
<1>3. NotExcluded(Names(args))' = names /\ \A name : Source(name)' = Source(name)
  BY <1>2, SameNames
<1>4. several = Several(names)
  BY <1>1, <1>2 DEF UnderWay
<1>5. ASSUME NEW name \in names
      PROVE  \/ \E n \in DOMAIN todo' : todo'[n] = Source(name)
             \/ SourceArrived(dest, several, Source(name))'
  <2>1. CASE \E n \in DOMAIN todo : todo[n] = Source(name)
    <3>1. PICK n \in DOMAIN todo : todo[n] = Source(name)
      BY <2>1
    <3>2. CASE n = 1
      BY <1>3, <3>1, <3>2
    <3>3. CASE n # 1
      <4>1. DOMAIN todo = 1..Len(todo) /\ Len(todo) \in Nat
        BY LenProperties
      <4>2. /\ Tail(todo) \in Seq(T) /\ Len(Tail(todo)) = Len(todo) - 1
            /\ \A m \in 1..Len(Tail(todo)) : Tail(todo)[m] = todo[m + 1]
        BY HeadTailProperties
      <4>3. DOMAIN Tail(todo) = 1..Len(todo) - 1
        BY <4>2, LenProperties
      <4>4. n - 1 \in 1..Len(todo) - 1 /\ (n - 1) + 1 = n
        BY <3>3, <4>1
      <4>5. n - 1 \in DOMAIN todo' /\ todo'[n - 1] = Source(name)
        BY <3>1, <4>2, <4>3, <4>4
      <4>. QED
        BY <4>5
    <3>. QED
      BY <3>2, <3>3
  <2>2. CASE SourceArrived(dest, several, Source(name))
    <3>1. PICK s : s = Source(name)
      OBVIOUS
    <3>2. SourceArrived(dest, several, s)'
      BY <2>2, <3>1, StillArrived
    <3>. QED
      BY <1>3, <3>1, <3>2
  <2>. QED
    BY <1>1, <1>2, <2>1, <2>2 DEF UnderWay
<1>6. step'.args = args /\ Dest' = dest
  BY <1>1 DEF step, Dest
<1>. QED
  BY <1>3, <1>4, <1>5, <1>6 DEF UnderWay

LEMMA StillUnderWay ==
  ASSUME UnderWay, UNCHANGED <<context, steps, todo, multiple>>, DOMAIN files \subseteq DOMAIN files'
  PROVE  UnderWay'
<1>1. PICK args : args = step.args
  OBVIOUS
<1>2. PICK names : names = NotExcluded(Names(args))
  OBVIOUS
<1>3. NotExcluded(Names(args))' = names /\ \A name : Source(name)' = Source(name)
  BY <1>2, SameNames
<1>4. PICK dest : dest = Dest
  OBVIOUS
<1>5. PICK several : several = multiple
  OBVIOUS
<1>6. several = Several(names)
  BY <1>1, <1>2, <1>5 DEF UnderWay
<1>7. ASSUME NEW name \in names
      PROVE  \/ \E n \in DOMAIN todo' : todo'[n] = Source(name)
             \/ SourceArrived(dest, several, Source(name))'
  <2>1. PICK s : s = Source(name)
    OBVIOUS
  <2>2. \/ \E n \in DOMAIN todo : todo[n] = s
        \/ SourceArrived(dest, several, s)
    BY <1>1, <1>2, <1>4, <1>5, <2>1 DEF UnderWay
  <2>3. SourceArrived(dest, several, s) => SourceArrived(dest, several, s)'
    BY StillArrived
  <2>. QED
    BY <1>3, <2>1, <2>2, <2>3
<1>8. step'.args = args /\ Dest' = dest
  BY <1>1, <1>4 DEF step, Dest
<1>. QED
  BY <1>3, <1>5, <1>6, <1>7, <1>8 DEF UnderWay

(* syncDir sends all that a directory has and no rule ignores.             *)
LEMMA DirectoryArrives ==
  ASSUME HomeInv, gone = {}, UNCHANGED context,
         NEW first \in Exists(context) \cup {Root}, first = Root \/ first \in context.dirs,
         NEW dest, NEW several,
         \A p \in Sent(context, first, gone) : dest.path \o Relative(first, p) \in DOMAIN files'
  PROVE  SourceArrived(dest, several, first)'
<1>1. context \in Contexts /\ Exists(context) \subseteq Seq(STRING)
  BY ContextAssumption DEF HomeInv
<1>2. ASSUME NEW p \in context.files, p = first \/ Below(first, p), ~Excluded(p)
      PROVE  Place(dest, several, first, p) \in DOMAIN files'
  <2>1. p # first /\ Below(first, p)
    BY <1>1, <1>2, ContextAssumption
  <2>2. p \in Seq(STRING) /\ (first = Root \/ first \in Seq(STRING))
    BY <1>1 DEF Exists
  <2>3. Anchored(first, Relative(first, p)) = p
    BY <2>1, <2>2, Reanchored
  <2>4. ~Ignores(context.rules, p)
    BY <1>1, <1>2, IgnoredIsExcluded
  <2>5. p \in Sent(context, first, gone)
    BY <2>1, <2>3, <2>4 DEF Sent
  <2>. QED
    BY <2>1, <2>5 DEF Place
<1>3. \A p : Excluded(p)' <=> Excluded(p)
  BY DEF Excluded
<1>. QED
  BY <1>2, <1>3 DEF SourceArrived

(* Of a file there is only the file.                                       *)
LEMMA FileArrives ==
  ASSUME HomeInv, UNCHANGED context, NEW first \in context.files, NEW dest, NEW several,
         DestinationFor(dest, first, several) \in DOMAIN files'
  PROVE  SourceArrived(dest, several, first)'
<1>1. \A p \in context.files : ~Below(first, p)
  BY ContextAssumption DEF HomeInv
<1>2. \A p \in context.files : p = first \/ Below(first, p) =>
          Place(dest, several, first, p) \in DOMAIN files'
  BY <1>1 DEF Place, DestinationFor
<1>. QED
  BY <1>2 DEF SourceArrived

LEMMA InitCopied == Init => CopiedInv
  BY DEF Init, CopiedInv

LEMMA NextCopied == StepsInv /\ HomeInv /\ CopiedInv /\ [Next]_vars => CopiedInv'
<1>. SUFFICES ASSUME StepsInv, HomeInv, CopiedInv, [Next]_vars
              PROVE  CopiedInv'
  OBVIOUS
<1>1. DOMAIN files \subseteq DOMAIN files'
  BY FilesStay
<1>2. context \in Contexts /\ todo \in Seq({p \in Exists(context) : ~Ignores(context.rules, p)})
  BY DEF HomeInv
<1>3. ASSUME NEW p \in context.files, Vanish(p)
      PROVE  CopiedInv'
  BY <1>3, GivenUp DEF Vanish
<1>4. CASE Refuse \/ ForkFails \/ Delete \/ DeleteFails \/ DeleteAgain
  BY <1>4, GivenUp DEF Refuse, ForkFails, Delete, DeleteFails, DeleteAgain
<1>5. CASE Forked
  <2>1. CASE call.dockerfile = None
    BY <1>5, <2>1 DEF Forked, CopiedInv
  <2>2. CASE call.dockerfile # None
    <3>1. PICK all : all = Steps(call.dockerfile)
      OBVIOUS
    <3>2. call' = call /\ steps' = all /\ pc' = "step"
      BY <1>5, <2>2, <3>1 DEF Forked
    <3>3. Len(all) \in Nat
      <4>1. Counted(call.dockerfile)
            /\ \A k \in DOMAIN call.dockerfile : Counted(call.dockerfile[k].args)
        BY <2>2, CallAssumption DEF StepsInv
      <4>2. IsProgram(all)
        BY <3>1, <4>1, StepsProgram
      <4>. QED
        BY <4>2, LenProperties DEF IsProgram
    <3>4. Len(all) - Len(steps') = 0 /\ Steps(call'.dockerfile) = all
      BY <3>1, <3>2, <3>3
    <3>. QED
      BY <3>2, <3>4 DEF CopiedInv, CopiedUpTo
  <2>. QED
    BY <2>1, <2>2
<1>6. CASE Finish
  <2>1. pc = "step" /\ steps = <<>> /\ pc' = "returned" /\ UNCHANGED <<call, context, gone>>
    BY <1>6 DEF Finish
  <2>2. PICK all : all = Steps(call.dockerfile)
    OBVIOUS
  <2>3. Len(all) - Len(steps) = Len(all)
    <3>1. IsProgram(all)
      BY <2>1, <2>2, CallProgram
    <3>2. Len(all) \in Nat
      BY <3>1, LenProperties DEF IsProgram
    <3>. QED
      BY <2>1, <3>2
  <2>4. gone = {} => CopiedUpTo(all, Len(all))
    BY <2>1, <2>2, <2>3 DEF CopiedInv
  <2>5. CopiedUpTo(all, Len(all)) => CopiedUpTo(all, Len(all))'
    BY <1>1, <2>1, StillArrived DEF CopiedUpTo
  <2>. QED
    BY <2>1, <2>2, <2>4, <2>5 DEF CopiedInv
<1>7. CASE UNCHANGED vars
  <2>1. UNCHANGED <<call, context, gone, pc, steps, todo, multiple, files>>
    BY <1>7 DEF vars, copying
  <2>2. PICK all : all = Steps(call.dockerfile)
    OBVIOUS
  <2>3. \A n : CopiedUpTo(all, n) => CopiedUpTo(all, n)'
    BY <1>1, <2>1, StillArrived DEF CopiedUpTo
  <2>4. PICK applied : applied = Len(all) - Len(steps)
    OBVIOUS
  <2>5. UnderWay => UnderWay'
    BY <1>1, <2>1, StillUnderWay
  <2>6. InPlace => InPlace'
    BY <2>1 DEF InPlace, Dest, step
  <2>7. Steps(call'.dockerfile) = all /\ Len(all) - Len(steps') = applied
    BY <2>1, <2>2, <2>4
  <2>. QED
    BY <2>1, <2>2, <2>3, <2>4, <2>5, <2>6, <2>7 DEF CopiedInv
<1>8. ASSUME gone = {}, Apply
      PROVE  CopiedInv'
  <2>. USE DEF Next_, Abort
  <2>1. UNCHANGED <<call, context, gone>>
    BY <1>8, ApplyStep
  <2>2. PICK args : args = step.args
    OBVIOUS
  <2>3. PICK dest : dest = Dest
    OBVIOUS
  <2>4. ASSUME pc' = "step", steps' = Tail(steps), pc = "step", steps # <<>>, step.word # "COPY"
        PROVE  CopiedInv'
    BY <1>1, <1>8, <2>1, <2>2, <2>4, StepCopied
  <2>5. CASE Note
    BY <2>4, <2>5 DEF Note
  <2>6. CASE Command
    <3>1. pc = "step" /\ steps # <<>> /\ step.word # "COPY"
          /\ \/ pc' = "step" /\ steps' = Tail(steps)
             \/ pc' = "deleting"
      BY <2>6 DEF Command, RunChecked, Runs
    <3>. QED
      BY <2>4, <3>1, GivenUp
  <2>7. CASE Add
    <3>1. pc = "step" /\ steps # <<>> /\ step.word # "COPY"
          /\ \/ pc' = "step" /\ steps' = Tail(steps)
             \/ pc' = "deleting"
      BY <2>7 DEF Add, Sync
    <3>. QED
      BY <2>4, <3>1, GivenUp
  <2>8. CASE StartCopy
    <3>1. CASE pc' = "deleting"
      BY <3>1, GivenUp
    <3>2. CASE pc' # "deleting"
      <4>. DEFINE sources == Front(args)
      <4>1. /\ pc = "step" /\ steps # <<>> /\ pc' = "copy" /\ UNCHANGED <<steps, files>>
            /\ \A n \in DOMAIN sources : Resolves(Present, sources[n])
            /\ todo' = Resolved(Present, sources) /\ multiple' = (Len(todo') > 1)
        BY <2>2, <2>8, <3>2 DEF StartCopy
      <4>2. Len(args) \in Nat
        BY <2>2, <4>1, CallProgram, RemainingTail DEF step
      <4>3. PICK names : names = NotExcluded(Names(args))
        OBVIOUS
      <4>4. /\ \A name \in names : \E i \in DOMAIN todo' : todo'[i] = Source(name)
            /\ Len(todo') > 1 <=> Several(names)
        BY <1>2, <1>8, <4>1, <4>2, <4>3, ResolvedLists
      <4>5. NotExcluded(Names(args))' = names /\ \A name : Source(name)' = Source(name)
        BY <2>1, <4>3, SameNames
      <4>6. multiple' = Several(names)
        <5>1. Len(todo') \in Nat
          <6>1. sources \in Seq({args[i] : i \in 1..Len(args) - 1})
            BY <4>2, SourcesType
          <6>. HIDE DEF sources
          <6>2. todo' \in Seq({p \in Exists(context) : ~Ignores(context.rules, p)})
            BY <1>2, <4>1, <6>1, ResolvedType
          <6>. QED
            BY <6>2, LenProperties
        <5>2. multiple' = (Len(todo') > 1)
          BY <4>1
        <5>3. (Len(todo') > 1) \in BOOLEAN /\ Several(names) \in BOOLEAN
          BY <5>1 DEF Several
        <5>. QED
          BY <4>4, <5>2, <5>3
      <4>7. step'.args = args
        BY <2>2, <4>1 DEF step
      <4>8. UnderWay'
        BY <4>4, <4>5, <4>6, <4>7 DEF UnderWay
      <4>. QED
        BY <1>1, <1>8, <2>1, <4>1, <4>8, OnTheWay
    <3>. QED
      BY <3>1, <3>2
  <2>9. CASE CopyDirectory
    <3>1. CASE pc' = "deleting"
      BY <3>1, GivenUp
    <3>2. CASE pc' # "deleting"
      <4>1. PICK first : first = todo[1]
        OBVIOUS
      <4>2. PICK several : several = multiple
        OBVIOUS
      <4>. DEFINE sent == Sent(context, first, gone)
                  at(p) == dest.path \o Relative(first, p)
                  write == [q \in {at(p) : p \in sent} |-> CHOOSE p \in sent : at(p) = q]
      <4>3. /\ pc = "copy" /\ todo # <<>> /\ (first = Root \/ first \in context.dirs)
            /\ pc' = "copy" /\ UNCHANGED <<steps, multiple>> /\ todo' = Tail(todo)
            /\ files' = Written(write)
        BY <2>3, <2>9, <3>2, <4>1 DEF CopyDirectory, Sync
      <4>4. first \in Exists(context)
        BY <1>2, <4>1, <4>3, EmptySeq, ElementOfSeq
      <4>5. \A p \in sent : at(p) \in DOMAIN files'
        <5>1. \A p \in sent : at(p) \in DOMAIN write
          <6>. HIDE DEF sent, at
          <6>. QED
            OBVIOUS
        <5>. HIDE DEF write, sent, at
        <5>. QED
          BY <4>3, <5>1 DEF Written
      <4>6. SourceArrived(dest, several, first)'
        BY <1>8, <2>1, <4>3, <4>4, <4>5, DirectoryArrives
      <4>7. UnderWay
        BY <1>8, <4>3 DEF CopiedInv
      <4>8. UnderWay'
        BY <1>1, <1>2, <2>1, <2>3, <4>1, <4>2, <4>3, <4>6, <4>7, SourceDone
      <4>. QED
        BY <1>1, <1>8, <2>1, <4>3, <4>8, OnTheWay
    <3>. QED
      BY <3>1, <3>2
  <2>10. CASE CopyFile
    <3>1. CASE pc' = "deleting"
      BY <3>1, GivenUp
    <3>2. CASE pc' # "deleting"
      <4>1. PICK place : place = DestinationFor(Dest, todo[1], multiple)
        OBVIOUS
      <4>2. /\ pc = "copy" /\ todo[1] \in context.files /\ pc' = "sent"
            /\ UNCHANGED <<steps, todo, multiple>> /\ files' = Written(At(place, todo[1]))
        BY <2>10, <3>2, <4>1 DEF CopyFile, Sync, copying
      <4>3. place \in DOMAIN files'
        BY <4>2 DEF Written, At
      <4>4. InPlace'
        BY <2>1, <4>1, <4>2, <4>3 DEF InPlace, Dest, step
      <4>5. UnderWay
        BY <1>8, <4>2 DEF CopiedInv
      <4>6. UnderWay'
        BY <1>1, <2>1, <4>2, <4>5, StillUnderWay
      <4>. QED
        BY <1>1, <1>8, <2>1, <4>2, <4>4, <4>6, OnTheWay
    <3>. QED
      BY <3>1, <3>2
  <2>11. CASE MarkExecutable
    <3>1. CASE pc' = "deleting"
      BY <3>1, GivenUp
    <3>2. CASE pc' # "deleting"
      <4>1. PICK first : first = todo[1]
        OBVIOUS
      <4>2. PICK several : several = multiple
        OBVIOUS
      <4>3. /\ pc = "sent" /\ pc' = "copy" /\ UNCHANGED <<steps, multiple>> /\ todo' = Tail(todo)
        BY <2>11, <3>2 DEF MarkExecutable, RunChecked, Continue_
      <4>4. UnderWay /\ InPlace /\ todo # <<>>
        BY <1>8, <4>3 DEF CopiedInv, HomeInv
      <4>5. first \in context.files /\ DestinationFor(dest, first, several) \in DOMAIN files'
        BY <1>1, <2>3, <4>1, <4>2, <4>4 DEF InPlace
      <4>6. SourceArrived(dest, several, first)'
        BY <2>1, <4>5, FileArrives
      <4>7. UnderWay'
        BY <1>1, <1>2, <2>1, <2>3, <4>1, <4>2, <4>3, <4>4, <4>6, SourceDone
      <4>. QED
        BY <1>1, <1>8, <2>1, <4>3, <4>7, OnTheWay
    <3>. QED
      BY <3>1, <3>2
  <2>12. CASE EndCopy
    <3>1. CASE pc' = "deleting"
      BY <3>1, GivenUp
    <3>2. CASE pc' # "deleting"
      <4>1. pc = "copy" /\ todo = <<>> /\ pc' = "step" /\ steps' = Tail(steps)
        BY <2>12, <3>2 DEF EndCopy, RunChecked
      <4>2. steps # <<>> /\ step.word = "COPY" /\ UnderWay
        BY <1>8, <4>1 DEF CopiedInv, StepsInv
      <4>3. dest = Last(args)
        BY <2>2, <2>3 DEF Dest
      <4>4. Arrived(args)
        <5>1. PICK names : names = NotExcluded(Names(args))
          OBVIOUS
        <5>2. /\ multiple = Several(names)
              /\ \A name \in names : SourceArrived(Dest, multiple, Source(name))
          <6>1. DOMAIN todo = {}
            BY <4>1
          <6>. QED
            BY <2>2, <4>2, <5>1, <6>1 DEF UnderWay
        <5>3. \A name \in names : SourceArrived(Last(args), Several(names), Source(name))
          BY <2>3, <4>3, <5>2
        <5>. QED
          BY <5>1, <5>3 DEF Arrived, HasArrived
      <4>5. Arrived(args)'
        BY <1>1, <2>1, <4>4, StillArrived
      <4>. QED
        BY <1>1, <1>8, <2>1, <2>2, <4>1, <4>2, <4>5, StepCopied
    <3>. QED
      BY <3>1, <3>2
  <2>. QED
    BY <1>8, <2>5, <2>6, <2>7, <2>8, <2>9, <2>10, <2>11, <2>12 DEF Apply
<1>9. ASSUME gone # {}, Apply
      PROVE  CopiedInv'
  BY <1>9, ApplyStep, GivenUp
<1>. QED
  BY <1>3, <1>4, <1>5, <1>6, <1>7, <1>8, <1>9 DEF Next, Build, Apply

(* What the COPYs that are done name has arrived.                          *)
THEOREM CopiedInductive == Spec => [](StepsInv /\ HomeInv /\ CopiedInv)
<1>. QED
  BY InitSteps, NextSteps, InitHome, NextHome, InitCopied, NextCopied, PTL DEF Spec

(* A returned machine has every file that its COPYs name and .dockerignore *)
(* lets through (build.ts, applyCopy, resolveSources, destinationFor).     *)
THEOREM NamedCopied == Spec => []NamedIsCopied
<1>1. StepsInv /\ HomeInv /\ CopiedInv => NamedIsCopied
  <2>. SUFFICES ASSUME StepsInv, CopiedInv, pc = "returned", call.dockerfile # None, gone = {},
                       NEW k \in CopiesOf
                PROVE  Arrived(call.dockerfile[k].args)
    BY DEF NamedIsCopied
  <2>1. PICK all : all = Steps(call.dockerfile)
    OBVIOUS
  <2>2. CopiedUpTo(all, Len(all))
    BY <2>1 DEF CopiedInv
  <2>3. HasStep(all, call.dockerfile[k])
    BY <2>1, CopyHasStep DEF StepsInv
  <2>4. PICK j \in 1..Len(all) : all[j].word = "COPY" /\ all[j].args = call.dockerfile[k].args
    BY <2>3 DEF HasStep
  <2>. QED
    BY <2>2, <2>4 DEF CopiedUpTo
<1>. QED
  BY <1>1, CopiedInductive, PTL
=============================================================================
